----------------------------- MODULE RiskGuard -----------------------------
(***************************************************************************)
(* The circuit breaker of the agent (agent/src/agent/riskGuard.ts): what   *)
(* its persisted state holds and what each function makes of it.  Every    *)
(* function loads the file, computes and saves without awaiting anything,  *)
(* so within the server process each is one step; AgentCycle takes those   *)
(* steps.                                                                  *)
(*                                                                         *)
(* Time is relative: trippedUntil is kept as the ticks that are left of    *)
(* it, so trippedUntil > now reads cooldown > 0.  The lifetime counters    *)
(* (totalStrategies, ...) are read by nothing and are left out.  A read    *)
(* that fails while the file is whole is left out too.                     *)
(***************************************************************************)
EXTENDS Integers

CONSTANTS
  MaxDrawdownPct,   \* ARWA_MAX_DRAWDOWN_PCT
  MaxStreak,        \* ARWA_MAX_REVERT_STREAK
  Cooldown          \* TRIP_COOLDOWN_MS, in ticks

ASSUME DrawdownAssumption == MaxDrawdownPct \in Nat
ASSUME StreakAssumption   == MaxStreak \in Nat \ {0}
ASSUME CooldownAssumption == Cooldown \in Nat \ {0}

RiskState == [peak : Nat, last : Nat, streak : Nat, cooldown : 0 .. Cooldown]

DefaultState == [peak |-> 0, last |-> 0, streak |-> 0, cooldown |-> 0]

\* saveState logs a failure and goes on.  The file is then the old one if it
\* could not be opened, and cut short if it could but was not written in full:
\* what is left does not parse, and loadState reads it as the default state.
Fates == {"kept", "lost", "torn"}

Saved(old, new, fate) ==
  CASE fate = "kept" -> new
    [] fate = "lost" -> old
    [] fate = "torn" -> DefaultState

\* The drawdown from the peak in hundredths of a percent, rounded down.
DrawdownBp(s) ==
  IF s.peak = 0 \/ s.last >= s.peak THEN 0 ELSE ((s.peak - s.last) * 10000) \div s.peak

DrawdownExceeded(s) == DrawdownBp(s) > MaxDrawdownPct * 100

\* Mutant: one more failure than configured is let through.
TrippedLate(s) == s.cooldown > 0 \/ DrawdownExceeded(s) \/ s.streak > MaxStreak

\* checkCircuitBreaker
Tripped(s) == s.cooldown > 0 \/ DrawdownExceeded(s) \/ s.streak >= MaxStreak

\* Mutant: only what the chain reverted counts, not what failed before it.
AfterRevertOnly(s, outcome) ==
  IF outcome = "success" THEN [s EXCEPT !.streak = 0]
  ELSE IF outcome # "reverted" THEN s
  ELSE [s EXCEPT !.streak = @ + 1,
                 !.cooldown = IF s.streak + 1 >= MaxStreak THEN Cooldown ELSE @]

\* Mutant: a success ends the cooldown too.
AfterOutcomeReopens(s, outcome) ==
  IF outcome = "success" THEN [s EXCEPT !.streak = 0, !.cooldown = 0]
  ELSE [s EXCEPT !.streak = @ + 1,
                 !.cooldown = IF s.streak + 1 >= MaxStreak THEN Cooldown ELSE @]

\* recordStrategyOutcome: anything but a success lengthens the streak.
AfterOutcome(s, outcome) ==
  IF outcome = "success" THEN [s EXCEPT !.streak = 0]
  ELSE [s EXCEPT !.streak = @ + 1,
                 !.cooldown = IF s.streak + 1 >= MaxStreak THEN Cooldown ELSE @]

\* Mutant: the peak is raised before the new value is stored.
AfterSnapshotLatePeak(s, v) == [s EXCEPT !.last = v, !.peak = IF s.last > @ THEN s.last ELSE @]

\* updatePortfolioSnapshot
AfterSnapshot(s, v) == [s EXCEPT !.last = v, !.peak = IF v > @ THEN v ELSE @]

\* resetCircuitBreaker: the drawdown is left as it is.
AfterReset(s) == [s EXCEPT !.streak = 0, !.cooldown = 0]
=============================================================================
