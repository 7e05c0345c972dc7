------------------------- MODULE AgentCycle_proofs -------------------------
(***************************************************************************)
(* The safety of the circuit breaker under concurrent cycles, for every    *)
(* set of cycles, every limit and every cooldown.                          *)
(*                                                                         *)
(* Most steps of a cycle leave the breaker alone, so Skeleton sorts the    *)
(* steps by what they do to it and to the number of cycles in flight; the  *)
(* invariants are proved against those few kinds.  Before them comes what  *)
(* can be said of the proposals of Analyst for all amounts, quotes and     *)
(* confidences.                                                            *)
(***************************************************************************)
EXTENDS AgentCycle, FiniteSetTheorems, TLAPS

\* The cycles that have passed the breaker and have not reported yet.
InFlight == {c \in Cycles : pc[c] \in AtRisk}

\* Every cycle in flight may still add one failure: this is what bounds the
\* overrun, and it is inductive where OverrunBounded alone is not.
FlightBounded ==
  risk.streak + Cardinality(InFlight) <= MaxStreak - 1 + Cardinality(Cycles)

\* The cooldown that is left and the time since the trip add up.
QuietAgrees == risk.cooldown + quiet = Cooldown

IInv == TypeOK /\ FlightBounded /\ QuietAgrees

-----------------------------------------------------------------------------
\* Half a percent off leaves a natural number, less than one mote too low.
LEMMA SlippedBounds ==
  ASSUME NEW amount \in Nat
  PROVE  /\ Slipped(amount) \in Nat
         /\ 10000 * (Slipped(amount) + 1) > 9950 * amount
  BY DEF Slipped

LEMMA AmountOutType ==
  ASSUME NEW i \in Inputs
  PROVE  AmountOut(i) \in Nat
<1>1. i.dex.kind \in {"quote", "error", "thrown"} /\ i.dex.out \in Nat /\ i.amount \in Nat
  BY NumbersAssumption DEF Inputs, DexAnswers
<1> QED
  BY <1>1 DEF AmountOut

LEMMA MinOutType ==
  ASSUME NEW i \in Inputs
  PROVE  Final(i).minOut \in Nat
<1>1. Slipped(AmountOut(i)) \in Nat
  BY AmountOutType, SlippedBounds
<1>2. i.llm.minOut \in Nat
  <2>1. i.llm.minOut \in {0} \cup {Slipped(q) : q \in Quotes}
    BY DEF Inputs, LLMAnswers
  <2>2. \A q \in Quotes : Slipped(q) \in Nat
    BY NumbersAssumption, SlippedBounds
  <2> QED
    BY <2>1, <2>2
<1>3. Reasoned(i).minOut \in Nat
  <2>1. i.llm.kind \in {"unused", "failed", "answered"}
    BY DEF Inputs, LLMAnswers
  <2>2. Heuristic(i).minOut \in Nat
    BY <1>1 DEF Heuristic, Decision
  <2>3. Fallback(i).minOut \in Nat
    BY <1>1 DEF Fallback, Decision
  <2>4. LLMDecision(i).minOut \in Nat
    BY <1>2 DEF LLMDecision, Decision
  <2> QED
    BY <2>1, <2>2, <2>3, <2>4 DEF Reasoned
<1> QED
  BY <1>1, <1>3 DEF Final, Decision

\* What the executor makes of a proposal is a path of it and a natural number.
LEMMA WorkType ==
  ASSUME NEW i \in Inputs
  PROVE  /\ Work(i).kind \in {"hold", "small_stake", "stake", "dex"}
         /\ Work(i).value \in Nat
  BY MinOutType DEF Work, Kind

-----------------------------------------------------------------------------
LEMMA ReasonedClaim ==
  ASSUME NEW i \in Inputs
  PROVE  /\ Reasoned(i).confidence.given \in BOOLEAN
         /\ Reasoned(i).confidence.percent \in Int
<1>1. i.claim.percent \in Int /\ i.llm.claim.percent \in Int
  BY NumbersAssumption DEF Inputs, LLMAnswers, Claims
<1>2. i.claim.given \in BOOLEAN /\ i.llm.claim.given \in BOOLEAN
  BY DEF Inputs, LLMAnswers, Claims
<1>3. i.llm.kind \in {"unused", "failed", "answered"}
  BY DEF Inputs, LLMAnswers
<1>4. CASE i.llm.kind = "unused"
  <2>1. OrElse(i.claim, 0) \in Int
    BY <1>1 DEF OrElse
  <2>2. Clamped(OrElse(i.claim, 0)) \in Int
    BY <2>1 DEF Clamped, AtLeast
  <2>3. Heuristic(i).confidence = Sure(Clamped(OrElse(i.claim, 0)))
    BY DEF Heuristic, Decision
  <2>4. Reasoned(i) = Heuristic(i)
    BY <1>4 DEF Reasoned
  <2> DEFINE percent == Clamped(OrElse(i.claim, 0))
  <2>5. Reasoned(i).confidence = [given |-> TRUE, percent |-> percent]
    BY <2>3, <2>4 DEF Sure
  <2> HIDE DEF percent
  <2> QED
    BY <2>2, <2>5 DEF percent
<1>5. CASE i.llm.kind = "failed"
  BY <1>1, <1>5 DEF Reasoned, Fallback, Decision, Sure, AtLeast, OrElse
<1>6. CASE i.llm.kind = "answered"
  BY <1>1, <1>2, <1>6 DEF Reasoned, LLMDecision, Decision
<1> QED
  BY <1>3, <1>4, <1>5, <1>6

\* README.md ("Force Action" toggle), DORAHACKS.md (minimum guard with
\* fallback to a swap), comments of analyst.ts: whatever the agent would have
\* decided, a forced action reaches the executor; a forced hold then sends
\* nothing, a stake is sent only of what the network accepts, and every other
\* trade is sent for the token that was selected and quoted and asks for that
\* quote less half a percent.
THEOREM ForcedActionsHonoured ==
  \A i \in {j \in Inputs : j.forced # "none"} :
    /\ Confident(i)
    /\ Kind(i) \in {"hold", "stake", "dex"}
    /\ Kind(i) = "hold" <=> i.forced = "hold" \/ i.amount = 0
    /\ Kind(i) = "stake" <=> i.forced = "stake" /\ i.amount # 0 /\ i.amount >= MinStake
    /\ Kind(i) = "dex" =>
         /\ Final(i).action \in {"swap", "add_liquidity", "remove_liquidity"}
         /\ Final(i).token = i.selected
         /\ 10000 * (Final(i).minOut + 1) > 9950 * AmountOut(i)
<1> SUFFICES ASSUME NEW i \in Inputs, i.forced # "none"
             PROVE  /\ Confident(i)
                    /\ Kind(i) \in {"hold", "stake", "dex"}
                    /\ Kind(i) = "hold" <=> i.forced = "hold" \/ i.amount = 0
                    /\ Kind(i) = "stake" <=>
                         i.forced = "stake" /\ i.amount # 0 /\ i.amount >= MinStake
                    /\ Kind(i) = "dex" =>
                         /\ Final(i).action \in {"swap", "add_liquidity", "remove_liquidity"}
                         /\ Final(i).token = i.selected
                         /\ 10000 * (Final(i).minOut + 1) > 9950 * AmountOut(i)
  OBVIOUS
<1>1. i.forced \in Forceable /\ i.amount \in Nat /\ MinStake \in Nat
  BY NumbersAssumption DEF Inputs
<1>2. Confident(i)
  BY ReasonedClaim DEF Confident, Final, Decision, Sure, AtLeast, OrElse
<1>3. Final(i).action = ForcedAction(i)
  BY DEF Final, Decision
<1>4. CASE i.forced = "hold"
  BY <1>2, <1>4 DEF Kind, AmountIn
<1>5. CASE i.forced = "stake" /\ i.amount >= MinStake
  BY <1>1, <1>2, <1>3, <1>5 DEF Kind, AmountIn, ForcedAction
<1>6. CASE i.forced # "hold" /\ ~(i.forced = "stake" /\ i.amount >= MinStake)
  <2>1. ForcedAction(i) \in {"swap", "add_liquidity", "remove_liquidity"}
    BY <1>1, <1>6 DEF ForcedAction, Forceable
  <2>2. Final(i).minOut = Slipped(AmountOut(i)) /\ Final(i).token = i.selected
    BY <1>6, <2>1 DEF Final, Decision, ForcedToken
  <2>3. 10000 * (Final(i).minOut + 1) > 9950 * AmountOut(i)
    BY <2>2, AmountOutType, SlippedBounds
  <2>4. Kind(i) = IF i.amount = 0 THEN "hold" ELSE "dex"
    BY <1>3, <1>6, <2>1 DEF Kind, AmountIn
  <2> QED
    BY <1>2, <1>3, <1>6, <2>1, <2>2, <2>3, <2>4
<1> QED
  BY <1>4, <1>5, <1>6

\* llmStrategy.ts:132-133 says that the fallback for a failing LLM matches the
\* heuristic of the analyst, which it writes a second time.  It does in the
\* action and in the minimum; but the minimum is of the quote for the token that
\* was selected, and the fallback names sCSPR.  The two send the same if sCSPR was
\* selected or the user names the trade, and differ in every other case.  (Nor do
\* they claim the same confidence: only the heuristic can stay below 50.)
THEOREM CopiesDifferInToken ==
  \A i \in {j \in Inputs : j.llm.kind = "failed"} :
    LET other == [i EXCEPT !.llm.kind = "unused"] IN
    /\ Work(i) = Work(other) /\ Final(i).action = Final(other).action
    /\ Final(i).minOut = Final(other).minOut
    /\ Final(i).token = Final(other).token <=>
         i.selected = "sCSPR" \/ i.forced \notin {"none", "hold"}
    /\ Confident(i)
<1> SUFFICES ASSUME NEW i \in Inputs, i.llm.kind = "failed",
                    NEW other, other = [i EXCEPT !.llm.kind = "unused"]
             PROVE  /\ Work(i) = Work(other) /\ Final(i).action = Final(other).action
                    /\ Final(i).minOut = Final(other).minOut
                    /\ Final(i).token = Final(other).token <=>
                         i.selected = "sCSPR" \/ i.forced \notin {"none", "hold"}
                    /\ Confident(i)
  OBVIOUS
<1>1. /\ other.forced = i.forced /\ other.amount = i.amount /\ other.dex = i.dex
      /\ other.bullish = i.bullish /\ other.claim = i.claim /\ other.selected = i.selected
      /\ other.llm.kind = "unused"
  BY DEF Inputs, LLMAnswers
<1>2. AmountOut(other) = AmountOut(i) /\ LowImpact(other) = LowImpact(i)
  BY <1>1 DEF AmountOut, LowImpact
<1>3. Reasoned(i) = Fallback(i) /\ Reasoned(other) = Heuristic(other)
  BY <1>1 DEF Reasoned
<1>4. /\ Reasoned(i).action = Reasoned(other).action
      /\ Reasoned(i).minOut = Reasoned(other).minOut
  BY <1>1, <1>2, <1>3 DEF Fallback, Heuristic, Decision
<1>5. ForcedAction(other) = ForcedAction(i) /\ AmountIn(other) = AmountIn(i)
  BY <1>1 DEF ForcedAction, AmountIn
<1>6. Final(i).action = Final(other).action /\ Final(i).minOut = Final(other).minOut
  BY <1>1, <1>2, <1>4, <1>5 DEF Final, Decision
<1>7. Work(i) = Work(other)
  BY <1>5, <1>6 DEF Work, Kind
<1>8. Confident(i)
  <2>1. i.claim.percent \in Int
    BY NumbersAssumption DEF Inputs, Claims
  <2>2. /\ Reasoned(i).confidence.given /\ Reasoned(i).confidence.percent \in Int
        /\ Reasoned(i).confidence.percent >= 50
    BY <1>3, <2>1 DEF Fallback, Decision, Sure, AtLeast, OrElse
  <2> QED
    BY <2>2 DEF Confident, Final, Decision, Sure, AtLeast, OrElse
<1>9. Final(i).token = Final(other).token <=>
        i.selected = "sCSPR" \/ i.forced \notin {"none", "hold"}
  <2>1. Reasoned(i).token = "sCSPR" /\ Reasoned(other).token = i.selected
    BY <1>1, <1>3 DEF Fallback, Heuristic, Decision
  <2>2. CASE i.forced \in {"none", "hold"}
    <3>1. ASSUME NEW j, j.forced = "none" \/ j.forced = "hold"
          PROVE  Final(j).token = Reasoned(j).token
      <4>1. CASE j.forced = "none"
        BY <4>1 DEF Final
      <4>2. CASE j.forced = "hold"
        <5>1. ForcedToken(j) = Reasoned(j).token
          BY <4>2 DEF ForcedToken, ForcedAction
        <5> QED
          BY <4>2, <5>1 DEF Final, Decision
      <4> QED
        BY <3>1, <4>1, <4>2
    <3>2. Final(i).token = "sCSPR" /\ Final(other).token = i.selected
      <4>1. i.forced = "none" \/ i.forced = "hold"
        BY <2>2
      <4> QED
        BY <1>1, <2>1, <3>1, <4>1
    <3> QED
      BY <2>2, <3>2
  <2>3. CASE i.forced \notin {"none", "hold"}
    <3>1. ForcedToken(i) = ForcedToken(other)
      BY <1>1, <1>5, <2>3 DEF ForcedToken
    <3>2. Final(i).token = ForcedToken(i) /\ Final(other).token = ForcedToken(other)
      BY <1>1, <2>3 DEF Final, Decision
    <3> QED
      BY <2>3, <3>1, <3>2
  <2> QED
    BY <2>2, <2>3
<1> QED
  BY <1>6, <1>7, <1>8, <1>9

-----------------------------------------------------------------------------
\* Nothing is in flight twice, and the number in flight is a number.
LEMMA FlightIsFinite ==
  /\ IsFiniteSet(InFlight)
  /\ Cardinality(InFlight) \in Nat
  /\ Cardinality(Cycles) \in Nat
  /\ Cardinality(InFlight) <= Cardinality(Cycles)
  BY FS_Subset, FS_CardinalityType, CyclesAssumption DEF InFlight

\* The functions of the risk guard keep its type and the order of peak and last.
LEMMA FieldTypes ==
  ASSUME NEW s \in RiskState
  PROVE  s.peak \in Nat /\ s.last \in Nat /\ s.streak \in Nat /\ s.cooldown \in 0 .. Cooldown
  BY DEF RiskState

LEMMA OutcomeType ==
  ASSUME NEW s \in RiskState, NEW o
  PROVE  /\ AfterOutcome(s, o) \in RiskState
         /\ AfterOutcome(s, o).last = s.last
         /\ AfterOutcome(s, o).peak = s.peak
         /\ AfterOutcome(s, o).streak <= s.streak + 1
         /\ AfterOutcome(s, o).cooldown =
              IF o # "success" /\ s.streak + 1 >= MaxStreak THEN Cooldown ELSE s.cooldown
<1>1. s.streak \in Nat /\ s.cooldown \in 0 .. Cooldown
  BY FieldTypes
<1>2. CASE o = "success"
  BY <1>1, <1>2 DEF AfterOutcome, RiskState
<1>3. CASE o # "success"
  <2>. DEFINE t == IF s.streak + 1 >= MaxStreak THEN Cooldown ELSE s.cooldown
  <2>1. t \in 0 .. Cooldown
    BY <1>1, CooldownAssumption
  <2>2. AfterOutcome(s, o) = [s EXCEPT !.streak = s.streak + 1, !.cooldown = t]
    BY <1>3 DEF AfterOutcome, RiskState
  <2>. HIDE DEF t
  <2>3. s.streak + 1 \in Nat
    BY <1>1
  <2>4. /\ AfterOutcome(s, o) \in RiskState
        /\ AfterOutcome(s, o).last = s.last /\ AfterOutcome(s, o).peak = s.peak
        /\ AfterOutcome(s, o).streak = s.streak + 1 /\ AfterOutcome(s, o).cooldown = t
    BY <2>1, <2>2, <2>3 DEF RiskState
  <2> QED
    BY <1>1, <1>3, <2>4 DEF t
<1> QED
  BY <1>2, <1>3

LEMMA SnapshotType ==
  ASSUME NEW s \in RiskState, NEW v \in Nat
  PROVE  /\ AfterSnapshot(s, v) \in RiskState
         /\ AfterSnapshot(s, v).last <= AfterSnapshot(s, v).peak
         /\ AfterSnapshot(s, v).streak = s.streak
         /\ AfterSnapshot(s, v).cooldown = s.cooldown
<1>. DEFINE w == IF v > s.peak THEN v ELSE s.peak
<1>1. w \in Nat /\ v <= w
  BY FieldTypes
<1>2. AfterSnapshot(s, v) = [s EXCEPT !.last = v, !.peak = w]
  BY DEF AfterSnapshot, RiskState
<1>. HIDE DEF w
<1> QED
  BY <1>1, <1>2, FieldTypes DEF RiskState

LEMMA ResetType ==
  ASSUME NEW s \in RiskState
  PROVE  /\ AfterReset(s) \in RiskState
         /\ AfterReset(s).last = s.last /\ AfterReset(s).peak = s.peak
         /\ AfterReset(s).streak = 0 /\ AfterReset(s).cooldown = 0
<1>1. 0 \in 0 .. Cooldown
  BY CooldownAssumption
<1>. DEFINE r == [s EXCEPT !.streak = 0]
<1>2. /\ r \in RiskState
      /\ r.last = s.last /\ r.peak = s.peak /\ r.streak = 0
  BY DEF RiskState
<1>3. AfterReset(s) = [r EXCEPT !.cooldown = 0]
  BY DEF AfterReset
<1>. HIDE DEF r
<1> QED
  BY <1>1, <1>2, <1>3 DEF RiskState

LEMMA DefaultType ==
  /\ DefaultState \in RiskState
  /\ DefaultState.last <= DefaultState.peak
  /\ DefaultState.streak = 0 /\ DefaultState.cooldown = 0
  BY CooldownAssumption DEF DefaultState, RiskState

\* A save leaves a state of the type, whatever becomes of it.
LEMMA SavedType ==
  ASSUME NEW old \in RiskState, NEW new \in RiskState, NEW fate \in Fates,
         old.last <= old.peak, new.last <= new.peak
  PROVE  /\ Saved(old, new, fate) \in RiskState
         /\ Saved(old, new, fate).last <= Saved(old, new, fate).peak
         /\ Saved(old, new, fate).streak =
              (CASE fate = "kept" -> new.streak [] fate = "lost" -> old.streak [] OTHER -> 0)
         /\ Saved(old, new, fate).cooldown =
              (CASE fate = "kept" -> new.cooldown [] fate = "lost" -> old.cooldown [] OTHER -> 0)
<1>1. CASE fate = "kept"
  BY <1>1 DEF Saved
<1>2. CASE fate = "lost"
  BY <1>2 DEF Saved
<1>3. CASE fate = "torn"
  BY <1>3, DefaultType DEF Saved
<1> QED
  BY <1>1, <1>2, <1>3 DEF Fates

\* What recording a failure makes of the file.
LEMMA FailureEffect ==
  ASSUME TypeOK, NEW c \in Cycles, NEW fate \in Fates, RecordFailure(c, fate)
  PROVE  /\ risk' \in RiskState
         /\ risk'.last <= risk'.peak
         /\ risk'.streak <= risk.streak + 1
         /\ risk'.cooldown = (CASE fate = "torn" -> 0
                               [] fate = "kept" /\ risk.streak + 1 >= MaxStreak -> Cooldown
                               [] OTHER -> risk.cooldown)
<1>1. /\ risk \in RiskState /\ risk.last <= risk.peak
      /\ risk.streak \in Nat /\ risk.last \in Nat /\ risk.peak \in Nat
  BY FieldTypes DEF TypeOK
<1>. DEFINE s == AfterOutcome(risk, outcome[c])
<1>2. /\ s \in RiskState /\ s.last = risk.last /\ s.peak = risk.peak
      /\ s.streak <= risk.streak + 1
      /\ s.cooldown = IF risk.streak + 1 >= MaxStreak THEN Cooldown ELSE risk.cooldown
  BY <1>1, OutcomeType DEF RecordFailure
<1>3. risk' = Saved(risk, s, fate)
  BY DEF RecordFailure
<1>. HIDE DEF s
<1>4. s.last <= s.peak /\ s.streak \in Nat
  BY <1>1, <1>2, FieldTypes
<1> QED
  BY <1>1, <1>2, <1>3, <1>4, SavedType DEF Fates

\* What recording a success makes of the file.
LEMMA SuccessEffect ==
  ASSUME TypeOK, NEW c \in Cycles, NEW first \in Fates, NEW second \in Fates,
         RecordSuccess(c, first, second)
  PROVE  /\ risk' \in RiskState
         /\ risk'.last <= risk'.peak
         /\ risk'.streak <= risk.streak + 1
         /\ risk'.cooldown = IF "torn" \in {first, second} THEN 0 ELSE risk.cooldown
<1>1. /\ risk \in RiskState /\ risk.last <= risk.peak
      /\ risk.streak \in Nat /\ risk.last \in Nat /\ risk.peak \in Nat
  BY FieldTypes DEF TypeOK
<1>2. proposal[c].value \in Nat
  <2>1. proposal[c] \in Proposals \cup {NoProposal}
    BY DEF TypeOK
  <2>2. NoProposal.value \in Nat
    BY DEF NoProposal
  <2>3. ASSUME NEW p \in Proposals
        PROVE  p.value \in Nat
    <3>1. PICK i \in Inputs : p = Work(i)
      BY DEF Proposals
    <3> QED
      BY <3>1, WorkType
  <2> QED
    BY <2>1, <2>2, <2>3
<1>. DEFINE r == AfterOutcome(risk, "success")
            s == Saved(risk, r, first)
            t == AfterSnapshot(s, proposal[c].value)
<1>3. /\ r \in RiskState /\ r.last = risk.last /\ r.peak = risk.peak
      /\ r.streak <= risk.streak + 1 /\ r.cooldown = risk.cooldown
  BY <1>1, OutcomeType
<1>4. risk' = Saved(s, t, second)
  BY DEF RecordSuccess
<1>. HIDE DEF r
<1>5. r.last <= r.peak /\ r.streak \in Nat
  BY <1>1, <1>3, FieldTypes
<1>6. /\ s \in RiskState /\ s.last <= s.peak
      /\ s.streak <= risk.streak + 1 /\ s.streak \in Nat
      /\ s.cooldown = IF first = "torn" THEN 0 ELSE risk.cooldown
  <2>1. /\ s \in RiskState /\ s.last <= s.peak
        /\ s.streak = (CASE first = "kept" -> r.streak [] first = "lost" -> risk.streak [] OTHER -> 0)
        /\ s.cooldown =
             (CASE first = "kept" -> r.cooldown [] first = "lost" -> risk.cooldown [] OTHER -> 0)
    BY <1>1, <1>3, <1>5, SavedType
  <2>. HIDE DEF s
  <2> QED
    BY <1>1, <1>3, <1>5, <2>1 DEF Fates
<1>. HIDE DEF s
<1>7. t \in RiskState /\ t.last <= t.peak /\ t.streak = s.streak /\ t.cooldown = s.cooldown
  BY <1>2, <1>6, SnapshotType
<1>. HIDE DEF t
<1> QED
  BY <1>1, <1>4, <1>6, <1>7, SavedType DEF Fates

\* Both kinds of records in one: what the file holds afterwards, and that the time
\* since the trip it took agrees with the cooldown that is left in it.
LEMMA RecordEffect ==
  ASSUME TypeOK, NEW c \in Cycles, RecordOutcome(c)
  PROVE  /\ Goto(c, "recording", "logging")
         /\ risk' \in RiskState /\ risk'.last <= risk'.peak
         /\ risk'.streak <= risk.streak + 1
         /\ quiet' \in 0 .. Cooldown
         /\ QuietAgrees => QuietAgrees'
<1>1. /\ risk.cooldown \in 0 .. Cooldown /\ quiet \in 0 .. Cooldown
      /\ Cooldown \in Nat
  BY FieldTypes, CooldownAssumption DEF TypeOK
<1>2. ASSUME NEW fate \in Fates, RecordFailure(c, fate)
      PROVE  /\ Goto(c, "recording", "logging")
             /\ risk' \in RiskState /\ risk'.last <= risk'.peak
             /\ risk'.streak <= risk.streak + 1
             /\ quiet' \in 0 .. Cooldown
             /\ QuietAgrees => QuietAgrees'
  <2>1. /\ Goto(c, "recording", "logging")
        /\ quiet' = (CASE fate = "torn" -> Cooldown
                      [] fate = "kept" /\ risk.streak + 1 >= MaxStreak -> 0
                      [] OTHER -> quiet)
    BY <1>2 DEF RecordFailure
  <2>2. /\ risk' \in RiskState /\ risk'.last <= risk'.peak
        /\ risk'.streak <= risk.streak + 1
        /\ risk'.cooldown = (CASE fate = "torn" -> 0
                              [] fate = "kept" /\ risk.streak + 1 >= MaxStreak -> Cooldown
                              [] OTHER -> risk.cooldown)
    BY <1>2, FailureEffect
  <2>3. quiet' \in 0 .. Cooldown
    BY <1>1, <2>1
  <2>4. QuietAgrees => QuietAgrees'
    BY <1>1, <2>1, <2>2 DEF QuietAgrees
  <2> QED
    BY <2>1, <2>2, <2>3, <2>4
<1>3. ASSUME NEW first \in Fates, NEW second \in Fates, RecordSuccess(c, first, second)
      PROVE  /\ Goto(c, "recording", "logging")
             /\ risk' \in RiskState /\ risk'.last <= risk'.peak
             /\ risk'.streak <= risk.streak + 1
             /\ quiet' \in 0 .. Cooldown
             /\ QuietAgrees => QuietAgrees'
  <2>1. /\ Goto(c, "recording", "logging")
        /\ quiet' = IF "torn" \in {first, second} THEN Cooldown ELSE quiet
    BY <1>3 DEF RecordSuccess
  <2>2. /\ risk' \in RiskState /\ risk'.last <= risk'.peak
        /\ risk'.streak <= risk.streak + 1
        /\ risk'.cooldown = IF "torn" \in {first, second} THEN 0 ELSE risk.cooldown
    BY <1>3, SuccessEffect
  <2>3. quiet' \in 0 .. Cooldown
    BY <1>1, <2>1
  <2>4. QuietAgrees => QuietAgrees'
    BY <1>1, <2>1, <2>2 DEF QuietAgrees
  <2> QED
    BY <2>1, <2>2, <2>3, <2>4
<1> QED
  BY <1>2, <1>3 DEF RecordOutcome

\* The same of the operator's reset, which adds nothing to the streak.
LEMMA ResetEffect ==
  ASSUME TypeOK, NEW fate \in Fates, Reset(fate)
  PROVE  /\ risk' \in RiskState /\ risk'.last <= risk'.peak
         /\ risk'.streak <= risk.streak
         /\ quiet' \in 0 .. Cooldown
         /\ QuietAgrees => QuietAgrees'
<1>1. /\ risk \in RiskState /\ risk.last <= risk.peak /\ risk.streak \in Nat
      /\ risk.cooldown \in 0 .. Cooldown /\ quiet \in 0 .. Cooldown /\ Cooldown \in Nat
  BY FieldTypes, CooldownAssumption DEF TypeOK
<1>. DEFINE s == AfterReset(risk)
<1>2. /\ s \in RiskState /\ s.last <= s.peak /\ s.streak = 0 /\ s.cooldown = 0
  BY <1>1, ResetType
<1>3. risk' = Saved(risk, s, fate) /\ quiet' = IF fate = "lost" THEN quiet ELSE Cooldown
  BY DEF Reset
<1>. HIDE DEF s
<1>4. /\ risk' \in RiskState /\ risk'.last <= risk'.peak
      /\ risk'.streak =
           (CASE fate = "kept" -> s.streak [] fate = "lost" -> risk.streak [] OTHER -> 0)
      /\ risk'.cooldown =
           (CASE fate = "kept" -> s.cooldown [] fate = "lost" -> risk.cooldown [] OTHER -> 0)
  BY <1>1, <1>2, <1>3, SavedType
<1>5. quiet' \in 0 .. Cooldown
  BY <1>1, <1>3
<1>6. QuietAgrees => QuietAgrees'
  BY <1>1, <1>2, <1>3, <1>4 DEF QuietAgrees, Fates
<1> QED
  BY <1>1, <1>2, <1>4, <1>5, <1>6 DEF Fates

-----------------------------------------------------------------------------
\* A move of one cycle keeps the type of pc and leaves the others in place.
LEMMA GotoEffect ==
  ASSUME TypeOK, NEW c \in Cycles, NEW from \in Places, NEW to \in Places, Goto(c, from, to)
  PROVE  /\ pc' \in [Cycles -> Places]
         /\ pc[c] = from /\ pc'[c] = to
         /\ \A d \in Cycles \ {c} : pc'[d] = pc[d]
  BY DEF TypeOK, Goto

\* The kinds of steps, by what they do to the breaker and to the cycles in
\* flight.
Inward(c) == CheckOk(c)

Elsewhere(c, from, to) ==
  /\ Goto(c, from, to)
  /\ to \in AtRisk => from \in AtRisk
  /\ to # "analysing"
  /\ UNCHANGED <<risk, quiet>>

LEMMA Skeleton ==
  ASSUME [Next]_vars
  PROVE  \/ UNCHANGED <<risk, quiet, pc>>
         \/ \E c \in Cycles : Inward(c)
         \/ \E c \in Cycles, from \in Places, to \in Places : Elsewhere(c, from, to)
         \/ \E c \in Cycles : RecordOutcome(c)
         \/ Tick
         \/ \E fate \in Fates : Reset(fate)
         \/ Crash
         \/ CrashWhileSaving
<1>. USE DEF Elsewhere, AtRisk, Places
<1>1. ASSUME NEW c \in Cycles, CheckTripped(c)
      PROVE  Elsewhere(c, "idle", "holding")
  BY <1>1 DEF CheckTripped
<1>2. ASSUME NEW c \in Cycles, AnalystFails(c)
      PROVE  Elsewhere(c, "analysing", "idle")
  BY <1>2 DEF AnalystFails
<1>3. ASSUME NEW c \in Cycles, NEW p \in Proposals, Propose(c, p)
      PROVE  Elsewhere(c, "analysing", "executing")
  BY <1>3 DEF Propose
<1>4. ASSUME NEW c \in Cycles, ProposeUnconfident(c)
      PROVE  Elsewhere(c, "analysing", "holding")
  BY <1>4 DEF ProposeUnconfident
<1>5. ASSUME NEW c \in Cycles, SkipExecution(c)
      PROVE  Elsewhere(c, "holding", "idle")
  BY <1>5 DEF SkipExecution
<1>6. ASSUME NEW c \in Cycles, Refuse(c) \/ SubmitFails(c)
      PROVE  Elsewhere(c, "executing", "recording")
  BY <1>6 DEF Refuse, SubmitFails
<1>7. ASSUME NEW c \in Cycles, SubmitStake(c)
      PROVE  Elsewhere(c, "executing", "booking")
  BY <1>7 DEF SubmitStake
<1>8. ASSUME NEW c \in Cycles, SubmitSwap(c)
      PROVE  Elsewhere(c, "executing", "waiting")
  BY <1>8 DEF SubmitSwap
<1>9. ASSUME NEW c \in Cycles, SwapAnswered(c)
      PROVE  Elsewhere(c, "waiting", "booking") \/ Elsewhere(c, "waiting", "recording")
  BY <1>9 DEF SwapAnswered
<1>10. ASSUME NEW c \in Cycles, SwapUnanswered(c)
       PROVE  Elsewhere(c, "waiting", "booking")
  BY <1>10 DEF SwapUnanswered
<1>11. ASSUME NEW c \in Cycles, Booked(c)
       PROVE  Elsewhere(c, "booking", "recording")
  BY <1>11 DEF Booked
<1>12. ASSUME NEW c \in Cycles, Logged(c)
       PROVE  Elsewhere(c, "logging", "idle")
  BY <1>12 DEF Logged
<1>13. ASSUME NEW c \in Cycles, NEW result \in {"ok", "reverted"}, Execute(c, result)
       PROVE  UNCHANGED <<risk, quiet, pc>>
  BY <1>13 DEF Execute
<1>14. CASE UNCHANGED vars
  BY <1>14 DEF vars
<1>. DEFINE Moved == \E c \in Cycles, from \in Places, to \in Places : Elsewhere(c, from, to)
<1>15. ASSUME NEW c \in Cycles, Proceed(c)
       PROVE  Moved \/ RecordOutcome(c)
  <2>1. \A from, to \in Places : Elsewhere(c, from, to) => Moved
    OBVIOUS
  <2>2. /\ "idle" \in Places /\ "analysing" \in Places /\ "holding" \in Places
        /\ "executing" \in Places /\ "waiting" \in Places /\ "booking" \in Places
        /\ "recording" \in Places /\ "logging" \in Places
    OBVIOUS
  <2>. HIDE DEF Moved, Elsewhere, Places
  <2> QED
    BY <1>15, <2>1, <2>2, <1>2, <1>3, <1>4, <1>5, <1>6, <1>7, <1>8, <1>9, <1>10, <1>11, <1>12
       DEF Proceed
<1>16. ASSUME NEW c \in Cycles, CheckTripped(c)
       PROVE  Moved
  BY <1>1, <1>16
<1>. HIDE DEF Moved, Elsewhere, Places
<1> QED
  BY <1>13, <1>14, <1>15, <1>16 DEF Next, Inward, Moved

-----------------------------------------------------------------------------
\* Where a cycle stands before and after each step are places.
LEMMA PlacesListed ==
  /\ "idle" \in Places /\ "analysing" \in Places /\ "holding" \in Places
  /\ "executing" \in Places /\ "waiting" \in Places /\ "booking" \in Places
  /\ "recording" \in Places /\ "logging" \in Places
  BY DEF Places

Outcomes == {"none", "skipped", "failed", "reverted", "success"}
OnChain  == {"none", "pending", "ok", "reverted"}

\* Types of the parts a step of a cycle changes besides the breaker.
SlotsOK ==
  /\ proposal \in [Cycles -> Proposals \cup {NoProposal}]
  /\ outcome \in [Cycles -> Outcomes]
  /\ chain \in [Cycles -> OnChain]

LEMMA TypeParts ==
  TypeOK <=> /\ risk \in RiskState /\ risk.last <= risk.peak
             /\ pc \in [Cycles -> Places]
             /\ SlotsOK
             /\ quiet \in 0 .. Cooldown
  BY DEF TypeOK, SlotsOK, Outcomes, OnChain

\* The proposals, outcomes and transactions of the slots keep their types.
LEMMA SlotsType ==
  ASSUME SlotsOK, [Next]_vars
  PROVE  SlotsOK'
<1>. USE DEF SlotsOK, Outcomes, OnChain
<1>1. ASSUME NEW c \in Cycles,
             \/ CheckTripped(c) \/ CheckOk(c) \/ AnalystFails(c) \/ ProposeUnconfident(c)
             \/ SkipExecution(c) \/ Booked(c) \/ RecordOutcome(c)
      PROVE  SlotsOK'
  BY <1>1 DEF CheckTripped, CheckOk, AnalystFails, ProposeUnconfident, SkipExecution,
              Booked, RecordOutcome, RecordFailure, RecordSuccess
<1>2. ASSUME NEW c \in Cycles, NEW p \in Proposals, Propose(c, p)
      PROVE  SlotsOK'
  BY <1>2 DEF Propose
<1>3. ASSUME NEW c \in Cycles, Refuse(c) \/ SubmitFails(c) \/ SwapUnanswered(c)
      PROVE  SlotsOK'
  BY <1>3 DEF Refuse, SubmitFails, SwapUnanswered
<1>4. ASSUME NEW c \in Cycles, SubmitStake(c) \/ SubmitSwap(c)
      PROVE  SlotsOK'
  BY <1>4 DEF SubmitStake, SubmitSwap
<1>5. ASSUME NEW c \in Cycles, SwapAnswered(c)
      PROVE  SlotsOK'
  BY <1>5 DEF SwapAnswered
<1>6. ASSUME NEW c \in Cycles, Logged(c)
      PROVE  SlotsOK'
  BY <1>6 DEF Logged, Forget
<1>7. ASSUME NEW c \in Cycles, NEW result \in {"ok", "reverted"}, Execute(c, result)
      PROVE  SlotsOK'
  BY <1>7 DEF Execute
<1>8. CASE Tick \/ UNCHANGED vars
  BY <1>8 DEF Tick, vars
<1>10. ASSUME NEW fate \in Fates, Reset(fate)
       PROVE  SlotsOK'
  BY <1>10 DEF Reset
<1>9. CASE Crash \/ CrashWhileSaving
  BY <1>9 DEF Crash, CrashWhileSaving, AllCyclesLost
<1>. HIDE DEF SlotsOK
<1> QED
  BY <1>1, <1>2, <1>3, <1>4, <1>5, <1>6, <1>7, <1>8, <1>9, <1>10 DEF Next, Proceed

\* Every variable keeps its type and the last value never exceeds the peak.
LEMMA TypeStep ==
  ASSUME TypeOK, [Next]_vars
  PROVE  TypeOK'
<1>1. SlotsOK'
  BY SlotsType, TypeParts
<1>2. /\ risk \in RiskState /\ risk.last <= risk.peak
      /\ pc \in [Cycles -> Places] /\ quiet \in 0 .. Cooldown
  BY TypeParts
<1>. DEFINE CoreOK == /\ risk \in RiskState /\ risk.last <= risk.peak
                      /\ pc \in [Cycles -> Places] /\ quiet \in 0 .. Cooldown
<1>3. ASSUME UNCHANGED <<risk, quiet, pc>> PROVE CoreOK'
  BY <1>2, <1>3
<1>4. ASSUME NEW c \in Cycles, Inward(c)
      PROVE  CoreOK'
  BY <1>2, <1>4, GotoEffect, PlacesListed DEF Inward, CheckOk
<1>5. ASSUME NEW c \in Cycles, NEW from \in Places, NEW to \in Places, Elsewhere(c, from, to)
      PROVE  CoreOK'
  BY <1>2, <1>5, GotoEffect DEF Elsewhere
<1>6. ASSUME NEW c \in Cycles, RecordOutcome(c)
      PROVE  CoreOK'
  <2>1. pc' \in [Cycles -> Places]
    BY <1>6, RecordEffect, GotoEffect, PlacesListed
  <2> QED
    BY <1>6, <2>1, RecordEffect
<1>7. ASSUME Tick PROVE CoreOK'
  <2>. DEFINE t == IF risk.cooldown > 0 THEN risk.cooldown - 1 ELSE 0
  <2>1. t \in 0 .. Cooldown
    BY <1>2, FieldTypes, CooldownAssumption
  <2>2. risk' = [risk EXCEPT !.cooldown = t]
    BY <1>7, <1>2 DEF Tick, RiskState
  <2>. HIDE DEF t
  <2>3. risk' \in RiskState /\ risk'.last <= risk'.peak
    BY <1>2, <2>1, <2>2 DEF RiskState
  <2>4. pc' = pc /\ quiet' \in 0 .. Cooldown
    BY <1>2, <1>7, CooldownAssumption DEF Tick
  <2> QED
    BY <1>2, <2>3, <2>4
<1>8. ASSUME NEW fate \in Fates, Reset(fate)
      PROVE  CoreOK'
  <2>1. pc' = pc
    BY <1>8 DEF Reset
  <2> QED
    BY <1>2, <1>8, <2>1, ResetEffect
<1>9. ASSUME Crash PROVE CoreOK'
  BY <1>2, <1>9, PlacesListed DEF Crash, AllCyclesLost
<1>10. ASSUME CrashWhileSaving PROVE CoreOK'
  <2>1. risk' \in RiskState /\ risk'.last <= risk'.peak
    BY <1>10, DefaultType DEF CrashWhileSaving
  <2>2. pc' \in [Cycles -> Places] /\ quiet' \in 0 .. Cooldown
    BY <1>10, PlacesListed, CooldownAssumption DEF CrashWhileSaving, AllCyclesLost
  <2> QED
    BY <2>1, <2>2
<1>11. CoreOK'
  BY <1>3, <1>4, <1>5, <1>6, <1>7, <1>8, <1>9, <1>10, Skeleton
<1> QED
  BY <1>1, <1>11 DEF TypeOK, SlotsOK, Outcomes, OnChain

-----------------------------------------------------------------------------
\* A cycle that passes the breaker joins the cycles in flight.
LEMMA FlightJoin ==
  ASSUME TypeOK, NEW c \in Cycles, CheckOk(c)
  PROVE  Cardinality(InFlight') = Cardinality(InFlight) + 1
         /\ Cardinality(InFlight') <= Cardinality(Cycles)
<1>1. /\ pc[c] = "idle" /\ pc'[c] = "analysing"
      /\ \A d \in Cycles \ {c} : pc'[d] = pc[d]
  BY GotoEffect, PlacesListed DEF CheckOk
<1>2. c \notin InFlight /\ InFlight' = InFlight \cup {c}
  BY <1>1 DEF InFlight, AtRisk
<1>3. InFlight' \in SUBSET Cycles
  BY DEF InFlight
<1>4. Cardinality(InFlight') <= Cardinality(Cycles)
  BY <1>3, FS_Subset, CyclesAssumption
<1> QED
  BY <1>2, <1>4, FS_AddElement, FlightIsFinite

\* A cycle that moves elsewhere adds nothing to the cycles in flight.
LEMMA FlightElsewhere ==
  ASSUME TypeOK, NEW c \in Cycles, NEW from \in Places, NEW to \in Places,
         Elsewhere(c, from, to)
  PROVE  Cardinality(InFlight') <= Cardinality(InFlight) /\ Cardinality(InFlight') \in Nat
<1>1. /\ pc[c] = from /\ pc'[c] = to
      /\ \A d \in Cycles \ {c} : pc'[d] = pc[d]
  BY GotoEffect DEF Elsewhere
<1>2. InFlight' \in SUBSET InFlight
  BY <1>1 DEF InFlight, Elsewhere
<1> QED
  BY <1>2, FS_Subset, FS_CardinalityType, FlightIsFinite

\* A cycle that reports leaves the cycles in flight.
LEMMA FlightLeave ==
  ASSUME TypeOK, NEW c \in Cycles, RecordOutcome(c)
  PROVE  Cardinality(InFlight') = Cardinality(InFlight) - 1
<1>1. /\ pc[c] = "recording" /\ pc'[c] = "logging"
      /\ \A d \in Cycles \ {c} : pc'[d] = pc[d]
  BY RecordEffect, GotoEffect, PlacesListed
<1>2. c \in InFlight /\ InFlight' = InFlight \ {c}
  BY <1>1 DEF InFlight, AtRisk
<1> QED
  BY <1>2, FS_RemoveElement, FlightIsFinite

\* When all cycles are lost none is in flight.
LEMMA FlightLost ==
  ASSUME AllCyclesLost
  PROVE  Cardinality(InFlight') = 0
<1>1. InFlight' = {}
  BY DEF AllCyclesLost, InFlight, AtRisk
<1> QED
  BY <1>1, FS_EmptySet

\* The streak and the cycles in flight never exceed the bound together.
LEMMA FlightStep ==
  ASSUME TypeOK, TypeOK', FlightBounded, [Next]_vars
  PROVE  FlightBounded'
<1>1. /\ risk.streak \in Nat /\ risk'.streak \in Nat
      /\ Cardinality(InFlight) \in Nat /\ Cardinality(Cycles) \in Nat
      /\ Cardinality(InFlight) <= Cardinality(Cycles) /\ MaxStreak \in Nat /\ MaxStreak >= 1
  BY FieldTypes, FlightIsFinite, StreakAssumption DEF TypeOK
<1>2. CASE UNCHANGED <<risk, quiet, pc>>
  BY <1>2 DEF FlightBounded, InFlight
<1>3. ASSUME NEW c \in Cycles, Inward(c)
      PROVE  FlightBounded'
  <2>1. risk.streak < MaxStreak
    BY <1>1, <1>3 DEF Inward, CheckOk, Tripped
  <2>2. Cardinality(InFlight') <= Cardinality(Cycles) /\ Cardinality(InFlight') \in Nat
    BY <1>1, <1>3, FlightJoin DEF Inward
  <2>3. risk' = risk
    BY <1>3 DEF Inward, CheckOk
  <2> QED
    BY <1>1, <2>1, <2>2, <2>3 DEF FlightBounded
<1>4. ASSUME NEW c \in Cycles, NEW from \in Places, NEW to \in Places, Elsewhere(c, from, to)
      PROVE  FlightBounded'
  <2>1. risk' = risk
    BY <1>4 DEF Elsewhere
  <2> QED
    BY <1>1, <1>4, <2>1, FlightElsewhere DEF FlightBounded
<1>5. ASSUME NEW c \in Cycles, RecordOutcome(c)
      PROVE  FlightBounded'
  <2>1. risk'.streak <= risk.streak + 1
    BY <1>5, RecordEffect
  <2>2. Cardinality(InFlight') = Cardinality(InFlight) - 1
    BY <1>5, FlightLeave
  <2> QED
    BY <1>1, <2>1, <2>2 DEF FlightBounded
<1>6. CASE Tick
  <2>1. risk'.streak = risk.streak
    BY <1>6 DEF Tick, TypeOK, RiskState
  <2>2. InFlight' = InFlight
    BY <1>6 DEF Tick, InFlight
  <2> QED
    BY <2>1, <2>2 DEF FlightBounded
<1>7. ASSUME NEW fate \in Fates, Reset(fate)
      PROVE  FlightBounded'
  <2>1. risk'.streak <= risk.streak
    BY <1>7, ResetEffect
  <2>2. InFlight' = InFlight
    BY <1>7 DEF Reset, InFlight
  <2> QED
    BY <1>1, <2>1, <2>2 DEF FlightBounded
<1>8. CASE Crash
  <2>1. Cardinality(InFlight') = 0 /\ risk' = risk
    BY <1>8, FlightLost DEF Crash
  <2> QED
    BY <1>1, <2>1 DEF FlightBounded
<1>9. CASE CrashWhileSaving
  <2>1. Cardinality(InFlight') = 0 /\ risk'.streak = 0
    BY <1>9, FlightLost, DefaultType DEF CrashWhileSaving
  <2> QED
    BY <1>1, <2>1 DEF FlightBounded
<1> QED
  BY <1>2, <1>3, <1>4, <1>5, <1>6, <1>7, <1>8, <1>9, Skeleton

\* The cooldown that is left is what is missing since the last trip.
LEMMA QuietStep ==
  ASSUME TypeOK, QuietAgrees, [Next]_vars
  PROVE  QuietAgrees'
<1>1. /\ risk \in RiskState /\ risk.cooldown \in 0 .. Cooldown /\ quiet \in 0 .. Cooldown
      /\ Cooldown \in Nat /\ risk.streak \in Nat
  BY FieldTypes, CooldownAssumption DEF TypeOK
<1>2. CASE UNCHANGED <<risk, quiet, pc>>
  BY <1>2 DEF QuietAgrees
<1>3. ASSUME NEW c \in Cycles, Inward(c)
      PROVE  QuietAgrees'
  BY <1>3 DEF Inward, CheckOk, QuietAgrees
<1>4. ASSUME NEW c \in Cycles, NEW from \in Places, NEW to \in Places, Elsewhere(c, from, to)
      PROVE  QuietAgrees'
  BY <1>4 DEF Elsewhere, QuietAgrees
<1>5. ASSUME NEW c \in Cycles, RecordOutcome(c)
      PROVE  QuietAgrees'
  BY <1>5, RecordEffect
<1>6. CASE Tick
  <2>1. risk'.cooldown = IF risk.cooldown > 0 THEN risk.cooldown - 1 ELSE 0
    BY <1>1, <1>6 DEF Tick, RiskState
  <2>2. quiet' = IF quiet < Cooldown THEN quiet + 1 ELSE quiet
    BY <1>6 DEF Tick
  <2> QED
    BY <1>1, <2>1, <2>2 DEF QuietAgrees
<1>7. ASSUME NEW fate \in Fates, Reset(fate)
      PROVE  QuietAgrees'
  BY <1>7, ResetEffect
<1>8. CASE Crash
  BY <1>8 DEF Crash, QuietAgrees
<1>9. CASE CrashWhileSaving
  BY <1>1, <1>9, DefaultType DEF CrashWhileSaving, QuietAgrees
<1> QED
  BY <1>2, <1>3, <1>4, <1>5, <1>6, <1>7, <1>8, <1>9, Skeleton

-----------------------------------------------------------------------------
LEMMA InitIInv == Init => IInv
<1>. SUFFICES ASSUME Init PROVE IInv
  OBVIOUS
<1>1. TypeOK
  BY DefaultType, CooldownAssumption DEF Init, TypeOK, Places
<1>2. InFlight = {}
  BY DEF Init, InFlight, AtRisk
<1>3. FlightBounded
  <2>1. Cardinality(InFlight) = 0
    BY <1>2, FS_EmptySet
  <2> QED
    BY <2>1, FlightIsFinite, StreakAssumption, DefaultType DEF Init, FlightBounded
<1>4. QuietAgrees
  BY DefaultType, CooldownAssumption DEF Init, QuietAgrees
<1> QED
  BY <1>1, <1>3, <1>4 DEF IInv

LEMMA StepIInv == IInv /\ [Next]_vars => IInv'
  BY TypeStep, FlightStep, QuietStep DEF IInv

LEMMA Inductive == Spec => []IInv
<1> QED
  BY InitIInv, StepIInv, PTL DEF Spec

\* No variable ever leaves its type and the last recorded value of the
\* portfolio never exceeds its recorded peak.
THEOREM TypeCorrect == Spec => []TypeOK
<1>1. IInv => TypeOK
  BY DEF IInv
<1> QED
  BY <1>1, Inductive, PTL

\* The failure streak overruns the limit of the breaker by less than the
\* number of cycles that run at once.
THEOREM OverrunIsBounded == Spec => []OverrunBounded
<1>1. IInv => OverrunBounded
  <2>. SUFFICES ASSUME IInv PROVE OverrunBounded
    OBVIOUS
  <2>1. risk.streak \in Nat
    BY FieldTypes DEF IInv, TypeOK
  <2> QED
    BY <2>1, FlightIsFinite, StreakAssumption DEF IInv, FlightBounded, OverrunBounded
<1> QED
  BY <1>1, Inductive, PTL

\* After a trip by the streak that the file took no cycle passes the breaker
\* before the cooldown is over, whatever the cycles in flight report meanwhile
\* and whichever of their saves are lost; a file that is cut short ends it.
THEOREM CooldownIsHeld == Spec => CooldownHeld
<1>1. ASSUME IInv, [Next]_vars
      PROVE  [\A c \in Cycles : pc[c] = "idle" /\ pc'[c] = "analysing" => quiet = Cooldown]_vars
  <2>. SUFFICES ASSUME NEW c \in Cycles, pc[c] = "idle", pc'[c] = "analysing"
                PROVE  quiet = Cooldown
    OBVIOUS
  <2>. USE <1>1 DEF IInv
  <2>1. CASE UNCHANGED <<risk, quiet, pc>>
    BY <2>1
  <2>2. ASSUME NEW d \in Cycles, Inward(d)
        PROVE  quiet = Cooldown
    <3>1. risk.cooldown \in 0 .. Cooldown
      BY FieldTypes DEF TypeOK
    <3>2. ~ (risk.cooldown > 0)
      BY <2>2 DEF Inward, CheckOk, Tripped
    <3> QED
      BY <3>1, <3>2, CooldownAssumption DEF QuietAgrees, TypeOK
  <2>3. ASSUME NEW d \in Cycles, NEW from \in Places, NEW to \in Places, Elsewhere(d, from, to)
        PROVE  quiet = Cooldown
    BY <2>3, GotoEffect DEF Elsewhere
  <2>4. ASSUME NEW d \in Cycles, RecordOutcome(d)
        PROVE  quiet = Cooldown
    BY <2>4, RecordEffect, GotoEffect, PlacesListed
  <2>5. CASE Tick \/ \E fate \in Fates : Reset(fate)
    BY <2>5 DEF Tick, Reset
  <2>6. CASE Crash \/ CrashWhileSaving
    BY <2>6 DEF Crash, CrashWhileSaving, AllCyclesLost
  <2> QED
    BY <2>1, <2>2, <2>3, <2>4, <2>5, <2>6, Skeleton
<1> QED
  BY <1>1, Inductive, PTL DEF Spec, CooldownHeld
=============================================================================
