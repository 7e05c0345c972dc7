------------------------------ MODULE Analyst ------------------------------
(***************************************************************************)
(* What runAnalyst (agent/src/analyst.ts) proposes, as a function of what  *)
(* it was asked and what it gathered: the quote of the DEX, the paid       *)
(* signal, the answer of the LLM (agent/src/agent/llmStrategy.ts) and the  *)
(* action a user forced; and what runCycle and runExecutor make of the     *)
(* proposal.  AgentCycle runs the proposals against the breaker, and       *)
(* AgentCycle_proofs says what can be said of them for all inputs.         *)
(*                                                                         *)
(* A price impact is only whether it is under 1 %, a forecast whether it   *)
(* reads as bullish.  The pair that was selected comes as the token of its *)
(* other side; PairSelector selects it.  The rationale and the proof of    *)
(* payment do not decide what is sent and are left out, and so are         *)
(* numerals that do not parse.                                             *)
(***************************************************************************)
EXTENDS Integers

CONSTANTS
  Tokens,       \* what CSPR is traded for, "sCSPR" among them
  Amounts,      \* the amounts of revenue events, in motes
  Quotes,       \* the amounts out that the DEX quotes
  Confidences,  \* what the signal and the LLM claim, in percent
  MinStake      \* MIN_STAKE_MOTES

ASSUME TokensAssumption == "sCSPR" \in Tokens /\ "CSPR" \notin Tokens
ASSUME NumbersAssumption ==
  /\ Amounts \subseteq Nat /\ Quotes \subseteq Nat
  /\ Confidences \subseteq Int /\ MinStake \in Nat

Forceable == {"swap", "add_liquidity", "remove_liquidity", "compound", "hold", "stake"}

\* A confidence may be missing from the JSON it should be in.
Claims == [given : BOOLEAN, percent : Confidences]

OrElse(claim, default) == IF claim.given THEN claim.percent ELSE default

AtLeast(n, m) == IF n < m THEN m ELSE n

Clamped(n) == IF n > 100 THEN 100 ELSE AtLeast(n, 0)

\* applySlippage(amount, 0.5)
Slipped(amount) == (amount * 9950) \div 10000

\* getQuote answers, or the tool answers with an error, or the call throws.
DexAnswers == [kind : {"quote", "error", "thrown"}, out : Quotes, lowImpact : BOOLEAN]

\* The LLM is not configured, fails, or answers with any of its actions; its
\* answer is not validated, so that a stake can be among them.
LLMAnswers ==
  [kind : {"unused", "failed", "answered"}, action : Forceable, token : Tokens,
   minOut : {0} \cup {Slipped(q) : q \in Quotes}, claim : Claims]

Inputs ==
  [forced : Forceable \cup {"none"}, amount : Amounts, selected : Tokens, dex : DexAnswers,
   bullish : BOOLEAN, claim : Claims, llm : LLMAnswers]

-----------------------------------------------------------------------------
\* The quote that is reasoned about: an error reads as nothing for nothing, a
\* call that throws as a trade at par.
AmountOut(i) ==
  CASE i.dex.kind = "quote"  -> i.dex.out
    [] i.dex.kind = "error"  -> 0
    [] i.dex.kind = "thrown" -> i.amount

LowImpact(i) == i.dex.kind # "quote" \/ i.dex.lowImpact

Decision(action, token, minOut, confidence) ==
  [action |-> action, token |-> token, minOut |-> minOut, confidence |-> confidence]

Sure(percent) == [given |-> TRUE, percent |-> percent]

\* decideHeuristic, for an agent without an LLM.
Heuristic(i) ==
  LET confidence == Sure(Clamped(OrElse(i.claim, 0))) IN
  IF LowImpact(i) /\ i.bullish
  THEN Decision("add_liquidity", i.selected, 0, confidence)
  ELSE Decision("swap", i.selected, Slipped(AmountOut(i)), confidence)

\* heuristicDecision, for an LLM that failed: it names sCSPR, whatever was
\* selected and quoted.
Fallback(i) ==
  IF LowImpact(i) /\ i.bullish
  THEN Decision("add_liquidity", "sCSPR", 0, Sure(AtLeast(OrElse(i.claim, 70), 60)))
  ELSE Decision("swap", "sCSPR", Slipped(AmountOut(i)),
                Sure(AtLeast(OrElse(i.claim, 60) - 10, 50)))

\* decideStrategyWithLLM takes a hold for a swap.
LLMDecision(i) ==
  Decision(IF i.llm.action = "hold" THEN "swap" ELSE i.llm.action,
           i.llm.token, i.llm.minOut, i.llm.claim)

Reasoned(i) ==
  CASE i.llm.kind = "unused"   -> Heuristic(i)
    [] i.llm.kind = "failed"   -> Fallback(i)
    [] i.llm.kind = "answered" -> LLMDecision(i)

\* A forced hold is a swap of nothing, a stake below the minimum a swap.
ForcedAction(i) ==
  CASE i.forced = "hold"                          -> "swap"
    [] i.forced = "stake" /\ i.amount < MinStake  -> "swap"
    [] i.forced = "compound"                      -> "add_liquidity"
    [] OTHER                                      -> i.forced

\* A forced stake stays CSPR, and every other forced trade is for the token
\* selected, the swap from a small stake too.
ForcedToken(i) ==
  CASE i.forced = "hold"          -> Reasoned(i).token
    [] ForcedAction(i) = "stake"  -> "CSPR"
    [] OTHER                      -> i.selected

\* The decision that leaves runAnalyst: the reasoned one, or the forced one
\* with a confidence that lets the executor run.
Final(i) ==
  LET d == Reasoned(i) IN
  IF i.forced = "none" THEN d
  ELSE Decision(ForcedAction(i),
                ForcedToken(i),
                IF i.forced = "hold" \/ ForcedAction(i) = "stake" THEN 0
                                                                  ELSE Slipped(AmountOut(i)),
                Sure(AtLeast(OrElse(d.confidence, 60), 60)))

AmountIn(i) == IF i.forced = "hold" THEN 0 ELSE i.amount

\* runCycle skips the executor below 50; a missing confidence is not below it.
Confident(i) ==
  LET claim == Final(i).confidence IN claim.given => claim.percent >= 50

\* The path runExecutor takes.
Kind(i) ==
  IF AmountIn(i) = 0 THEN "hold"
  ELSE IF Final(i).action # "stake" THEN "dex"
  ELSE IF AmountIn(i) < MinStake THEN "small_stake" ELSE "stake"

\* The minAmountOut matters of what is sent only: a success records it.
Work(i) ==
  [kind |-> Kind(i), value |-> IF Kind(i) \in {"stake", "dex"} THEN Final(i).minOut ELSE 0]

\* On whose word the DEX is asked to build a trade, and for what.
Author(i) ==
  IF i.forced # "none" THEN "user"
  ELSE CASE i.llm.kind = "unused"   -> "heuristic"
         [] i.llm.kind = "failed"   -> "fallback"
         [] i.llm.kind = "answered" -> "llm"

Trade(i) == [by |-> Author(i), token |-> Final(i).token]
=============================================================================
