---------------------------- MODULE PairSelector ----------------------------
(***************************************************************************)
(* Which pair the analyst trades: selectBestPair of                        *)
(* agent/src/agent/pairSelector.ts, which asks the DEX about every pair    *)
(* with CSPR in it, one after the other, and what runAnalyst makes of the  *)
(* selection, as Analyst has it: the trade the executor asks the DEX for.  *)
(*                                                                         *)
(* A pair stands for the token on its other side.  Every question goes to  *)
(* the MCP server and may fail on its own; the three questions about a     *)
(* pair depend on nothing that changes meanwhile and are one step.  A      *)
(* price impact is in tenths of a percent.                                 *)
(***************************************************************************)
EXTENDS Analyst, Sequences, SequencesExt

CONSTANTS
  Impacts,    \* the price impacts quoted
  Pools,      \* what get_pair_details answers: [reserve, feeBps]
  MaxPairs    \* bound: how many pairs get_pairs lists

\* What is listed or selected besides a token is not the name of one.
ASSUME NamesAssumption ==
  Tokens \cap {"running", "failed", "none", "no CSPR", "unreachable"} = {}
ASSUME PoolsAssumption ==
  /\ MaxPairs \in Nat /\ Impacts \subseteq Nat
  /\ \A p \in Pools : p.reserve \in Nat /\ p.feeBps \in Nat

VARIABLES
  listed,      \* the pairs of get_pairs that are still to be looked at
  candidates,  \* what was found out about the others
  selection,   \* "running", "failed", "none" or the token selected
  trade        \* what the DEX is asked for and on whose word, see Analyst!Trade

pairVars == <<listed, candidates, selection, trade>>

\* "proceed", "caution" and "unknown" are all the same to the selection.
Recommendations == {"high_risk", "other"}

maxImpact == 10

\* A pair without CSPR, and get_pairs itself without an answer.
Foreign     == "no CSPR"
Unreachable == <<"unreachable">>

\* The proposal is not made yet, and asks nothing of the DEX.
Undecided == [by |-> "nobody yet"]
Nothing   == [by |-> "nobody"]

PairInit ==
  /\ listed \in {s \in BoundedSeq(Tokens \cup {Foreign}, MaxPairs) : IsInjective(s)} \cup {Unreachable}
  /\ candidates = <<>>
  /\ selection = "running"
  /\ trade = Undecided

-----------------------------------------------------------------------------
\* All divisions are of bigints: a pool too small earns nothing.  In percent
\* times 100.
estimateFeeApy(reserve, feeBps) ==
  IF reserve = 0 THEN 0
  ELSE LET dailyFees == (reserve * feeBps) \div 10000
       IN (dailyFees * 365 * 10000) \div reserve

\* parseFloat(...) || 999: no quote and no impact at all are both the worst.
Impact(quoted) == IF quoted = 0 THEN 9990 ELSE quoted

\* Mutant: whatever the DEX advises.
SafeByImpact(c) == c.impact <= maxImpact

Safe(c) == c.impact <= maxImpact /\ c.recommendation # "high_risk"

NoDetails == [reserve |-> 0, feeBps |-> 30]

NoPairs ==
  /\ selection = "running" /\ listed = Unreachable
  /\ selection' = "none"
  /\ UNCHANGED <<listed, candidates, trade>>

Skip ==
  /\ selection = "running" /\ listed # <<>> /\ Head(listed) = Foreign
  /\ listed' = Tail(listed)
  /\ UNCHANGED <<candidates, selection, trade>>

\* callToolSafe makes no answer of a call that throws: an unknown impact, an
\* unknown recommendation, an empty pool.
Evaluate ==
  /\ selection = "running" /\ listed # <<>> /\ Head(listed) \in Tokens
  /\ \E quoted \in Impacts \cup {0}, recommendation \in Recommendations,
        pool \in Pools \cup {NoDetails} :
       candidates' = Append(candidates,
         [token |-> Head(listed), impact |-> Impact(quoted),
          recommendation |-> recommendation,
          yieldApy |-> estimateFeeApy(pool.reserve, pool.feeBps)])
  /\ listed' = Tail(listed)
  /\ UNCHANGED <<selection, trade>>

\* Reserves or a fee that are no integers: BigInt throws out of the selection.
Malformed ==
  /\ selection = "running" /\ listed # <<>> /\ Head(listed) \in Tokens
  /\ selection' = "failed"
  /\ UNCHANGED <<listed, candidates, trade>>

-----------------------------------------------------------------------------
\* Mutant: the highest yield first, liquid staking or not.
BeforeByYield(a, b) == a.yieldApy > b.yieldApy

\* The comparison of the sort, which is stable.
Before(a, b) ==
  \/ a.token = "sCSPR" /\ b.token # "sCSPR"
  \/ (a.token = "sCSPR" <=> b.token = "sCSPR") /\ a.yieldApy > b.yieldApy

\* The filter and the first of the sort: a safe pair replaces those it comes before.
NoPair  == [token |-> "none"]
Better(best, c) == IF Safe(c) /\ (best = NoPair \/ Before(c, best)) THEN c ELSE best
Best(found)     == FoldLeft(Better, NoPair, found)

Select ==
  /\ selection = "running" /\ listed = <<>>
  /\ selection' = Best(candidates).token
  /\ UNCHANGED <<listed, candidates, trade>>

\* runAnalyst asks for a quote again, for CSPR/sCSPR without a selection; nobody
\* compares the impact of that one with the maximum.
Quoted == IF selection \in Tokens THEN selection ELSE "sCSPR"

\* What may come of the token quoted: a trade, or nothing because the payment for
\* the signal fails, the confidence is too low, or it is a hold or a stake.
Proposable ==
  [t \in Tokens |->
     {Trade(i) : i \in {j \in Inputs : j.selected = t /\ Confident(j) /\ Kind(j) = "dex"}}
       \cup {Nothing}]

Propose ==
  /\ trade = Undecided /\ selection # "running"
  /\ trade' \in Proposable[Quoted]
  /\ UNCHANGED <<listed, candidates, selection>>

PairNext == NoPairs \/ Skip \/ Evaluate \/ Malformed \/ Select \/ Propose

PairSpec == PairInit /\ [][PairNext]_pairVars

-----------------------------------------------------------------------------
PairTypeOK ==
  /\ listed = Unreachable \/ listed \in Seq(Tokens \cup {Foreign})
  /\ candidates \in Seq([token : Tokens, impact : Nat,
                         recommendation : Recommendations, yieldApy : Nat])
  /\ selection \in {"running", "failed", "none"} \cup Tokens
  /\ trade \in {Undecided, Nothing}
               \cup [by : {"user", "heuristic", "fallback", "llm"}, token : Tokens]

Asked == trade \notin {Undecided, Nothing}

Rejected(token) ==
  \E i \in DOMAIN candidates :
    /\ candidates[i].token = token
    /\ candidates[i].impact > maxImpact \/ candidates[i].recommendation = "high_risk"

Acceptable(i) == candidates[i].impact \in 1..maxImpact /\ candidates[i].recommendation # "high_risk"

\* The pair selected was found acceptable, and of the acceptable ones it is the
\* one with sCSPR or the one that earns most; without one nothing is selected.
\* (With the types.)
ChoiceIsBest ==
  /\ PairTypeOK
  /\ selection \in Tokens =>
       \E i \in DOMAIN candidates :
         /\ candidates[i].token = selection /\ Acceptable(i)
         /\ selection # "sCSPR" =>
              \A j \in DOMAIN candidates : Acceptable(j) =>
                candidates[j].token # "sCSPR" /\ candidates[j].yieldApy <= candidates[i].yieldApy
  /\ selection = "none" => \A i \in DOMAIN candidates : ~Acceptable(i)

\* A pair that was just rejected for its impact or by the DEX's own analysis is
\* not traded because of the selection: only if the LLM names its token by itself,
\* or it is sCSPR, as the default without a selection or as what the fallback for
\* a failing LLM names.
RejectedNotChosen ==
  Asked /\ Rejected(trade.token) =>
    \/ trade.by = "llm"
    \/ trade.token = "sCSPR" /\ (selection \notin Tokens \/ trade.by = "fallback")
=============================================================================
