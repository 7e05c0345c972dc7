----------------------------- MODULE AgentCycle -----------------------------
(***************************************************************************)
(* The decision cycles of the agent: runCycle (agent/src/index.ts) with    *)
(* runAnalyst (analyst.ts), runExecutor (executor.ts) and the submission   *)
(* of its transaction (casper/signer.ts, casper/staking.ts), with the      *)
(* proposals of Analyst, against the circuit breaker of RiskGuard and a    *)
(* chain that executes what it is sent in its own time.                    *)
(*                                                                         *)
(* The server starts a cycle for every POST /api/cycle, so several are in  *)
(* flight and take turns at their awaits.  One step is the code between    *)
(* two awaits that matter to the breaker.  An await that changes nothing   *)
(* and whose failure is swallowed (balance, quote, portfolio, ...) is left *)
(* out.                                                                    *)
(***************************************************************************)
EXTENDS RiskGuard, Analyst, FiniteSets

CONSTANT Cycles   \* the slots in which cycles run: how many run at once

ASSUME CyclesAssumption == IsFiniteSet(Cycles) /\ Cycles # {}

VARIABLES
  risk,       \* the content of .arwa-risk.json
  pc,         \* pc[c]: where cycle c is, see Places
  proposal,   \* proposal[c]: what runAnalyst proposed
  outcome,    \* outcome[c]: what runExecutor made of it
  chain,      \* chain[c]: what the chain made of the last transaction sent by c
  quiet       \* history: ticks since the file last took a trip by the streak

vars == <<risk, pc, proposal, outcome, chain, quiet>>

Places == {"idle",       \* no cycle, or before the breaker is looked at
           "analysing",  \* past the breaker, before the proposal
           "holding",    \* a proposal of confidence below 50
           "executing",  \* in runExecutor, before anything was submitted
           "waiting",    \* a DEX transaction was accepted and is waited for
           "booking",    \* the position is being recorded in the vault
           "recording",  \* the outcome is known and not recorded yet
           "logging"}    \* the audit entry is being submitted

\* The places between the look at the breaker and the record of the outcome.
AtRisk == {"analysing", "executing", "waiting", "booking", "recording"}

\* What a proposal that runCycle hands on makes the executor do; value is its
\* minAmountOut.
Proposals == {Work(i) : i \in {j \in Inputs : Confident(j)}}

\* The analyst can come out below the 50 % that runCycle asks for.
Unconvinced == \E i \in Inputs : ~Confident(i)

NoProposal == [kind |-> "none", value |-> 0]

-----------------------------------------------------------------------------
Init ==
  /\ risk = DefaultState
  /\ pc = [c \in Cycles |-> "idle"]
  /\ proposal = [c \in Cycles |-> NoProposal]
  /\ outcome = [c \in Cycles |-> "none"]
  /\ chain = [c \in Cycles |-> "none"]
  /\ quiet = Cooldown

Goto(c, from, to) == pc[c] = from /\ pc' = [pc EXCEPT ![c] = to]

\* The cycle proposed nothing to execute, or is over.
Forget(c) ==
  /\ proposal' = [proposal EXCEPT ![c] = NoProposal]
  /\ outcome' = [outcome EXCEPT ![c] = "none"]

\* runAnalyst looks at the breaker once, before it pays for the signal.
CheckTripped(c) ==
  /\ Tripped(risk)
  /\ Goto(c, "idle", "holding")
  /\ UNCHANGED <<risk, proposal, outcome, chain, quiet>>

CheckOk(c) ==
  /\ ~Tripped(risk)
  /\ Goto(c, "idle", "analysing")
  /\ UNCHANGED <<risk, proposal, outcome, chain, quiet>>

\* The x402 payment throws and the cycle ends with an error.
AnalystFails(c) ==
  /\ Goto(c, "analysing", "idle")
  /\ UNCHANGED <<risk, proposal, outcome, chain, quiet>>

Propose(c, p) ==
  /\ Goto(c, "analysing", "executing")
  /\ proposal' = [proposal EXCEPT ![c] = p]
  /\ UNCHANGED <<risk, outcome, chain, quiet>>

ProposeUnconfident(c) ==
  /\ Unconvinced
  /\ Goto(c, "analysing", "holding")
  /\ UNCHANGED <<risk, proposal, outcome, chain, quiet>>

\* runCycle skips the executor below a confidence of 50.
SkipExecution(c) ==
  /\ Goto(c, "holding", "idle")
  /\ UNCHANGED <<risk, proposal, outcome, chain, quiet>>

\* A forced hold, or a stake below the minimum: nothing is submitted.
Refuse(c) ==
  /\ proposal[c].kind \in {"hold", "small_stake"}
  /\ Goto(c, "executing", "recording")
  /\ outcome' = [outcome EXCEPT ![c] = IF proposal[c].kind = "hold" THEN "skipped" ELSE "failed"]
  /\ UNCHANGED <<risk, proposal, chain, quiet>>

\* The deploy cannot be built or the node does not accept it.
SubmitFails(c) ==
  /\ proposal[c].kind \in {"stake", "dex"}
  /\ Goto(c, "executing", "recording")
  /\ outcome' = [outcome EXCEPT ![c] = "failed"]
  /\ UNCHANGED <<risk, proposal, chain, quiet>>

\* delegateToValidator reports success as soon as the node accepts.
SubmitStake(c) ==
  /\ proposal[c].kind = "stake"
  /\ Goto(c, "executing", "booking")
  /\ outcome' = [outcome EXCEPT ![c] = "success"]
  /\ chain' = [chain EXCEPT ![c] = "pending"]
  /\ UNCHANGED <<risk, proposal, quiet>>

SubmitSwap(c) ==
  /\ proposal[c].kind = "dex"
  /\ Goto(c, "executing", "waiting")
  /\ chain' = [chain EXCEPT ![c] = "pending"]
  /\ UNCHANGED <<risk, proposal, outcome, quiet>>

\* waitForTransaction answers; an answer of another shape than the code looks
\* for reads as a revert.
SwapAnswered(c) ==
  /\ chain[c] \in {"ok", "reverted"}
  /\ \/ /\ chain[c] = "ok"
        /\ Goto(c, "waiting", "booking")
        /\ outcome' = [outcome EXCEPT ![c] = "success"]
     \/ /\ Goto(c, "waiting", "recording")
        /\ outcome' = [outcome EXCEPT ![c] = "reverted"]
  /\ UNCHANGED <<risk, proposal, chain, quiet>>

\* Mutant: the wait has no limit.
SwapWaitsForEver(c) == FALSE /\ UNCHANGED vars

\* The wait throws, after 60 s or on an error: execution is unknown and the
\* swap is reported as a success.
SwapUnanswered(c) ==
  /\ Goto(c, "waiting", "booking")
  /\ outcome' = [outcome EXCEPT ![c] = "success"]
  /\ UNCHANGED <<risk, proposal, chain, quiet>>

\* recordStrategyExecution was accepted or failed; neither concerns the breaker.
Booked(c) ==
  /\ Goto(c, "booking", "recording")
  /\ UNCHANGED <<risk, proposal, outcome, chain, quiet>>

\* recordStrategyOutcome, of which the file takes what the save leaves.
RecordFailure(c, fate) ==
  /\ outcome[c] # "success"
  /\ Goto(c, "recording", "logging")
  /\ risk' = Saved(risk, AfterOutcome(risk, outcome[c]), fate)
  /\ quiet' = CASE fate = "torn" -> Cooldown
                [] fate = "kept" /\ risk.streak + 1 >= MaxStreak -> 0
                [] OTHER -> quiet
  /\ UNCHANGED <<proposal, outcome, chain>>

\* A success goes on to updatePortfolioSnapshot without an await, which reads
\* the file again and has a save of its own.  The string '0' is truthy, so
\* minAmountOut || amountIn is minAmountOut.
RecordSuccess(c, first, second) ==
  LET s == Saved(risk, AfterOutcome(risk, "success"), first) IN
  /\ outcome[c] = "success"
  /\ Goto(c, "recording", "logging")
  /\ risk' = Saved(s, AfterSnapshot(s, proposal[c].value), second)
  /\ quiet' = IF "torn" \in {first, second} THEN Cooldown ELSE quiet
  /\ UNCHANGED <<proposal, outcome, chain>>

RecordOutcome(c) ==
  \/ \E fate \in Fates : RecordFailure(c, fate)
  \/ \E first, second \in Fates : RecordSuccess(c, first, second)

\* logStrategyToVault is submitted or fails; the cycle returns either way.
Logged(c) ==
  /\ Goto(c, "logging", "idle")
  /\ Forget(c)
  /\ UNCHANGED <<risk, chain, quiet>>

\* The environment: the chain executes a transaction, time passes, an
\* operator resets the breaker, the process dies and is started again.
Execute(c, result) ==
  /\ chain[c] = "pending"
  /\ chain' = [chain EXCEPT ![c] = result]
  /\ UNCHANGED <<risk, pc, proposal, outcome, quiet>>

Tick ==
  /\ risk.cooldown > 0 \/ quiet < Cooldown
  /\ risk' = [risk EXCEPT !.cooldown = IF @ > 0 THEN @ - 1 ELSE 0]
  /\ quiet' = IF quiet < Cooldown THEN quiet + 1 ELSE quiet
  /\ UNCHANGED <<pc, proposal, outcome, chain>>

Reset(fate) ==
  /\ risk' = Saved(risk, AfterReset(risk), fate)
  /\ quiet' = IF fate = "lost" THEN quiet ELSE Cooldown
  /\ UNCHANGED <<pc, proposal, outcome, chain>>

AllCyclesLost ==
  /\ pc' = [c \in Cycles |-> "idle"]
  /\ proposal' = [c \in Cycles |-> NoProposal]
  /\ outcome' = [c \in Cycles |-> "none"]
  /\ UNCHANGED chain

Crash == AllCyclesLost /\ UNCHANGED <<risk, quiet>>

\* writeFileSync truncates the file first: dying in it leaves a file that does
\* not parse, which loadState reads as the default state.
CrashWhileSaving ==
  /\ \E c \in Cycles : pc[c] = "recording"
  /\ AllCyclesLost
  /\ risk' = DefaultState
  /\ quiet' = Cooldown

-----------------------------------------------------------------------------
\* What the cycle does by itself once it was started.
Proceed(c) ==
  \/ AnalystFails(c)
  \/ \E p \in Proposals : Propose(c, p)
  \/ ProposeUnconfident(c)
  \/ SkipExecution(c)
  \/ Refuse(c)
  \/ SubmitFails(c)
  \/ SubmitStake(c)
  \/ SubmitSwap(c)
  \/ SwapAnswered(c)
  \/ SwapUnanswered(c)
  \/ Booked(c)
  \/ RecordOutcome(c)
  \/ Logged(c)

Next ==
  \/ \E c \in Cycles : CheckTripped(c) \/ CheckOk(c) \/ Proceed(c)
  \/ \E c \in Cycles, result \in {"ok", "reverted"} : Execute(c, result)
  \/ Tick
  \/ \E fate \in Fates : Reset(fate)
  \/ Crash
  \/ CrashWhileSaving

Spec == Init /\ [][Next]_vars

\* Every await resolves or rejects in the end (60 s limits on submission and
\* wait, 15 s and 10 s on x402), and time passes.  Nobody has to start a
\* cycle, execute a transaction or reset the breaker.
Fairness == WF_vars(Tick) /\ \A c \in Cycles : WF_vars(Proceed(c))

FairSpec == Spec /\ Fairness

-----------------------------------------------------------------------------
\* Every variable has its type, and the last value never exceeds the peak.
TypeOK ==
  /\ risk \in RiskState /\ risk.last <= risk.peak
  /\ pc \in [Cycles -> Places]
  /\ proposal \in [Cycles -> Proposals \cup {NoProposal}]
  /\ outcome \in [Cycles -> {"none", "skipped", "failed", "reverted", "success"}]
  /\ chain \in [Cycles -> {"none", "pending", "ok", "reverted"}]
  /\ quiet \in 0 .. Cooldown

\* The breaker is looked at long before the outcome is recorded, so cycles in
\* flight overrun it; but never by more than the cycles that run at once.
OverrunBounded == risk.streak <= MaxStreak - 1 + Cardinality(Cycles)

\* Once the file has taken a trip by the streak, no cycle passes the breaker
\* before the cooldown is over, also when a late success ends the streak
\* meanwhile or a later save is lost.  Only a file that is cut short, by a crash
\* or a failing save, and the operator end it earlier.
CooldownHeld ==
  [][\A c \in Cycles : pc[c] = "idle" /\ pc'[c] = "analysing" => quiet = Cooldown]_vars

\* What gives the failures another run: a success, the operator, a crash that
\* tears the file, and a failure that the file does not take.
Relieved ==
  \/ \E c \in Cycles :
       \/ \E first, second \in Fates : RecordSuccess(c, first, second)
       \/ RecordFailure(c, "lost")
       \/ RecordFailure(c, "torn")
  \/ \E fate \in Fates : Reset(fate)
  \/ CrashWhileSaving

\* Strategies cannot go on failing for ever, by whatever cause and across
\* restarts, as long as the file takes what is recorded and nothing relieves
\* the streak.  (With a file that takes nothing they do go on for ever.)
FailuresStop ==
  <>[][~Relieved]_vars => <>[][\A c \in Cycles : ~RecordFailure(c, "kept")]_vars

\* The claim of demo/DORAHACKS.md:52 (a tripped breaker "holds the agent open for
\* 10 minutes") and of the comment at riskGuard.ts:84-87: a trip is for the
\* cooldown, and after it only a drawdown keeps the agent from working.  It does
\* not hold: the streak that tripped it stays, a held cycle records no outcome,
\* and only the operator's reset makes the streak fall again.
ReopensAfterCooldown == risk.cooldown = 0 /\ ~DrawdownExceeded(risk) => ~Tripped(risk)

\* Every cycle comes to its end, whatever the chain and the services do.
CyclesEnd == \A c \in Cycles : pc[c] # "idle" ~> pc[c] = "idle"
=============================================================================
