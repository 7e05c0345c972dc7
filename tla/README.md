# ARWA — formal model

TLA+ modules, TLC runs and TLAPS proofs for ARWA: an agent that takes deposits
of RWA stakeholders on Casper, decides on a yield strategy, executes it, and
keeps three contracts that say what was deposited, what was earned and what was
decided. Paths below are relative to the repository's root.

1. [The system](#1-the-system) · 2. [Modules](#2-modules-and-the-code-they-model) ·
3. [Runs](#3-what-tlc-checks) · 4. [Fairness](#4-fairness) ·
5. [Proofs](#5-what-is-proved) · 6. [Findings](#6-where-the-code-and-its-documents-disagree) ·
7. [Limits](#7-what-is-not-modelled) · 8. [Plan](#8-plan)

To repeat a check: `tlc -config SD_ring.cfg MCStakeholderDeposit`; to repeat a
proof: `tlapm StakeholderDeposit_proofs.tla`.

## 1. The system

| Component | State it keeps | Operations | Talks to | What is hard | What makes it correct |
|---|---|---|---|---|---|
| StakeholderDeposit (`contracts/odra/stakeholder_deposit`) | owner, pause flag, per-stakeholder active balance, ring of deposit records, counters (u64) | `deposit`, `withdraw`, `set_paused`, `transfer_ownership`, views | host purse; read by the deposit consumer | ring overwrites, saturating and wrapping arithmetic, one purse for everybody | each principal is accounted once, paid once, and stays withdrawable |
| RevenueEmitter (`contracts/odra/revenue_emitter`) | owner, pending owner, emitter, pause flag, ring of events, per-asset totals | `emit_revenue`, two-step ownership, `set_emitter`, `set_paused`, `get_recent_events` | called by `vaultClient.ts` (the audit log) | the wrap-around of a window read backwards; an offer of ownership that is replaced, never revoked | the window is the last *l* events in order; ownership only moves to who accepted |
| AgentVault (`contracts/odra/agent_vault`) | agents, decision ring, reputation, custodied and total CSPR, positions, yield | `register_agent`, `unregister_agent`, `execute_strategy`, `deposit_for_strategy`, `record_strategy_execution`, `record_yield_realised`, `withdraw_for_strategy`, views | called by `vaultCustodian.ts` | several aggregates kept by hand next to the records they sum up | aggregates equal the sums of their records; custody never overdrawn |
| Risk guard (`agent/src/agent/riskGuard.ts`) | `.arwa-risk.json`: value, peak, failure streak, trip time, counters | `checkCircuitBreaker`, `recordStrategyOutcome`, `updatePortfolioSnapshot`, `resetCircuitBreaker` | read by the analyst, written by the executor | a check many awaits before the act; several cycles at once; a clock; saves that fail and are swallowed, or are cut short | a tripped breaker stops execution for its cooldown at least; failures that the file takes do not go on for ever |
| Analyst (`agent/src/analyst.ts`, `agent/llmStrategy.ts`, `agent/slippage.ts`) | none (a proposal) | `runAnalyst` | MCP servers, x402 signal, risk guard, LLM | override, fallback and forced-action paths, two copies of one heuristic | a forced action is what is executed; stakes and slippage stay within limits |
| Cycle and executor (`agent/src/index.ts`, `executor.ts`) | none of their own; they write risk state, fund state and the audit log | `runCycle`, `runExecutor` | signer, staking, vault clients, risk guard, fund state | an outcome is reported before it is known; each late step may fail alone | the recorded outcomes stop a failing agent; every cycle ends |
| Signer and staking (`agent/src/casper/signer.ts`, `staking.ts`) | none | build, sign, submit, wait | node RPC, sidecar | time limit of the wait; a submission over three RPC methods | what a call reports agrees with the chain, up to what it was cut off from |
| Vault clients (`agent/src/casper/vaultCustodian.ts`, `vaultClient.ts`) | none | vault entry points, audit log | AgentVault, RevenueEmitter | submission without waiting for execution | what was reported is on chain |
| Fund state (`agent/src/agent/fundState.ts`) | a cache per process and one state file | `getFundState`, `record*`, `reset` | executor, simulator, server, bootstrap script | two processes over one file, stale caches, a fixed temporary file, crashes in a save | counters lose nothing that was recorded and invent nothing |
| Deposit consumer (`agent/src/csprCloud/stakeholderEventConsumer.ts`) | last seen id, stop flag, one timer | `start`, poll, `stop` | StakeholderDeposit, the cycle | several deposits between polls; a poll in flight at `stop` | deliveries come in order and once (not each deposit is delivered: section 6) |
| x402 client (`agent/src/x402/client.ts`), signal server (`agent/scripts/x402Server.ts`) | the server's used nonces | pay-and-fetch; verify, settle, answer | each other, the facilitator | the client gives up before the server; copied requests, and an await between the look at a nonce and its entry; restarts | once a settlement was asked for, a later copy adds none; a hash is the facilitator's answer for that authorization; an accepted payment is served |
| Streams (`agent/src/csprCloud/streaming.ts`, `cesEvents.ts`) | socket, stop flag, backoff timer | subscribe, reconnect, close | CSPR.cloud, the HTTP server | a reconnect racing `close`; a socket that lives on after it | each event once, in order; nothing left after `close` |
| MCP clients (`agent/src/mcp/*.ts`) | one connection promise per server | one call per tool | MCP servers | callers while the promise is pending; a rejected promise is kept | one connection per process |
| Pair selector (`agent/src/agent/pairSelector.ts`) | none (a selection) | `selectBestPair` | the DEX's MCP server, the analyst | three questions per pair, each of which may fail; one kind of bad answer throws | the best acceptable pair; no rejected one is traded on the word of the selection |
| HTTP server (`agent/src/server.ts`) | last cycles, live events | `/api/cycle`, `/api/fund`, `/api/events`, ... | everything | cycles overlap | bounded histories |
| Deposit simulator (`agent/src/simulator/depositSimulator.ts`) | round-robin index | `triggerDeposit` | StakeholderDeposit, fund state | recorded before it is executed | recorded deposits exist |
| Reads and caches (`balanceCheck.ts`, `directContractRead.ts`, `rest.ts`) | short-lived caches | reads | REST, RPC | staleness | age bounded |
| Setup, deployment and check scripts (`agent/scripts/deploy.ts`, `setup.ts`, `deploy-cep18.ts`, `record-deployment.ts`, `verify-setup.ts`) | artifacts, key files, three environment files | build, deploy, wait, recover, record, verify | the chain, each other through the files | stops between two deploys and in the middle of a write; fallbacks that record another kind of hash; several scripts with ideas of their own about one file | a recorded hash is of a real deploy; what setup wrote is not undone by an older one |
| Demo scripts (`demo-bootstrap-vault.ts`, `demo-cycle.ts`, `simulate-parking-revenue.ts`) | `events.json`, fund state | submit, wait, book | signer, vault clients, fund state | booked before or without a look at the outcome | nothing booked that the node never took |
| Frontend, `quickstart.ts`, probe scripts, transaction layout | — | — | — | — | presentation, encoding |

How they interact. `POST /api/cycle` (or the command line) starts `runCycle`:
the analyst looks at the breaker once, pays for the signal over x402, asks the
DEX and perhaps an LLM, and returns a proposal; the executor submits at most one
transaction, waits up to 60 s for it (a stake is not waited for), books the
position in AgentVault, updates the fund state, records the outcome with the
breaker, and logs to the audit log. Nothing serialises cycles. The deposit
consumer reads StakeholderDeposit's counter and calls back; the server and the
bootstrap script share the fund-state file and nothing else. Before all that, an
operator runs the deployment scripts, which hand the contracts' hashes to the
agent through environment files. A dashboard client holds a request open, over
which the server passes on the contracts' events.

The hard parts are therefore: the long time between the look at the breaker and
the record of the outcome; state read before an await and used after it; two
processes over one file; calls whose answer comes too late; and, in the
contracts, hand-kept aggregates next to histories that forget.

## 2. Modules and the code they model

| Module | Models | State and actions |
|---|---|---|
| `StakeholderDeposit` | the contract, one step per entry point; a failing `require!` is a guard because the host reverts the call | storage fields under their own names, the ring as a sequence with a `head`; `purse`, `paid` stand for the host's balances; `lifetime`, `declared`, `funded` are history |
| `PrincipalLedger` | what a stakeholder is promised: a principal raised by deposits, lowered by what is paid out | the abstract specification `StakeholderDeposit` implements with `principal <- stakeholder_active` |
| `HistoryRing` | the ring all contracts keep and the view that reads it backwards | operators: `Written`, `NextHead`, `BackSlot`, `Recent` |
| `RecentWindow` | what a bounded history promises: the latest entries in order | abstract specification, implemented by the decision log of `AgentVault` |
| `RevenueEmitter` | the contract with its two-step ownership | `offeredBy` (who made the open offer) and `history` (all events) are history |
| `AgentVault` | the contract: registry, decision log, custody, positions, yield | `history`, `withdrawn` are history; the paused flag is never read by the code and is left out |
| `RiskGuard` | the functions of `riskGuard.ts` on the persisted state | operators on a record; time is relative: `cooldown` is what is left of `trippedUntil`, in ticks; `Saved` is what the file holds after a save that is kept, lost or torn (`Fates`) |
| `Analyst` | `runAnalyst` as a function from what it gathered to the trade the executor makes | operators; `Inputs` are all combinations of pair selected, quote, signal, LLM answer and forced action; a decision has the token it trades, which heuristic, fallback, LLM and user name each in a way of their own |
| `AgentCycle` | concurrent `runCycle`s over the breaker, with the chain, the clock, the operator and crashes | `pc[c]` is the code between two awaits; `Proceed(c)` is what a cycle does by itself; `Execute`, `Tick`, `Reset`, `Crash`, `CrashWhileSaving` are its environment. Composes `RiskGuard` and `Analyst` |
| `FundState` | processes over the state file | `save` is three steps (`open` truncates, `write`, `rename`), each may fail or be the last one; handles follow their file through a rename |
| `DepositConsumer` | chains of polls over one `lastSeenId` | one step is the code between two awaits: `Poll`, the fetch, `Handle`; `Stop` at any moment |
| `X402Payment` | client, signal server, facilitator and the network between them | `client[a]`, `handler[h]` are program counters; the nonce is looked up (`Check`) and entered (`Accept`) in two steps, with an await between them; requests are copied and lost, connections cut, the server restarts; a hash is what the facilitator answers, and nothing is said of the transfer behind it |
| `Submission` | every function that brings a transaction to the node or asks an MCP server, and the executor and the scripts that book what they are told | a function is a record of what sets it apart (`functions`: server, methods, wait, limits, what a failure becomes, what is booked); `call[c]` is how far a call is, `wire[c]` its requests on the way, `tx[c]` what the node makes of it; `mcp` the connection promises. The network loses, delays and garbles, `Restart` ends the process |
| `PairSelector` | `selectBestPair` and the analyst's use of it | one step per listed pair, with every combination of answers and failures; `Before` is the comparison of the sort; `trade` is what the executor then asks the DEX for and on whose word, as `Analyst` has it, a hold, a stake or a failed payment included |
| `LiveFeed` | one client of `GET /api/events` with its two subscriptions | `socket`, `current` (the variable `sock`), `timers`, `unsubscribed` (the flag `stopped`); `Opened`, `Message`, `Closed`, `Reconnect` are the callbacks, `Leave` the client's end |
| `Deployment` | the scripts that deploy, recover, record and check contract hashes | a file is the sequence of its lines; `run` is the script that runs and what it holds in memory; `Stop` ends it anywhere, and a write may leave the file empty (`Overwritten`); `Execute` is the chain, perhaps long after the script gave up |
| `*_proofs`, `DataLemmas` | theorems about the modules they extend, lemmas about sums, folds and rings | see section 5 |
| `MC*` | instances for TLC | model values and small sets. `MCFundBooks`, `MCListeners` and `MCPreparation` hold the instances of two or three components that share no state, by the same division as the proofs: `subject` says which of them a behaviour runs, while the others stay as they began, so that their state spaces add up instead of multiplying |

A module that shares its proofs with another one gives its specification a name of
its own: `VaultSpec` (with `VaultInit`, `VaultNext`, ...), `FeedSpec`, `PairSpec`,
`DeploySpec`. The others have `Init`, `Next`, `Spec`.

An await that changes nothing and whose failure the code swallows is no step of
its own. Operators and actions named as a *Mutant* in their comment are plausible
bugs of the code; each property is known to be violated when the operator that
follows is replaced by such a mutant, so no property holds for want of trying.

## 3. What TLC checks

Every run checks the types of its modules: `SD_ring` and `AC_cycle` as `TypeOK`, the
others as the first part of one of their invariants.

| Run | Shows |
|---|---|
| `SD_ring` | `RingHoldsLatest`: the ring holds the latest deposits, once each. `PrincipalConserved`, `TotalsConserved`, `ActiveIsSum`: balances, payouts and totals agree across partial withdrawals and overwrites, though each is lowered by a subtraction of its own. `WithdrawnIsFinal`: nothing withdrawn becomes withdrawable again. `ImplementsLedger`: the contract implements `PrincipalLedger`. |
| `SD_evicted` | a violation: see finding 1. |
| `RE_window` | `RecentIsLatest`: the view returns the last *l* events in order for every limit and head. `TotalsMatchHistory`: the lifetime totals survive what the ring forgets. `OffersAreCurrent`: no offer of a former owner stays open. |
| `FB_books` | *Vault.* `ReputationAgrees`: per agent, global and logged successes agree. `CustodyBalances`: what was custodied is there or was withdrawn. `YieldIsAttributed`: the vault's yield is the sum over its positions. `ImplementsWindow` for the decision log. *State file.* `SoleWriterKeepsAll`: one recording process loses nothing that returned, in spite of crashes in every file call and failing saves. `SnapshotsConsistent`, `NothingInvented`: with any number of writers no copy mixes two states or counts twice. |
| `AC_cycle` | `OverrunBounded`: cycles in flight overrun the breaker by less than their number. `CooldownHeld`: once the file took a trip by the streak, nobody passes before the cooldown is over, unless the operator resets or the file is cut short. `FailuresStop`: failures that the file takes do not go on for ever unless something succeeds, an operator resets or the file is torn. `CyclesEnd`: every cycle ends whatever chain and services do. |
| `AC_reopen` | a violation: finding 2. |
| `LS_listen` | *Deposit consumer.* `DeliveredInOrder`: ids come in order and once, though answers of two chains cross. `StopIsFinal`: after `stop` at most the polls in flight deliver, and every chain ends. `LastDelivered`: a deposit that stays the newest is delivered in the end, also after a callback threw for it. *Live feed.* `FeedIsFaithful`: events of the right contract and name only, in order and once, because there is one socket or one timer at a time. `LivesAsLongAsClient`: a lost socket is replaced while the client stays; when it has gone, no socket, timer or interval is left, for good. |
| `DC_each` | a violation: finding 3. |
| `PR_prepare` | *Scripts.* `RecordedIsReal`: a line of a contract names a deploy of it that the node accepted, one that claims a contract an installed one, and a strict verification passes on such hashes only. `EnvMovesForward`: `agent/.env` has one line per contract, which stays set and never goes back to an earlier deploy of the emitter or the vault, or else the write was cut off and the file is empty. *Pair.* `ChoiceIsBest`: the pair selected was found acceptable and is the liquid-staking one or the one that earns most; nothing is selected only if nothing is acceptable. `RejectedNotChosen`: a pair just rejected is traded only if the LLM names its token, or as sCSPR, the default without a selection and the fallback's token. *Payment.* `LateCopiesRefused`: once a settlement was asked for, no later copy adds a chance of one in that life of the server. `HashMeansAsked`: who holds a hash was served, and the facilitator was asked to settle that authorization. `FallbackServes`: the server refuses an accepted payment only if it came twice. `NobodyHangs`: client and handlers come to an end. |
| `X4_replay` | a violation: finding 4. |
| `DP_block` | a violation: finding 5. |
| `SB_submit` | `VerdictsAreHonest`: a reported success with a hash is a transaction the node took, a reported execution was executed, a failure left nothing behind, and nothing is booked that the node never took, by the executor, the simulator or a script, each up to what the call was cut off from (`excused`) and with the exceptions of section 6. `ConnectsOnce`: calls that come while a connection is made do not make another. `CallsEnd`: a call whose steps have limits ends, over all its methods. |

Bounds, and why they are enough:

- *Contracts.* Two accounts, so that one can be owner, agent or emitter and the
  other not; a ring of two slots (0 and 1 in the contract mean one slot; two is
  the smallest ring with a middle head) and more entries than twice its size
  or one more than it (`Supply` 5 with amounts 1 and 2: up to five deposits;
  `MaxEvents` 4; `MaxDecisions` 3), so that it wraps over active, withdrawn and
  repeated records. Amount 0 is refused everywhere and therefore tried. `U64` =
  16 exceeds all that is ever declared in `SD_ring`, where exact accounting is
  the claim (section 6 says what happens beyond it); `U256` is as small as 3 and
  7, so that the overflow that reverts is reached.
- *Cycles.* Two at once give every race between a look at the breaker and a
  record of an outcome; a limit of two failures and a cooldown of two ticks let
  a trip, a late success and a second trip meet. Amounts 0, 1, 2 around a
  minimal stake of 2; half a percent off one mote is nothing, so a trade's
  minimum is 0 or 1: a rise, a fall and a steady value. Confidences 49 and 50
  are the two sides of the threshold. The streak is bounded by `OverrunBounded`
  itself, so nothing is cut off.
- *Fund state.* Two processes, three records in all: enough for a record between
  another one's open and rename, and a third that writes a stale cache back.
- *Consumer.* Two calls of `start` and four deposits: one seen first, and enough
  after it for two to fall between two polls while answers cross.
- *x402.* Two attempts, two handlers, one copy of each request: a copy in the
  other handler, before or after the first one was entered or ended, or after a
  restart.
- *Submission.* Two calls, each of any of the sixteen functions: calls share
  nothing but a connection and the custody they read, and two are enough to meet
  there; one call alone goes through all three methods of `submitRawTransaction`
  with requests of earlier methods still on the way.
- *Pairs.* Up to three listed pairs (`MaxPairs`) out of three tokens and one pair without
  CSPR; impacts on both sides of the limit and none; pools that earn nothing by
  the rounding of the division, and two that earn differently: every order of a
  best, a worse and an unacceptable pair around the one with sCSPR. After it one
  amount and one confidence with which a trade is made: what keeps it from being
  made is the same outcome as a forced hold, which is tried.
- *Live feed.* Room for two sockets per subscription, of which the second is
  never needed, and three events: one before, one across and one after a
  reconnect.
- *Deployment.* The two contracts all scripts know, two runs of scripts and four
  deploys: a run, stopped anywhere or not, and a second one of the same or another
  script over what it left; four deploys let a second `setup.ts` or `deploy.ts`
  come to its end.
- *Together.* In the runs of several components each component has the bounds
  above, and the others stand still.

`CHECK_DEADLOCK FALSE` stands where the system may stop: the contracts when the
bound on entries is reached, the consumer after `stop`, a pair selection and the
calls of `Submission` when they are over, a client that has gone, scripts when
the bound on runs is reached; the runs of several components have it where one of
them may. The other modules are checked for deadlock.

## 4. Fairness

Safety runs use `Spec`. Liveness runs use `FairSpec`, or `MCSpec` with the same
fairness of each component:

- `AgentCycle`: weak fairness of each `Proceed(c)` and of `Tick`. Every await of
  the cycle has an end of its own — 60 s for submission and wait
  (`casper/signer.ts`, `casper/staking.ts`), 10 s and 15 s for the x402 requests,
  15 s for the LLM, and for MCP requests the default limit of the MCP library —
  and the promise's continuation then runs. No fairness for a cycle's start,
  the chain's execution, a reset or a crash.
- `DepositConsumer`: weak fairness of each chain's `Proceed`: a timeout fires,
  and a request ends after 15 s, perhaps with an error. `LastDelivered` itself
  assumes that requests and callbacks do not fail for ever; nothing is assumed
  of the deposits.
- `X402Payment`: weak fairness of the client's and the handlers' ends, by the
  limits of 10 s, 15 s, 8 s and 60 s. Nothing is assumed of the network, the
  facilitator or the chain.
- `Submission`: weak fairness of what a call does by itself, for the functions
  all of whose steps have a limit (`timed`): 30 s and 60 s of axios and of the
  wait (`casper/signer.ts`, `casper/staking.ts`, `depositSimulator.ts`), and the
  MCP library's own limit. `putDeploy` and `putTransaction` of the SDK and the
  wait for a deploy have none, so nothing is claimed of the functions that use
  them. No fairness for network, node or chain.
- `LiveFeed`: weak fairness of a waiting reconnect (a timer fires) and of the end
  of a socket that is being closed (the library ends it after 30 s). Whether a
  connection is made, kept or used is up to the other side.

## 5. What is proved

TLAPS checks the following for every value of the constants that satisfies the
named assumptions of the modules. These say what the program's own types and
defaults say (amounts and limits are natural numbers, a streak limit and a
cooldown are positive: `AmountsAssumption`, `HistoryAssumption`,
`LimitsAssumption`, `U64Assumption`, `StreakAssumption`, `CooldownAssumption`,
`DrawdownAssumption`, `NumbersAssumption`, `MotesAssumption`, `PoolsAssumption`),
who a contract is deployed with (`OwnerAssumption`, `DeployedAssumption`,
`ZeroAssumption`), that what a run of the program makes is finite
(`CyclesAssumption`, `ChainsAssumption`, `CallsAssumption`,
`AttemptsAssumption`, `ProcessesAssumption`; `SocketsAssumption` wants one socket
at least), that bounds are numbers (`BoundsAssumption`, `BoundAssumption`,
`SupplyAssumption`, `DepositsAssumption`), that sCSPR is a token and CSPR none
(`TokensAssumption`), that no token is called what the model calls the absence of
one (`NamesAssumption`), and that `deploy.ts` deploys each of
its contracts once, the two that all scripts know among them
(`OrderAssumption`). Two conditions are stated with the theorems that need them:
`Supply < U64` and `IsFiniteSet(Accounts)`.

Every safety invariant that a passing run of section 3 checks is proved, and every
action property and refinement; what follows says from what.

**`DataLemmas`** — what the model's operators on data compute:

- *Sums.* `MapThenSumSet` is a recursive function that takes the elements in an
  order of its own. `AddsUpExists` shows that the recursion has a solution,
  `SumsAgree` and `SumWithout` that the order does not matter; from them
  `SumExtensional`, `SumWith`, `SumGrows`, `SumJoins` say how a sum changes when
  an element does. The induction on the size of a set is carried out on the set
  of numbers for which the claim holds (`SetInduction`), because no prover here
  can be given the library's theorems, whose parameter is an operator.
- *Rings.* `RingWrite` and `RingView`: a ring that holds the end of a history
  still does after a write, and the view that walks backwards from `head` reads
  that end; `WindowMoves`: so a contract's log implements `RecentWindow`.
- *Folds.* `FoldExists`, `MaxIs`, `MinWithin`, `Intervals`: a `FoldLeft` takes a
  sequence one place after the other.

**`StakeholderDeposit_proofs`** — for any accounts, ring and width of counters:

- `TypeCorrect`: `Spec => []TypeOK`.
- `RingCorrect`: `Spec => []RingHoldsLatest`. The invariant is not inductive: it
  says which ids are there, and a push must know where. `RingShape` gives the id
  of every slot as a function of `head`; the id that a push overwrites is then
  the oldest.
- `BalancesConserved` and `TotalsStayExact`: `PrincipalConserved` and
  `TotalsConserved`, under `Supply < U64`, that is, as long as the true sum of
  deposits fits in the counters. What must be shown is that no saturating
  subtraction ever cuts: for every set of stakeholders the active records in the
  ring never amount to more than their balance (`Accounting`, the *Covers*
  argument). A running sum that exists along the slots is carried from state to
  state (`DepositCovers`, `WithdrawCovers`).
- `ActiveStaysSum`: under the same condition, and for finitely many accounts, the
  active total is the sum of the balances. From *Covers* again, and the lemmas on
  sums.
- `WithdrawnStaysFinal`: the action property, from `RingShape`: a slot changes its
  record only for a newer one.
- `LedgerRefinement`: `Spec => Ledger!Spec` under the same condition: initial
  states map to initial states, `deposit` and `withdraw` to the ledger's, all
  else to stuttering.

**`RevenueEmitter_proofs`** — for any `max_history` and any number of events:

- `RecentStaysLatest`: the view is the end of the history for every limit. The
  state only says where an entry was written, so `RingShape` gives the place in
  the history of every slot as a function of `head`.
- `TotalsStayExact`: the totals per asset and the count add up the whole history,
  from `TotalsAddUp`: an event adds its amount to one sum and leaves the others.
- `OffersStayCurrent`: an open offer of ownership is the present owner's.

**`FundBooks_proofs`** — the two books kept of the fund. Of `AgentVault`, from
`VaultInv`:

- `CustodyStaysBalanced`, `YieldStaysAttributed`, `ReputationStaysTrue` (its sum
  over the accounts for finitely many of them): each aggregate against what it sums
  up. `ReputationAgrees` compares with the whole history and not with the ring, so
  it needs no bound on the decisions.
- `LogRefinement`: the decision log implements `RecentWindow`.

Of `FundState`, for any number of processes, from
`IInv == TypeOK /\ CopiesSound /\ SavesKnown /\ WriterInOrder`:

- `CopiesStayConsistent`, `NothingIsInvented`: `CopiesSound` says of every copy —
  cache, file, temporary file, text on its way — that its numbers belong
  together and to events that were recorded.
- `SoleWriterLosesNothing`: `SavesKnown` says that who saves has recorded something,
  and `WriterInOrder` of a single writer where its text is in each step of a save,
  and that its cache and the file hold the truth, with the record being saved or
  still without it.

**`AgentCycle_proofs`** — for any finite set of cycles and any limits:

- `TypeCorrect`, `OverrunIsBounded`, `CooldownIsHeld`. The inductive invariant is
  `IInv == TypeOK /\ FlightBounded /\ QuietAgrees`: `FlightBounded` weighs the
  streak against the cycles past the breaker (a cycle joins the flight only below
  the limit, and leaves it by adding one at most, whatever the file takes of it);
  `QuietAgrees` says that the remaining cooldown and the ticks since the last trip
  that the file took add up, through saves that are lost or torn. The lemma
  `Skeleton` reduces the twenty-odd actions to the handful of shapes these facts
  can tell apart, so that each invariant is proved over shapes and not once more
  over actions.
- Of `Analyst`, for all amounts, quotes and confidences: `ForcedActionsHonoured`
  (a forced action reaches the executor whatever the analyst itself would have
  decided; a forced hold sends nothing; a stake is sent only of what the network
  accepts; every other forced trade asks for the quote less half a percent) and
  `CopiesDifferInToken`: the fallback for a failing LLM proposes the action and the
  minimum of the heuristic it copies, always with a confidence that is executed,
  and the same token exactly when sCSPR was selected or a user names the trade.

**`Preparation_proofs`** — what comes before a decision. Of `Deployment`, for any
number of runs and deploys, from
`DeployInv == DeployTypeOK /\ FilesGood /\ RunGood`:

- `RecordedStaysReal`: the files alone are not inductive, since a script that
  runs holds hashes it has not written yet: `RunGood` says that these are real
  (`ResultsReal`) and what a waiting script waits for. `VerifiedGood` says the same
  of what a strict verification saw.
- `EnvStaysForward`: needs to know what a script will write. `SetupInOrder`: what
  `setup.ts` has deployed is at least as new as what `agent/.env` has, and it has
  it in its order; and that file has no key twice (`Unique`). `ReplaceIs` and
  `BlockIs` say what the two ways of writing do to a file; `ConfiguredIs` that
  without doubles the first line and the last are the same.

Of `PairSelector`, for any tokens, quotes and pools:

- `ChoiceStaysBest`: `BeforeIsOrder` shows that the comparison of the sort is an
  order, `BestIsFirst` that the fold of it finds an acceptable candidate that no
  other comes before. `Distinct` (a token is listed or a candidate, and once)
  makes the candidate of a token the only one.
- `RejectedOnlyByDefault`: `ProposableIs` says which token each author of a
  decision names, for every input of the analyst, and `TradeFollows` carries that to
  the trade; with `Distinct` a rejected pair is not the one selected.

Of `X402Payment`, for any payments and any handlers:

- `LateCopiesAreRefused`: by `EnteredFirst` an authorization whose settlement was
  asked for is among the used nonces, so that no handler joins those past the
  check (`ChancesStep`).
- `HashesMeanAsked` from `HashesAreAsked`: a hash is only in a handler that answers
  for a settlement that was asked for, and from there with its client.
- `AcceptedIsServed` from `AskedOnce`: a payment nobody copied, and whose client
  still waits, is in one place at a time, on the wire or in one handler, and is
  accepted only there.

**`Submission_proofs`** — for any finite set of calls, each of any function:

- `VerdictsStayHonest`: `VerdictsAreHonest` speaks of ends, so the invariant
  follows each call there. `NothingBehind`: as long as a call was not cut off, the
  node knows nothing of its transaction that the call does not, and at most the
  request it waits for is on its way; `HashIsEarned`, `EndIsEarned` and
  `BookIsEarned` carry what each place in the code has seen to the end it reports.
  A step is about one call (`LocalStep`); only `Restart` touches all. That
  `Custody` never shrinks needs the finiteness of `Calls`.
- `ServersAreConnectedOnce`: a server that has no promise yet was not asked for.

**`Listeners_proofs`** — of `DepositConsumer`, for any finite set of calls of
`start`:

- `DeliveriesInOrder`: the order of the deliveries is not inductive by itself;
  `SeenCovers` says that `lastSeenId` is at least all that was delivered, and not
  0 once something was seen, so that a late answer of another chain brings
  nothing old.
- `StopBoundsDeliveries`: the safety half of `StopIsFinal`. `FlightCovers` weighs
  what was delivered against the polls in flight: after `stop` none joins them,
  and one that delivers has left them.

Of `LiveFeed`, for any events and any room for sockets:

- `FeedStaysFaithful`: `OneConnection` (a subscription has a socket, or waits for
  one, or neither) and `NextIsNew` (what a socket gets next is later than all that
  was written of its kind) hold only together: a second socket would write what
  the first one had.

Only model-checked is liveness, which needs fairness and ENABLED: `CyclesEnd`,
`FailuresStop`, `LastDelivered`, `NobodyHangs`, `CallsEnd`, `LivesAsLongAsClient`,
and the second half of `StopIsFinal` (every chain ends). The violations of section
6 are counterexamples and need no proof.

## 6. Where the code and its documents disagree

With a run whose counterexample shows it:

1. **Stranded principal** (`SD_evicted`): a full ring overwrites an active
   record, and `withdraw` only scans the ring; the balance still counts it
   (`stakeholder_deposit.rs:183`; its header, :14, has each owner withdraw their
   own principal).

2. **A breaker that does not reopen** (`AC_reopen`): after the cooldown the streak is
   still at its limit, a held cycle records nothing, and only the operator's reset
   makes it fall (`riskGuard.ts:155`; `demo/DORAHACKS.md:52` says it holds for 10
   minutes, and the comment at :84-87 calls it a cooldown).
3. **Skipped deposits** (`DC_each`): of several deposits in one poll interval only
   the newest makes an event, and `lastSeenId` rules out those before it
   (`stakeholderEventConsumer.ts:64`; :2-4 says each one is pushed).
4. **A replay that passes** (`X4_replay`): between the look at the used nonces and
   the entry of a new one is an await, which gives way to other requests even when
   the metadata is cached: two copies handled in one tick are both sent to be
   settled (`x402Server.ts:192`, :209, :335; :61 calls it the anti-replay store).
   A copy that comes later is refused (`LateCopiesRefused`); a second transfer of
   the same authorization is up to the token.
5. **A block that stays** (`DP_block`): the block of an earlier run is not removed
   when it begins the file, as in every file `deploy.ts` made itself
   (`deploy.ts:277` asks for an index above 0; :255 "overwrite previous run's
   block", :271-272 "Avoids runaway growth"). `--skip-deploy` then recovers the
   first block's hashes where dotenv would take the last.

Met while modelling, modelled as the code has them, without a run of their own. In
the contracts and the agent:

- A save of the risk file that fails is logged and swallowed, and every call reads
  the file again (`riskGuard.ts:104-106`, :190-192): with a file that takes nothing
  no streak grows and no trip lasts, and failures go on for ever. `CooldownHeld`
  and `FailuresStop` are stated for what the file took.
- A crash or a full disk inside `writeFileSync` leaves a file that reads as the
  default state, an open breaker, also during a cooldown (`riskGuard.ts:103`,
  :96-98; :12-13 says the guard survives restarts).
- `minAmountOut || amountIn` with the truthy `'0'` records a portfolio worth 0
  after a stake, a drawdown of 100 % (`executor.ts:169`).
- Two processes share one temporary file name and keep a cache each, so that one
  save can truncate or undo the other's (`fundState.ts:72`; :12-13 says the file
  is rewritten atomically and counters are not lost).
- `deposit` credits an amount nobody has to send
  (`stakeholder_deposit.rs:160`; its comment at :132-133 has the executor
  transfer it before), so one stakeholder can be paid from another's funds.
- The u64 totals wrap in a release build (`stakeholder_deposit.rs:160`), which
  is why the accounting theorems have their condition; the saturating
  subtraction then hides it.
- `record_strategy_execution` books positions of any amount, custodied or not
  (`agent_vault.rs:307`; comment at :294-296).
- `resetCircuitBreaker` leaves the drawdown (`riskGuard.ts:229`): after a trip
  by drawdown the override opens nothing, and a held agent records no new value.
- Skipped and unsent strategies count as reverts (`executor.ts:163`;
  `riskGuard.ts:9-10` speaks of reverted transactions): holds forced by a user
  trip the breaker.
- A transaction whose outcome is unknown counts as a success
  (`casper/signer.ts:348`; a stake is not even waited for, `staking.ts:130`), so
  a success that resets the streak may have reverted.
- A held cycle is not logged (`index.ts:44`; `riskGuard.ts:17-18` and
  `README.md:749` say it is).
- The LLM fallback names sCSPR whatever pair was selected and quoted
  (`llmStrategy.ts:146,160`; :132-133 says it matches the heuristic, which trades
  the selected pair, `analyst.ts:65,72`), so that the minimum of one token is asked
  of another: the theorem `CopiesDifferInToken` says exactly when.
- The comment at `analyst.ts:270-281` has a stake below the minimum become a swap to
  sCSPR; the code trades the pair selected.
- The LLM fallback never falls below a confidence of 50, the heuristic it says
  it matches can (`llmStrategy.ts:135-167`); an LLM answer without a confidence
  is executed, since `undefined < 50` is false.
- A quote tool that answers with an error reads as an output of 0 at no price
  impact (`csprTradeMcp.ts`, `getQuote`): a swap then has a minimum of 0.
- The server's forecast says "rising", which the analyst's pattern for a bullish
  forecast (`analyst.ts:61`) does not know.
- `pairSelector.ts` reads an impact of "0%" as 999 (`parseFloat(...) || 999`)
  and avoids the pair; the analyst reads an unknown impact as 0.
- A selection without an acceptable pair means "hold" (`pairSelector.ts:42`); the
  analyst then trades CSPR/sCSPR, even if that pair was just rejected
  (`analyst.ts:137-165`).
- The facilitator's `deployHash` or `txHash` is taken as proof of the settlement
  unless `success` is false (`x402Server.ts:391-396`), but the facilitator of
  `README.md:776-780` answers with the hash of `putDeploy`, before the deploy is
  executed: a hash does not stand for an executed transfer.
- A rejected connection promise is kept (`csprTradeMcp.ts:18-37`,
  `casperMcp.ts:17-38`): every later call fails until the process is restarted.
- `submitRawTransaction` submits an accepted transaction again when its wait
  fails (`signer.ts:457-469`); a refusal of the copy is then reported as the
  outcome. Nothing calls it at present.
- The simulator books a deposit when the node has taken it
  (`depositSimulator.ts:138`), and an answer with neither a hash nor an error
  counts as taken; `simulate-parking-revenue.ts:162` books an event whose
  execution failed.

In the scripts:

- `config.ts:18` says the hashes are filled in by the deploy script, which writes
  `.env.local` in the repository's root; nothing loads that file. What
  `record-deployment.ts` appends lands one directory above, and `verify-setup.ts`,
  which it recommends (:62), reads `agent/.env`.
- `--skip-deploy` recovers only hashes with a `hash-` prefix (`deploy.ts:226`);
  some of those deploy.ts itself records have none.
- After 60 polls, or a failed deploy, `deploy.ts:361,369` records the deploy's own
  hash as the contract's, and `setup.ts:274` always does; nothing tells them apart
  afterwards, and a strict
  verification passes on them (`verify-setup.ts:42`; :4-5 says it exits with
  non-zero if anything is wrong).
- `writeFileSync` truncates `agent/.env` and `.env.local` before it writes
  (`setup.ts:214`, `deploy-cep18.ts:213`): a stop in between empties the file, with
  the operator's own settings.
- The key that `setup.ts` has `casper-client` generate has another file name, so
  the first setup ends without a deploy; the second one succeeds.
- `quickstart.ts:47` also matches `ARWA_AGENT_VAULT_CONTRACT_HASH` when it looks
  for `AGENT_VAULT_CONTRACT_HASH`; that other hash is written by no script,
  though `vaultCustodian.ts:45` says to run deploy.ts for it.

## 7. What is not modelled

- *Transaction layout, EIP-712 digests, keys*: encoding and cryptography; that
  bytes are laid out as the node expects is no question of states.
- *Frontend, `quickstart.ts`, probe, debug and test scripts*: no state machine. The probes repeat
  one request or one byte layout and are run by hand.
- *REST, contract and balance reads*: they keep no state a decision depends on;
  where their failure matters it is a step of `AgentCycle`, `X402Payment` or
  `Submission`. The external facilitator, token, node and chain appear as this
  code uses them. What becomes of a transfer after the facilitator answered is not
  modelled.
- *Functions nothing calls, or not here*: `buildTransferDeploy`,
  `signRawTransactionV1`, `callEntryPoint` of `deploy.ts`, `subscribeSSE` and
  `onContractDeploys`, the node's event stream
  and the REST history of events.
- *The auction reads of `staking.ts`*, which only find a validator's name.
- *Several processes over the risk file*: `AgentCycle` is one process. The same
  hazard is modelled where two processes are the documented set-up, in `FundState`.
  A read of the risk file that fails while the file is whole is left out.
- *Two deployment scripts at once*: the operator runs one at a time.
- Labels, timestamps, hashes, prompts and rationale texts throughout.

## 8. Plan

Done, in this order: `StakeholderDeposit` over `PrincipalLedger` with proofs;
`HistoryRing`, `RecentWindow`, `RevenueEmitter`; `AgentVault`; `RiskGuard`,
`Analyst`, `AgentCycle` with proofs; `FundState`; `DepositConsumer`;
`X402Payment`; `Submission`; `PairSelector`; `LiveFeed`; `Deployment`; proofs for
`RevenueEmitter`, `DepositConsumer`, `X402Payment`, `Submission`, `LiveFeed`; the
lemmas on sums and folds, and with them the rest of `StakeholderDeposit` and
`RevenueEmitter`, `AgentVault`, `FundState`, `PairSelector` and `Deployment`.

Next, the model: the simulator and the consumer composed with
`StakeholderDeposit`, in place of the consumer's bare counter.

Next, the proofs: what the liveness properties rest on and needs no fairness — a
measure that every fair step of `Submission`, `X402Payment` and `PairSelector`
lowers and no other step raises — and the theorems of `StakeholderDeposit`
without the condition `Supply < U64`, as what still holds when the counters wrap.
