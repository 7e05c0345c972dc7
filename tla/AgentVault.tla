----------------------------- MODULE AgentVault -----------------------------
(***************************************************************************)
(* The AgentVault contract (contracts/odra/agent_vault/src/agent_vault.rs):*)
(* the decision log and reputation of the agents, and the book-keeping of  *)
(* the custodied CSPR and of the positions opened with it.                 *)
(*                                                                         *)
(* A call is one step and a call that reverts changes nothing, so every    *)
(* require! and every env().revert is a guard; U256 addition reverts on    *)
(* overflow.  Timestamps, tokens, hashes, labels with their length limits  *)
(* and the emitted events are left out.  The paused flag is too: init sets *)
(* it and nothing ever reads or changes it.                                *)
(***************************************************************************)
EXTENDS HistoryRing, FiniteSetsExt

CONSTANTS
  Accounts,            \* the addresses that call the contract
  Deployed,            \* [owner, agent]: the address arguments of init
  MaxLogHistory,       \* the max_log_history argument of init
  MinStrategyAmount,   \* the min_strategy_amount argument of init
  Outcomes,            \* the outcomes reported, "success" among them
  Amounts,             \* the amounts passed to the entry points
  U256,                \* the number of values of a U256
  MaxDecisions,        \* bound: how many decisions are logged
  MaxPositions         \* bound: how many positions are recorded

ASSUME DeployedAssumption == Deployed \in [owner : Accounts, agent : Accounts]
ASSUME LimitsAssumption   == MaxLogHistory \in Nat /\ MinStrategyAmount \in Nat
ASSUME AmountsAssumption  == Amounts \subseteq Nat
ASSUME BoundsAssumption   == U256 \in Nat \ {0} /\ MaxDecisions \in Nat /\ MaxPositions \in Nat

VARIABLES
  agents,              \* the registered agents
  decision_log, decision_head,
  total_strategies,
  reputation, reputation_global,
  custodied_cspr, total_custodied,
  total_yield_realised,
  positions, position_count,
  history,             \* history: every decision ever logged, in order
  withdrawn            \* history: all CSPR ever withdrawn

journal   == <<decision_log, decision_head, total_strategies, reputation,
               reputation_global, history>>
custody   == <<custodied_cspr, total_custodied, withdrawn>>
book      == <<positions, position_count, total_yield_realised>>
vaultVars == <<agents, journal, custody, book>>

\* There is no entry point that moves ownership, so the owner is a constant.
owner == Deployed.owner

Cap == AtLeastOne(MaxLogHistory)

RepDelta(outcome) == IF outcome = "success" THEN 1 ELSE 0

Decision == [agent : Accounts, amount_in : Amounts, outcome : Outcomes,
             reputation_delta : {0, 1}]
Position == [id : Nat, amount : Amounts, realised_yield : Nat]

-----------------------------------------------------------------------------
VaultInit ==
  /\ agents = {owner, Deployed.agent}
  /\ decision_log = << >>
  /\ decision_head = 0
  /\ total_strategies = 0
  /\ reputation = [a \in Accounts |-> 0]
  /\ reputation_global = 0
  /\ custodied_cspr = 0
  /\ total_custodied = 0
  /\ total_yield_realised = 0
  /\ positions = << >>
  /\ position_count = 0
  /\ history = << >>
  /\ withdrawn = 0

RegisterAgent(caller, a) ==
  /\ caller = owner
  /\ agents' = agents \cup {a}
  /\ UNCHANGED <<journal, custody, book>>

UnregisterAgent(caller, a) ==
  /\ caller = owner
  /\ agents' = agents \ {a}
  /\ UNCHANGED <<journal, custody, book>>

\* Mutant: a reputation of its own is only opened for registered agents other
\* than the owner, while the global counter counts everyone.
CreditAgentsOnly(caller, delta) ==
  /\ reputation' = IF caller = owner THEN reputation
                   ELSE [reputation EXCEPT ![caller] = @ + delta]
  /\ reputation_global' = reputation_global + delta

Credit(caller, delta) ==
  /\ reputation' = [reputation EXCEPT ![caller] = @ + delta]
  /\ reputation_global' = reputation_global + delta

ExecuteStrategy(caller, amount_in, outcome) ==
  LET log == [agent |-> caller, amount_in |-> amount_in, outcome |-> outcome,
              reputation_delta |-> RepDelta(outcome)] IN
  /\ total_strategies < MaxDecisions
  /\ caller \in agents
  /\ amount_in >= MinStrategyAmount
  /\ decision_log' = Written(decision_log, decision_head, Cap, log)
  /\ decision_head' = NextHead(decision_log, decision_head, Cap)
  /\ total_strategies' = total_strategies + 1
  /\ Credit(caller, RepDelta(outcome))
  /\ history' = Append(history, log)
  /\ UNCHANGED <<agents, custody, book>>

DepositForStrategy(caller, amount) ==
  /\ caller \in agents
  /\ amount > 0
  /\ total_custodied + amount < U256
  /\ custodied_cspr' = custodied_cspr + amount
  /\ total_custodied' = total_custodied + amount
  /\ UNCHANGED <<agents, withdrawn, journal, book>>

Opened(amount) == [id |-> position_count + 1, amount |-> amount, realised_yield |-> 0]

\* The amount is what the agent says: the custodied balance is not consulted.
RecordStrategyExecution(caller, amount) ==
  /\ position_count < MaxPositions
  /\ caller \in agents
  /\ amount > 0
  /\ position_count' = position_count + 1
  /\ positions' = Append(positions, Opened(amount))
  /\ UNCHANGED <<agents, total_yield_realised, journal, custody>>

\* The slot the scan by id stops at.
IsFirstWithId(i, id) ==
  /\ i \in DOMAIN positions
  /\ positions[i].id = id
  /\ \A j \in 1 .. i - 1 : positions[j].id # id

\* Mutant: the position forgets the yield it had realised before.
YieldReplaced(pos, amount) == [pos EXCEPT !.realised_yield = amount]

WithYield(pos, amount) == [pos EXCEPT !.realised_yield = @ + amount]

\* The position's own total is a part of the lifetime total, so it cannot
\* overflow before that one does.
RecordYieldRealised(caller, id, amount) ==
  /\ caller \in agents
  /\ amount > 0
  /\ total_yield_realised + amount < U256
  /\ \E i \in DOMAIN positions :
       /\ IsFirstWithId(i, id)
       /\ positions' = [positions EXCEPT ![i] = WithYield(@, amount)]
  /\ total_yield_realised' = total_yield_realised + amount
  /\ UNCHANGED <<agents, position_count, journal, custody>>

Covers(amount) == amount <= custodied_cspr

\* Mutant: the lifetime total is lowered along with the balance.
DebitBoth(amount) ==
  /\ custodied_cspr' = custodied_cspr - amount
  /\ total_custodied' = total_custodied - amount

Debit(amount) ==
  /\ custodied_cspr' = custodied_cspr - amount
  /\ UNCHANGED total_custodied

WithdrawForStrategy(caller, amount) ==
  /\ caller \in agents
  /\ amount > 0
  /\ Covers(amount)
  /\ Debit(amount)
  /\ withdrawn' = withdrawn + amount
  /\ UNCHANGED <<agents, journal, book>>

VaultNext ==
  \E caller \in Accounts :
    \/ \E a \in Accounts : RegisterAgent(caller, a)
    \/ \E a \in Accounts : UnregisterAgent(caller, a)
    \/ \E amount \in Amounts, outcome \in Outcomes :
         ExecuteStrategy(caller, amount, outcome)
    \/ \E amount \in Amounts : DepositForStrategy(caller, amount)
    \/ \E amount \in Amounts : RecordStrategyExecution(caller, amount)
    \/ \E id \in 0 .. MaxPositions + 1, amount \in Amounts :
         RecordYieldRealised(caller, id, amount)
    \/ \E amount \in Amounts : WithdrawForStrategy(caller, amount)

VaultSpec == VaultInit /\ [][VaultNext]_vaultVars

get_decision_log(limit) == Recent(decision_log, decision_head, Cap, limit)

-----------------------------------------------------------------------------
\* Every variable has its type; no balance leaves the range of a U256, and the
\* decision log never outgrows its capacity.
VaultTypeOK ==
  /\ agents \subseteq Accounts
  /\ decision_log \in Seq(Decision) /\ Len(decision_log) <= Cap
  /\ decision_head \in 0 .. Cap - 1
  /\ total_strategies \in Nat
  /\ reputation \in [Accounts -> Nat] /\ reputation_global \in Nat
  /\ custodied_cspr \in 0 .. U256 - 1 /\ total_custodied \in 0 .. U256 - 1
  /\ total_yield_realised \in 0 .. U256 - 1
  /\ positions \in Seq(Position) /\ position_count \in Nat
  /\ history \in Seq(Decision)
  /\ withdrawn \in Nat

\* The global reputation, the agents' own and the successes ever logged agree,
\* also for decisions the ring has dropped and agents since unregistered.
ReputationAgrees ==
  /\ reputation_global = MapThenSumSet(LAMBDA a : reputation[a], Accounts)
  /\ \A a \in Accounts :
       reputation[a] = Cardinality({i \in DOMAIN history :
                                      history[i].agent = a /\ history[i].outcome = "success"})

\* Whatever was custodied is still there or was withdrawn, never both.  (With
\* the types.)
CustodyBalances == VaultTypeOK /\ custodied_cspr + withdrawn = total_custodied

\* The vault's realised yield is the sum of what its positions realised.
YieldIsAttributed ==
  total_yield_realised =
    MapThenSumSet(LAMBDA i : positions[i].realised_yield, DOMAIN positions)

\* The decision log read whole implements the abstract window of latest entries.
Window == INSTANCE RecentWindow
  WITH Size <- Cap, Entries <- Decision, window <- get_decision_log(Cap)

ImplementsWindow == Window!Spec
=============================================================================
