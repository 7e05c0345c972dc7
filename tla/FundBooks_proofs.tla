--------------------------- MODULE FundBooks_proofs ---------------------------
(***************************************************************************)
(* The two books that are kept of the fund: the vault's own, on chain, for *)
(* any agents, amounts, limits and numbers of decisions and positions, and *)
(* the agent's file, for any number of writers and of events.              *)
(***************************************************************************)
EXTENDS AgentVault, FundState, DataLemmas

-----------------------------------------------------------------------------
(***************************************************************************)
(* The vault.                                                              *)
(***************************************************************************)

\* The ring of the decision log holds the latest decisions.
LogHoldsLatest == HoldsLatest(decision_log, decision_head, history, Cap)

Succeeded(i, a) == history[i].agent = a /\ history[i].outcome = "success"
Successes(a)    == {i \in DOMAIN history : Succeeded(i, a)}

\* An agent's reputation is the number of its successes.
SuccessesCounted == \A a \in Accounts : reputation[a] = Cardinality(Successes(a))

\* ReputationAgrees' other half and YieldIsAttributed, in the form the lemmas on
\* sums speak of.
GlobalAddsUp == reputation_global = SumOf(reputation, Accounts)
Yields       == [i \in DOMAIN positions |-> positions[i].realised_yield]
YieldAddsUp  == total_yield_realised = SumOf(Yields, DOMAIN positions)

VaultInv == CustodyBalances /\ LogHoldsLatest /\ SuccessesCounted /\ YieldAddsUp

LEMMA LogCapPositive == Cap \in Nat \ {0}
  BY LimitsAssumption, AtLeastOnePositive DEF Cap

LEMMA VaultTypes ==
  ASSUME VaultTypeOK
  PROVE  /\ decision_log \in Seq(Decision) /\ Len(decision_log) <= Cap
         /\ decision_head \in 0 .. Cap - 1 /\ Cap \in Nat \ {0}
         /\ history \in Seq(Decision) /\ Len(history) \in Nat
         /\ DOMAIN history = 1 .. Len(history)
         /\ positions \in Seq(Position) /\ Len(positions) \in Nat
         /\ DOMAIN positions = 1 .. Len(positions)
         /\ \A i \in DOMAIN positions :
              positions[i] \in Position /\ positions[i].realised_yield \in Nat
         /\ reputation \in [Accounts -> Nat] /\ reputation_global \in Nat
         /\ custodied_cspr \in Nat /\ total_custodied \in Nat /\ withdrawn \in Nat
         /\ total_yield_realised \in Nat
<1>1. positions \in Seq(Position)
  BY DEF VaultTypeOK
<1>2. \A i \in DOMAIN positions : positions[i] \in Position
  BY <1>1, LenProperties, ElementOfSeq
<1>3. \A i \in DOMAIN positions : positions[i].realised_yield \in Nat
  BY <1>2 DEF Position
<1>4. custodied_cspr \in Nat /\ total_custodied \in Nat /\ total_yield_realised \in Nat
  BY BoundsAssumption DEF VaultTypeOK
<1> QED
  BY <1>1, <1>2, <1>3, <1>4, LogCapPositive, LenProperties DEF VaultTypeOK

LEMMA SuccessesAreFinite ==
  ASSUME VaultTypeOK
  PROVE  \A a : IsFiniteSet(Successes(a)) /\ Cardinality(Successes(a)) \in Nat
<1>1. IsFiniteSet(DOMAIN history)
  BY VaultTypes, FS_Interval
<1> QED
  BY <1>1, FS_Subset, FS_CardinalityType DEF Successes

\* The sum YieldIsAttributed writes is the sum of the yields.
LEMMA YieldIsSum ==
  ASSUME IsFiniteSet(DOMAIN positions)
  PROVE  MapThenSumSet(LAMBDA i : positions[i].realised_yield, DOMAIN positions)
           = SumOf(Yields, DOMAIN positions)
<1>. DEFINE S == DOMAIN positions
            realised == MapThenSumSet(LAMBDA i : positions[i].realised_yield, S)
            Solves(g) == g = [s \in SUBSET S |-> IF s = {} THEN 0
                                ELSE positions[Pick(s)].realised_yield + g[s \ {Pick(s)}]]
<1>1. ASSUME NEW g
      PROVE  Solves(g) <=> Sums(g, Yields, S)
  <2>1. \A s \in SUBSET S : s # {} => Pick(s) \in DOMAIN positions
    BY DEF Pick
  <2>2. \A s \in SUBSET S : s # {} => Yields[Pick(s)] = positions[Pick(s)].realised_yield
    BY <2>1 DEF Yields
  <2>. HIDE DEF S
  <2>3. [s \in SUBSET S |-> IF s = {} THEN 0
           ELSE positions[Pick(s)].realised_yield + g[s \ {Pick(s)}]] =
        [s \in SUBSET S |-> IF s = {} THEN 0 ELSE Yields[Pick(s)] + g[s \ {Pick(s)}]]
    BY <2>2
  <2> QED
    BY <2>3, Zenon DEF Sums, AddsUp
<1>2. (\E g : Solves(g)) => \E g : Solves(g) /\ realised = g[S]
  BY DEF MapThenSumSet, MapThenFoldSet, Pick
<1>. HIDE DEF Solves, S, realised
<1>3. IsFiniteSet(S)
  BY DEF S
<1>4. PICK g : Sums(g, Yields, S) /\ realised = g[S]
  BY <1>1, <1>2, <1>3, AddsUpExists
<1>5. SumOf(Yields, S) = g[S]
  BY <1>3, <1>4, SumIsUnique
<1> QED
  BY <1>4, <1>5 DEF S, realised

LEMMA VaultInitInv == VaultInit => VaultInv
<1>. SUFFICES ASSUME VaultInit PROVE VaultInv
  OBVIOUS
<1>1. /\ decision_log = << >> /\ history = << >> /\ positions = << >>
      /\ Len(history) = 0 /\ decision_head = 0
      /\ custodied_cspr = 0 /\ withdrawn = 0 /\ total_custodied = 0
      /\ total_yield_realised = 0 /\ reputation = [a \in Accounts |-> 0]
  BY DEF VaultInit
<1>2. CustodyBalances
  <2>1. agents \subseteq Accounts
    BY DeployedAssumption DEF VaultInit, owner
  <2>2. decision_log \in Seq(Decision) /\ history \in Seq(Decision) /\ positions \in Seq(Position)
    BY <1>1
  <2>3. Len(decision_log) <= Cap /\ decision_head \in 0 .. Cap - 1
    BY <1>1, LogCapPositive
  <2>4. 0 \in 0 .. U256 - 1
    BY BoundsAssumption
  <2>5. reputation \in [Accounts -> Nat]
    BY <1>1
  <2>6. total_strategies \in Nat /\ reputation_global \in Nat /\ position_count \in Nat
    BY DEF VaultInit
  <2> QED
    BY <1>1, <2>1, <2>2, <2>3, <2>4, <2>5, <2>6 DEF CustodyBalances, VaultTypeOK
<1>3. LogHoldsLatest
  BY <1>1, LogCapPositive DEF LogHoldsLatest, HoldsLatest
<1>4. SuccessesCounted
  <2>1. \A a : Successes(a) = {}
    BY <1>1 DEF Successes
  <2> QED
    BY <1>1, <2>1, FS_EmptySet DEF SuccessesCounted
<1>5. YieldAddsUp
  BY <1>1, SumOfNothing DEF YieldAddsUp
<1> QED
  BY <1>2, <1>3, <1>4, <1>5 DEF VaultInv

\* Calls that touch neither the log nor the positions.
LEMMA VaultQuietStep ==
  ASSUME VaultInv, UNCHANGED <<journal, book>>, agents' \subseteq Accounts,
         custodied_cspr' \in 0 .. U256 - 1, total_custodied' \in 0 .. U256 - 1,
         withdrawn' \in Nat, custodied_cspr' + withdrawn' = total_custodied'
  PROVE  VaultInv'
<1>1. /\ VaultTypeOK /\ LogHoldsLatest /\ SuccessesCounted /\ YieldAddsUp
      /\ UNCHANGED <<decision_log, decision_head, total_strategies, reputation,
                     reputation_global, history, positions, position_count,
                     total_yield_realised>>
  BY DEF VaultInv, CustodyBalances, journal, book
<1>2. CustodyBalances'
  BY <1>1 DEF CustodyBalances, VaultTypeOK, Cap
<1>3. LogHoldsLatest' /\ SuccessesCounted' /\ YieldAddsUp'
  BY <1>1 DEF LogHoldsLatest, SuccessesCounted, Successes, Succeeded, YieldAddsUp, Yields, Cap
<1> QED
  BY <1>2, <1>3 DEF VaultInv

\* A withdrawal takes from the balance what is in it.
LEMMA CustodyStep ==
  ASSUME VaultInv, NEW caller \in Accounts, NEW amount \in Amounts,
         DepositForStrategy(caller, amount) \/ WithdrawForStrategy(caller, amount)
  PROVE  VaultInv'
<1>1. /\ UNCHANGED <<agents, journal, book>> /\ agents \subseteq Accounts
      /\ custodied_cspr + withdrawn = total_custodied
      /\ total_custodied \in 0 .. U256 - 1
      /\ custodied_cspr \in Nat /\ withdrawn \in Nat /\ U256 \in Nat /\ amount \in Nat
  BY BoundsAssumption, AmountsAssumption
     DEF DepositForStrategy, WithdrawForStrategy, VaultInv, CustodyBalances, VaultTypeOK
<1>2. CASE DepositForStrategy(caller, amount)
  <2>1. /\ total_custodied + amount < U256 /\ withdrawn' = withdrawn
        /\ custodied_cspr' = custodied_cspr + amount
        /\ total_custodied' = total_custodied + amount
    BY <1>2 DEF DepositForStrategy
  <2>2. /\ custodied_cspr' \in 0 .. U256 - 1 /\ total_custodied' \in 0 .. U256 - 1
        /\ withdrawn' \in Nat /\ custodied_cspr' + withdrawn' = total_custodied'
    BY <1>1, <2>1
  <2> QED
    BY <1>1, <2>2, VaultQuietStep
<1>3. CASE WithdrawForStrategy(caller, amount)
  <2>1. /\ amount <= custodied_cspr /\ withdrawn' = withdrawn + amount
        /\ custodied_cspr' = custodied_cspr - amount /\ total_custodied' = total_custodied
    BY <1>3 DEF WithdrawForStrategy, Covers, Debit
  <2>2. /\ custodied_cspr' \in 0 .. U256 - 1 /\ total_custodied' \in 0 .. U256 - 1
        /\ withdrawn' \in Nat /\ custodied_cspr' + withdrawn' = total_custodied'
    BY <1>1, <2>1
  <2> QED
    BY <1>1, <2>2, VaultQuietStep
<1> QED
  BY <1>2, <1>3

\* What a decision does to the successes counted.
LEMMA DecisionCounts ==
  ASSUME VaultTypeOK, SuccessesCounted, NEW log \in Decision, history' = Append(history, log),
         log.reputation_delta = RepDelta(log.outcome),
         reputation' = [reputation EXCEPT ![log.agent] = @ + log.reputation_delta]
  PROVE  SuccessesCounted'
<1>. DEFINE n == Len(history) + 1
<1>1. /\ DOMAIN history' = 1 .. n /\ history'[n] = log
      /\ \A i \in 1 .. Len(history) : history'[i] = history[i]
      /\ DOMAIN history = 1 .. Len(history) /\ Len(history) \in Nat
      /\ reputation \in [Accounts -> Nat]
  BY VaultTypes, AppendProperties
<1>2. n \notin DOMAIN history /\ DOMAIN history' = DOMAIN history \cup {n}
  BY <1>1
<1>3. log.agent \in Accounts /\ log.reputation_delta \in {0, 1}
  BY DEF Decision
<1>. HIDE DEF n
<1>4. ASSUME NEW a \in Accounts
      PROVE  reputation'[a] = Cardinality(Successes(a)')
  <2>1. /\ IsFiniteSet(Successes(a)) /\ Cardinality(Successes(a)) \in Nat
        /\ n \notin Successes(a) /\ reputation[a] = Cardinality(Successes(a))
    BY <1>2, SuccessesAreFinite DEF Successes, SuccessesCounted
  <2>2. CASE log.agent = a /\ log.outcome = "success"
    <3>1. Successes(a)' = Successes(a) \cup {n}
      BY <1>1, <1>2, <2>2 DEF Successes, Succeeded
    <3>2. reputation'[a] = reputation[a] + 1
      BY <1>1, <2>2 DEF RepDelta
    <3> QED
      BY <2>1, <3>1, <3>2, FS_AddElement
  <2>3. CASE ~(log.agent = a /\ log.outcome = "success")
    <3>1. Successes(a)' = Successes(a)
      BY <1>1, <1>2, <2>3 DEF Successes, Succeeded
    <3>2. reputation'[a] = reputation[a]
      BY <1>1, <2>3 DEF RepDelta
    <3> QED
      BY <2>1, <3>1, <3>2
  <2> QED
    BY <2>2, <2>3
<1> QED
  BY <1>4 DEF SuccessesCounted

\* What the steps of ExecuteStrategy do, for a decision of the caller's.
LEMMA DecisionEffect ==
  ASSUME VaultTypeOK, NEW caller \in Accounts, NEW amount \in Amounts, NEW outcome \in Outcomes,
         ExecuteStrategy(caller, amount, outcome)
  PROVE  \E log \in Decision :
           /\ log.agent = caller /\ log.reputation_delta = RepDelta(log.outcome)
           /\ decision_log' = Written(decision_log, decision_head, Cap, log)
           /\ decision_head' = NextHead(decision_log, decision_head, Cap)
           /\ total_strategies' = total_strategies + 1
           /\ reputation' = [reputation EXCEPT ![log.agent] = @ + log.reputation_delta]
           /\ reputation_global' = reputation_global + log.reputation_delta
           /\ history' = Append(history, log)
           /\ UNCHANGED <<agents, custody, book>>
<1>. DEFINE log == [agent |-> caller, amount_in |-> amount, outcome |-> outcome,
                    reputation_delta |-> RepDelta(outcome)]
<1>1. log \in Decision
  BY DEF Decision, RepDelta
<1>2. /\ log.agent = caller /\ log.outcome = outcome
      /\ log.reputation_delta = RepDelta(outcome)
  OBVIOUS
<1>3. /\ decision_log' = Written(decision_log, decision_head, Cap, log)
      /\ decision_head' = NextHead(decision_log, decision_head, Cap)
      /\ total_strategies' = total_strategies + 1
      /\ reputation' = [reputation EXCEPT ![caller] = @ + RepDelta(outcome)]
      /\ reputation_global' = reputation_global + RepDelta(outcome)
      /\ history' = Append(history, log)
      /\ UNCHANGED <<agents, custody, book>>
  BY DEF ExecuteStrategy, Credit
<1>. HIDE DEF log
<1>. WITNESS log \in Decision
<1> QED
  BY <1>2, <1>3

LEMMA DecisionStep ==
  ASSUME VaultInv, NEW caller \in Accounts, NEW amount \in Amounts, NEW outcome \in Outcomes,
         ExecuteStrategy(caller, amount, outcome)
  PROVE  VaultInv'
<1>1. /\ VaultTypeOK /\ LogHoldsLatest /\ SuccessesCounted /\ YieldAddsUp
      /\ custodied_cspr + withdrawn = total_custodied
  BY DEF VaultInv, CustodyBalances
<1>2. PICK log \in Decision :
        /\ log.reputation_delta = RepDelta(log.outcome)
        /\ decision_log' = Written(decision_log, decision_head, Cap, log)
        /\ decision_head' = NextHead(decision_log, decision_head, Cap)
        /\ total_strategies' = total_strategies + 1
        /\ reputation' = [reputation EXCEPT ![log.agent] = @ + log.reputation_delta]
        /\ reputation_global' = reputation_global + log.reputation_delta
        /\ history' = Append(history, log)
        /\ UNCHANGED <<agents, custody, book>>
  BY <1>1, DecisionEffect
<1>3. /\ decision_log' \in Seq(Decision) /\ Len(decision_log') <= Cap
      /\ decision_head' \in 0 .. Cap - 1
      /\ HoldsLatest(decision_log', decision_head', history', Cap)
  BY <1>1, <1>2, VaultTypes, RingWrite DEF LogHoldsLatest
<1>4. history' \in Seq(Decision)
  BY <1>1, <1>2, VaultTypes, AppendProperties
<1>5. /\ reputation' \in [Accounts -> Nat] /\ reputation_global' \in Nat
      /\ total_strategies' \in Nat
  <2>1. log.agent \in Accounts /\ log.reputation_delta \in Nat
    BY DEF Decision
  <2>2. /\ reputation \in [Accounts -> Nat] /\ reputation_global \in Nat
        /\ total_strategies \in Nat
    BY <1>1 DEF VaultTypeOK
  <2> QED
    BY <1>2, <2>1, <2>2
<1>6. CustodyBalances'
  BY <1>1, <1>2, <1>3, <1>4, <1>5 DEF CustodyBalances, VaultTypeOK, Cap, custody, book
<1>7. LogHoldsLatest'
  BY <1>3 DEF LogHoldsLatest, Cap
<1>8. SuccessesCounted'
  BY <1>1, <1>2, DecisionCounts
<1>9. YieldAddsUp'
  BY <1>1, <1>2 DEF YieldAddsUp, Yields, book
<1> QED
  BY <1>6, <1>7, <1>8, <1>9 DEF VaultInv

\* Steps that change the positions alone.
LEMMA BookKeepsRest ==
  ASSUME VaultInv, UNCHANGED <<agents, journal, custody>>,
         positions' \in Seq(Position), position_count' \in Nat,
         total_yield_realised' \in 0 .. U256 - 1, YieldAddsUp'
  PROVE  VaultInv'
<1>1. /\ VaultTypeOK /\ LogHoldsLatest /\ SuccessesCounted
      /\ custodied_cspr + withdrawn = total_custodied
      /\ UNCHANGED <<agents, decision_log, decision_head, total_strategies, reputation,
                     reputation_global, history, custodied_cspr, total_custodied, withdrawn>>
  BY DEF VaultInv, CustodyBalances, journal, custody
<1>2. CustodyBalances'
  BY <1>1 DEF CustodyBalances, VaultTypeOK, Cap
<1>3. LogHoldsLatest' /\ SuccessesCounted'
  BY <1>1 DEF LogHoldsLatest, SuccessesCounted, Successes, Succeeded, Cap
<1> QED
  BY <1>2, <1>3 DEF VaultInv

\* A new position has realised nothing yet.
LEMMA OpenStep ==
  ASSUME VaultInv, NEW caller \in Accounts, NEW amount \in Amounts,
         RecordStrategyExecution(caller, amount)
  PROVE  VaultInv'
<1>. DEFINE p == Opened(amount)
            n == Len(positions) + 1
<1>1. /\ VaultTypeOK /\ YieldAddsUp
      /\ positions' = Append(positions, p)
      /\ position_count' = position_count + 1
      /\ UNCHANGED <<agents, total_yield_realised, journal, custody>>
  BY DEF RecordStrategyExecution, VaultInv, CustodyBalances
<1>2. p \in Position /\ p.realised_yield = 0 /\ position_count' \in Nat
  <2>1. position_count \in Nat
    BY <1>1 DEF VaultTypeOK
  <2>2. p \in Position /\ p.realised_yield = 0
    BY <2>1 DEF Opened, Position
  <2> QED
    BY <1>1, <2>1, <2>2
<1>. HIDE DEF p
<1>3. /\ positions' \in Seq(Position)
      /\ DOMAIN positions' = 1 .. n /\ positions'[n] = p
      /\ \A i \in 1 .. Len(positions) : positions'[i] = positions[i]
      /\ DOMAIN positions = 1 .. Len(positions) /\ Len(positions) \in Nat
      /\ \A i \in DOMAIN positions : positions[i].realised_yield \in Nat
  BY <1>1, <1>2, VaultTypes, AppendProperties
<1>4. n \notin DOMAIN positions /\ DOMAIN positions' = DOMAIN positions \cup {n}
  BY <1>3
<1>. HIDE DEF n
<1>5. YieldAddsUp'
  <2>. DEFINE S == DOMAIN positions
              f == Yields
              k == Yields'
  <2>1. \A i \in S : f[i] \in Nat /\ k[i] = f[i]
    BY <1>3, <1>4 DEF Yields
  <2>2. k[n] = 0
    BY <1>2, <1>3, <1>4 DEF Yields
  <2>3. IsFiniteSet(S) /\ n \notin S
    <3>1. S = 1 .. Len(positions) /\ Len(positions) \in Nat
      BY <1>3
    <3> QED
      BY <1>4, <3>1, FS_Interval
  <2>4. (DOMAIN positions)' = S \cup {n}
    BY <1>4
  <2>5. total_yield_realised' = SumOf(f, S)
    BY <1>1 DEF YieldAddsUp
  <2>. HIDE DEF S, f, k
  <2>6. SumOf(k, S \cup {n}) = SumOf(f, S) + 0
    BY <2>1, <2>2, <2>3, SumJoins
  <2>7. SumOf(f, S) \in Nat
    BY <2>1, <2>3, SumType
  <2> QED
    BY <2>4, <2>5, <2>6, <2>7 DEF YieldAddsUp, k
<1>6. total_yield_realised' \in 0 .. U256 - 1
  BY <1>1 DEF VaultTypeOK
<1> QED
  BY <1>1, <1>2, <1>3, <1>5, <1>6, BookKeepsRest

\* A yield goes to one position and to the total.
LEMMA YieldStep ==
  ASSUME VaultInv, NEW caller \in Accounts, NEW id, NEW amount \in Amounts,
         RecordYieldRealised(caller, id, amount)
  PROVE  VaultInv'
<1>1. /\ VaultTypeOK /\ YieldAddsUp
      /\ total_yield_realised + amount < U256
      /\ total_yield_realised' = total_yield_realised + amount
      /\ UNCHANGED <<agents, position_count, journal, custody>>
  BY DEF RecordYieldRealised, VaultInv, CustodyBalances
<1>2. PICK i \in DOMAIN positions :
        positions' = [positions EXCEPT ![i] = WithYield(positions[i], amount)]
  BY DEF RecordYieldRealised
<1>3. /\ amount \in Nat /\ positions[i] \in Position
      /\ \A j \in DOMAIN positions : positions[j].realised_yield \in Nat
      /\ positions \in Seq(Position) /\ DOMAIN positions = 1 .. Len(positions)
      /\ Len(positions) \in Nat /\ total_yield_realised \in Nat
  BY <1>1, AmountsAssumption, VaultTypes
<1>. DEFINE p == WithYield(positions[i], amount)
<1>4. p \in Position /\ p.realised_yield = positions[i].realised_yield + amount
  <2>. DEFINE q == positions[i]
  <2>1. q \in [id : Nat, amount : Amounts, realised_yield : Nat] /\ amount \in Nat
    BY <1>3 DEF Position
  <2>. HIDE DEF q
  <2>2. WithYield(q, amount) = [q EXCEPT !.realised_yield = q.realised_yield + amount]
    BY DEF WithYield
  <2>3. q.realised_yield + amount \in Nat
    BY <2>1
  <2> QED
    BY <2>1, <2>2, <2>3 DEF Position, q
<1>. HIDE DEF p
<1>5. /\ positions' \in Seq(Position) /\ DOMAIN positions' = DOMAIN positions
      /\ positions'[i] = p /\ \A j \in DOMAIN positions \ {i} : positions'[j] = positions[j]
  <2>1. positions' = [positions EXCEPT ![i] = p]
    BY <1>2 DEF p
  <2>2. /\ positions' \in Seq(Position) /\ Len(positions') = Len(positions)
        /\ \A j \in 1 .. Len(positions) : positions'[j] = IF j = i THEN p ELSE positions[j]
    BY <1>3, <1>4, <2>1, ExceptSeq
  <2> QED
    BY <1>3, <2>1, <2>2
<1>6. YieldAddsUp'
  <2>. DEFINE S == DOMAIN positions
              f == Yields
              k == Yields'
  <2>1. /\ \A j \in S : f[j] \in Nat
        /\ k[i] = f[i] + amount /\ k[i] \in Nat /\ i \in S
        /\ \A j \in S \ {i} : k[j] = f[j]
    BY <1>3, <1>4, <1>5 DEF Yields
  <2>2. IsFiniteSet(S)
    BY <1>3, FS_Interval
  <2>3. total_yield_realised = SumOf(f, S)
    BY <1>1 DEF YieldAddsUp
  <2>4. (DOMAIN positions)' = S
    BY <1>5
  <2>. HIDE DEF S, f, k
  <2>5. amount \in Int
    BY <1>3
  <2>6. SumOf(k, S) = SumOf(f, S) + amount
    BY <2>1, <2>2, <2>5, SumGrows
  <2> QED
    BY <1>1, <2>3, <2>4, <2>6 DEF YieldAddsUp, k
<1>7. total_yield_realised' \in 0 .. U256 - 1 /\ position_count' \in Nat
  <2>1. position_count \in Nat
    BY <1>1 DEF VaultTypeOK
  <2> QED
    BY <1>1, <1>3, <2>1, BoundsAssumption
<1> QED
  BY <1>1, <1>5, <1>6, <1>7, BookKeepsRest

LEMMA VaultInductive == VaultInv /\ [VaultNext]_vaultVars => VaultInv'
<1>. SUFFICES ASSUME VaultInv, [VaultNext]_vaultVars PROVE VaultInv'
  OBVIOUS
<1>1. ASSUME UNCHANGED <<journal, custody, book>>, agents' \subseteq Accounts
      PROVE  VaultInv'
  <2>1. /\ custodied_cspr' \in 0 .. U256 - 1 /\ total_custodied' \in 0 .. U256 - 1
        /\ withdrawn' \in Nat /\ custodied_cspr' + withdrawn' = total_custodied'
    BY <1>1 DEF VaultInv, CustodyBalances, VaultTypeOK, custody
  <2> QED
    BY <1>1, <2>1, VaultQuietStep
<1>2. agents \subseteq Accounts
  BY DEF VaultInv, CustodyBalances, VaultTypeOK
<1>3. ASSUME NEW caller \in Accounts, NEW a \in Accounts,
             RegisterAgent(caller, a) \/ UnregisterAgent(caller, a)
      PROVE  VaultInv'
  BY <1>1, <1>2, <1>3 DEF RegisterAgent, UnregisterAgent
<1>4. CASE UNCHANGED vaultVars
  BY <1>1, <1>2, <1>4 DEF vaultVars
<1> QED
  BY <1>3, <1>4, CustodyStep, DecisionStep, OpenStep, YieldStep DEF VaultNext

LEMMA VaultHolds == VaultSpec => []VaultInv
  BY VaultInitInv, VaultInductive, PTL DEF VaultSpec

\* Whatever was custodied is still there or was withdrawn.
THEOREM CustodyStaysBalanced == VaultSpec => []CustodyBalances
<1>1. VaultInv => CustodyBalances
  BY DEF VaultInv
<1> QED
  BY <1>1, VaultHolds, PTL

\* The vault's realised yield is the sum of what its positions realised.
THEOREM YieldStaysAttributed == VaultSpec => []YieldIsAttributed
<1>1. VaultInv => YieldIsAttributed
  <2>. SUFFICES ASSUME VaultInv PROVE YieldIsAttributed
    OBVIOUS
  <2>1. IsFiniteSet(DOMAIN positions)
    <3>1. DOMAIN positions = 1 .. Len(positions) /\ Len(positions) \in Nat
      BY VaultTypes DEF VaultInv, CustodyBalances
    <3> QED
      BY <3>1, FS_Interval
  <2> QED
    BY <2>1, YieldIsSum DEF VaultInv, YieldAddsUp, YieldIsAttributed
<1> QED
  BY <1>1, VaultHolds, PTL

LEMMA GlobalStep ==
  ASSUME IsFiniteSet(Accounts)
  PROVE  VaultInv /\ GlobalAddsUp /\ [VaultNext]_vaultVars => GlobalAddsUp'
<1>. SUFFICES ASSUME VaultInv, GlobalAddsUp, [VaultNext]_vaultVars
              PROVE  GlobalAddsUp'
  OBVIOUS
<1>1. VaultTypeOK /\ reputation \in [Accounts -> Nat]
  BY VaultTypes DEF VaultInv, CustodyBalances
<1>2. ASSUME NEW caller \in Accounts, NEW amount \in Amounts, NEW outcome \in Outcomes,
             ExecuteStrategy(caller, amount, outcome)
      PROVE  GlobalAddsUp'
  <2>1. PICK log \in Decision :
          /\ reputation' = [reputation EXCEPT ![log.agent] = @ + log.reputation_delta]
          /\ reputation_global' = reputation_global + log.reputation_delta
    BY <1>1, <1>2, DecisionEffect
  <2>2. log.agent \in Accounts /\ log.reputation_delta \in Nat /\ log.reputation_delta \in Int
    BY DEF Decision
  <2>. DEFINE f == reputation
              k == reputation'
              a == log.agent
              d == log.reputation_delta
  <2>3. /\ \A x \in Accounts : f[x] \in Nat
        /\ k[a] = f[a] + d /\ k[a] \in Nat /\ \A x \in Accounts \ {a} : k[x] = f[x]
    BY <1>1, <2>1, <2>2
  <2>4. a \in Accounts /\ d \in Int
    BY <2>2
  <2>. HIDE DEF f, k, a, d
  <2>5. SumOf(k, Accounts) = SumOf(f, Accounts) + d
    BY <2>3, <2>4, SumGrows
  <2> QED
    BY <2>1, <2>5 DEF GlobalAddsUp, f, k, d
<1>3. ASSUME UNCHANGED journal
      PROVE  GlobalAddsUp'
  BY <1>3 DEF GlobalAddsUp, journal
<1> QED
  BY <1>2, <1>3 DEF VaultNext, vaultVars, RegisterAgent, UnregisterAgent, DepositForStrategy,
     WithdrawForStrategy, RecordStrategyExecution, RecordYieldRealised

\* The global reputation, the agents' own and the successes ever logged agree,
\* for finitely many accounts.
THEOREM ReputationStaysTrue ==
  ASSUME IsFiniteSet(Accounts)
  PROVE  VaultSpec => []ReputationAgrees
<1>1. VaultInit => GlobalAddsUp
  BY SumOfZeros DEF VaultInit, GlobalAddsUp
<1>2. VaultInv /\ GlobalAddsUp /\ [VaultNext]_vaultVars => VaultInv' /\ GlobalAddsUp'
  BY VaultInductive, GlobalStep
<1>3. VaultInv /\ GlobalAddsUp => ReputationAgrees
  BY DEF VaultInv, SuccessesCounted, Successes, Succeeded, GlobalAddsUp, SumOf, ReputationAgrees
<1> QED
  BY <1>1, <1>2, <1>3, VaultInitInv, PTL DEF VaultSpec

\* Read whole, the decision log is the window of the latest entries: a call
\* records one decision at its end or leaves it alone.
THEOREM LogRefinement == VaultSpec => ImplementsWindow
<1>. DEFINE ShowsLatest == get_decision_log(Cap) = LastN(history, Cap)
<1>1. VaultInv => ShowsLatest
  <2>. SUFFICES ASSUME VaultInv PROVE ShowsLatest
    OBVIOUS
  <2>1. /\ VaultTypeOK /\ HoldsLatest(decision_log, decision_head, history, Cap)
        /\ Cap \in Nat /\ AtMost(Cap, Cap) = Cap
    BY LogCapPositive DEF VaultInv, CustodyBalances, LogHoldsLatest, AtMost
  <2> QED
    BY <2>1, RingView, VaultTypes DEF get_decision_log
<1>2. VaultInit => Window!Init
  <2>. SUFFICES ASSUME VaultInit PROVE get_decision_log(Cap) = << >>
    BY DEF Window!Init
  <2>1. decision_log = << >> /\ Len(decision_log) = 0 /\ Cap > 0 /\ Cap \in Nat
    BY LogCapPositive DEF VaultInit
  <2>2. get_decision_log(Cap) = SubSeq(decision_log, 1, 0)
    BY <2>1 DEF get_decision_log, Recent, AtMost
  <2> QED
    BY <2>1, <2>2
<1>3. VaultInv /\ ShowsLatest /\ ShowsLatest' /\ [VaultNext]_vaultVars
        => [Window!Next]_(get_decision_log(Cap))
  <2>. SUFFICES ASSUME VaultInv, ShowsLatest, ShowsLatest', [VaultNext]_vaultVars
                PROVE  [Window!Next]_(get_decision_log(Cap))
    OBVIOUS
  <2>1. ASSUME NEW caller \in Accounts, NEW amount \in Amounts, NEW outcome \in Outcomes,
               ExecuteStrategy(caller, amount, outcome)
        PROVE  Window!Next
    <3>1. VaultTypeOK
      BY DEF VaultInv, CustodyBalances
    <3>2. PICK log \in Decision : history' = Append(history, log)
      BY <2>1, <3>1, DecisionEffect
    <3>3. /\ get_decision_log(Cap) = LastN(history, Cap)
          /\ get_decision_log(Cap)' = LastN(history', Cap)
      BY DEF Cap
    <3>4. LastN(Append(history, log), Cap) = LastN(Append(LastN(history, Cap), log), Cap)
      BY <3>1, VaultTypes, WindowMoves
    <3>5. Window!Record(log)
      BY <3>2, <3>3, <3>4 DEF Window!Record, Window!LastN, Window!AtMost, LastN, AtMost
    <3> QED
      BY <3>5 DEF Window!Next
  <2>2. ASSUME UNCHANGED journal
        PROVE  UNCHANGED get_decision_log(Cap)
    BY <2>2 DEF journal, get_decision_log, Cap
  <2> QED
    BY <2>1, <2>2 DEF VaultNext, vaultVars, RegisterAgent, UnregisterAgent, DepositForStrategy,
       WithdrawForStrategy, RecordStrategyExecution, RecordYieldRealised
<1>. HIDE DEF ShowsLatest
<1> QED
  BY <1>1, <1>2, <1>3, VaultHolds, PTL DEF VaultSpec, ImplementsWindow, Window!Spec

-----------------------------------------------------------------------------
(***************************************************************************)
(* The agent's file.                                                       *)
(***************************************************************************)
\* What is active was deposited, what was deposited is active or withdrawn.
Whole(s) ==
  /\ s.stakeholderActiveMotes <= s.stakeholderTotalMotes
  /\ s.stakeholderTotalMotes <= s.stakeholderActiveMotes + s.stakeholderWithdrawnMotes

\* No counter of s exceeds that of t.
Below(s, t) == \A f \in DOMAIN defaultState : s[f] <= t[f]

\* A copy of the counters that is in order.
Sound(s) == s \in State /\ Whole(s) /\ Below(s, offered)

\* All copies are: the two halves that hold whatever the processes do.
CopiesSound ==
  /\ \A p \in Processes : Sound(cache[p])
  /\ Sound(main.loads) /\ Sound(tmp.loads)

Saving(p) == pc[p] \in {"writing", "renaming"}

\* Who is in save recorded something, and remembers what.
SavesKnown == \A p \in Processes : Saving(p) => p \in writers /\ todo[p] \in Records

\* The one writer's save: where its text is, and what it will have saved.
SaveInOrder(w) ==
  /\ pc[w] = "writing" => handle[w] = "tmp" /\ tmp = Empty
  /\ pc[w] = "renaming" => tmp = Text(cache[w])
  /\ gap # "dropped" =>
       /\ pc[w] = "up" => cache[w] = truth
       /\ Saving(w) => cache[w] = Applied(truth, todo[w])

\* Nobody recorded yet.
Untouched ==
  /\ gap = "none" /\ truth = defaultState /\ main.loads = truth
  /\ \A p \in Processes : cache[p] = defaultState

\* Only w ever recorded.
Alone(w) == SaveInOrder(w) /\ (gap = "none" => main.loads = truth)

WriterInOrder ==
  /\ writers = {} => Untouched
  /\ \A w \in Processes : writers = {w} => Alone(w)

IInv == TypeOK /\ CopiesSound /\ SavesKnown /\ WriterInOrder

-----------------------------------------------------------------------------
(***************************************************************************)
(* The counters.                                                           *)
(***************************************************************************)
\* The names of the counters, of a state and of the sums of all records.
LEMMA Fields ==
  /\ DOMAIN defaultState =
       {"positionsOpened", "positionsRealised", "yieldRealisedMotes", "custodianMotes",
        "stakeholderDeposits", "stakeholderActiveMotes", "stakeholderTotalMotes",
        "stakeholderWithdrawnMotes"}
  /\ \A s \in State : DOMAIN s = DOMAIN defaultState
  /\ \A s \in State : \A f \in DOMAIN defaultState : s[f] \in Nat
  BY DEF State, defaultState

LEMMA DefaultSound ==
  /\ defaultState \in State /\ Whole(defaultState)
  /\ \A f \in DOMAIN defaultState : defaultState[f] = 0
  /\ \A s \in State : Below(defaultState, s)
<1>1. defaultState \in State /\ Whole(defaultState)
  BY DEF defaultState, State, Whole
<1>2. \A f \in DOMAIN defaultState : defaultState[f] = 0
  BY Fields DEF defaultState
<1> QED
  BY <1>1, <1>2, Fields DEF Below

LEMMA RecordKinds ==
  ASSUME NEW r \in Records
  PROVE  /\ r.motes \in Nat
         /\ r.kind \in {"position opened", "reset", "custodian deposit",
                        "custodian withdrawal", "yield claimed", "stakeholder deposit",
                        "stakeholder withdrawal"}
<1>. DEFINE free  == {"position opened", "reset"}
            moved == {"custodian deposit", "custodian withdrawal", "yield claimed",
                      "stakeholder deposit", "stakeholder withdrawal"}
<1>1. CASE r \in [kind : free, motes : {0}]
  <2>1. r.kind \in free /\ r.motes = 0
    BY <1>1
  <2>2. 0 \in Nat
    OBVIOUS
  <2> QED
    BY <2>1, <2>2, Zenon
<1>2. CASE r \in [kind : moved, motes : Motes]
  <2>1. r.kind \in moved /\ r.motes \in Motes
    BY <1>2
  <2> QED
    BY <2>1, MotesAssumption
<1> QED
  BY <1>1, <1>2 DEF Records

\* The record functions that change several counters, counter by counter.
LEMMA YieldFields ==
  ASSUME NEW s \in State, NEW m \in Nat
  PROVE  /\ WithYieldClaimed(s, m) \in State
         /\ Whole(s) => Whole(WithYieldClaimed(s, m))
         /\ \A f \in DOMAIN defaultState :
              WithYieldClaimed(s, m)[f] = CASE f = "positionsRealised" -> s[f] + 1
                                            [] f = "yieldRealisedMotes" -> s[f] + m
                                            [] OTHER -> s[f]
<1>. DEFINE t == [s EXCEPT !.positionsRealised = @ + 1]
<1>1. t \in State /\ t.yieldRealisedMotes = s.yieldRealisedMotes
  BY DEF State
<1>2. WithYieldClaimed(s, m) = [t EXCEPT !.yieldRealisedMotes = @ + m]
  BY DEF State, WithYieldClaimed
<1>. HIDE DEF t
<1>3. [t EXCEPT !.yieldRealisedMotes = @ + m] \in State
  BY <1>1 DEF State
<1>4. \A f \in DOMAIN s :
         WithYieldClaimed(s, m)[f] = CASE f = "positionsRealised" -> s[f] + 1
                                       [] f = "yieldRealisedMotes" -> s[f] + m
                                       [] OTHER -> s[f]
  BY DEF State, WithYieldClaimed
<1>5. Whole(s) => Whole(WithYieldClaimed(s, m))
  BY DEF Whole, State, WithYieldClaimed
<1> QED
  BY <1>5, <1>2, <1>3, <1>4, Fields

LEMMA DepositFields ==
  ASSUME NEW s \in State, NEW m \in Nat
  PROVE  /\ WithStakeholderDeposit(s, m) \in State
         /\ Whole(s) => Whole(WithStakeholderDeposit(s, m))
         /\ \A f \in DOMAIN defaultState :
              WithStakeholderDeposit(s, m)[f] =
                CASE f = "stakeholderDeposits" -> s[f] + 1
                  [] f \in {"stakeholderActiveMotes", "stakeholderTotalMotes"} -> s[f] + m
                  [] OTHER -> s[f]
<1>. DEFINE t == [s EXCEPT !.stakeholderDeposits = @ + 1]
            u == [t EXCEPT !.stakeholderActiveMotes = @ + m]
<1>1. /\ t \in State /\ t.stakeholderActiveMotes = s.stakeholderActiveMotes
      /\ t.stakeholderTotalMotes = s.stakeholderTotalMotes
  BY DEF State
<1>2. WithStakeholderDeposit(s, m) = [u EXCEPT !.stakeholderTotalMotes = @ + m]
  BY DEF State, WithStakeholderDeposit
<1>. HIDE DEF t
<1>3. u \in State
  BY <1>1 DEF State
<1>. HIDE DEF u
<1>4. [u EXCEPT !.stakeholderTotalMotes = @ + m] \in State
  BY <1>3 DEF State
<1>5. \A f \in DOMAIN s :
         WithStakeholderDeposit(s, m)[f] =
           CASE f = "stakeholderDeposits" -> s[f] + 1
             [] f \in {"stakeholderActiveMotes", "stakeholderTotalMotes"} -> s[f] + m
             [] OTHER -> s[f]
  BY DEF State, WithStakeholderDeposit
<1>6. Whole(s) => Whole(WithStakeholderDeposit(s, m))
  BY DEF Whole, State, WithStakeholderDeposit
<1> QED
  BY <1>6, <1>2, <1>4, <1>5, Fields

LEMMA WithdrawalFields ==
  ASSUME NEW s \in State, NEW m \in Nat
  PROVE  /\ WithStakeholderWithdrawal(s, m) \in State
         /\ Whole(s) => Whole(WithStakeholderWithdrawal(s, m))
         /\ \A f \in DOMAIN defaultState :
              WithStakeholderWithdrawal(s, m)[f] =
                CASE f = "stakeholderActiveMotes" -> Minus(s[f], m)
                  [] f = "stakeholderWithdrawnMotes" -> s[f] + m
                  [] OTHER -> s[f]
<1>. DEFINE t == [s EXCEPT !.stakeholderActiveMotes = Minus(@, m)]
<1>1. t \in State /\ t.stakeholderWithdrawnMotes = s.stakeholderWithdrawnMotes
  BY DEF State, Minus
<1>2. WithStakeholderWithdrawal(s, m) = [t EXCEPT !.stakeholderWithdrawnMotes = @ + m]
  BY DEF State, WithStakeholderWithdrawal
<1>. HIDE DEF t
<1>3. [t EXCEPT !.stakeholderWithdrawnMotes = @ + m] \in State
  BY <1>1 DEF State
<1>4. \A f \in DOMAIN s :
         WithStakeholderWithdrawal(s, m)[f] =
           CASE f = "stakeholderActiveMotes" -> Minus(s[f], m)
             [] f = "stakeholderWithdrawnMotes" -> s[f] + m
             [] OTHER -> s[f]
  BY DEF State, WithStakeholderWithdrawal
<1>5. Whole(s) => Whole(WithStakeholderWithdrawal(s, m))
  BY DEF Whole, State, WithStakeholderWithdrawal, Minus
<1> QED
  BY <1>5, <1>2, <1>3, <1>4, Fields

\* A record function makes a state of a state, keeps it whole, and adds to no
\* counter more than it adds to an empty one.
LEMMA AppliedSound ==
  ASSUME NEW s \in State, NEW r \in Records
  PROVE  /\ Applied(s, r) \in State
         /\ Whole(s) => Whole(Applied(s, r))
         /\ \A f \in DOMAIN defaultState : Applied(s, r)[f] <= s[f] + Applied(defaultState, r)[f]
<1>. DEFINE m == r.motes
            d == defaultState
            Fine(t, u) == /\ t \in State
                          /\ Whole(s) => Whole(t)
                          /\ \A f \in DOMAIN d : t[f] <= s[f] + u[f]
<1>0. /\ m \in Nat /\ d \in State
      /\ \A f \in DOMAIN d : s[f] \in Nat /\ d[f] = 0
  BY RecordKinds, Fields, DefaultSound
<1>1. CASE r.kind = "custodian deposit"
  <2>1. Applied(s, r) = WithCustodianDeposit(s, m) /\ Applied(d, r) = WithCustodianDeposit(d, m)
    BY <1>1 DEF Applied
  <2>2. Fine(WithCustodianDeposit(s, m), WithCustodianDeposit(d, m))
    BY <1>0, Fields DEF WithCustodianDeposit, defaultState, Minus, Whole, State
  <2> QED
    BY <2>1, <2>2
<1>2. CASE r.kind = "custodian withdrawal"
  <2>1. Applied(s, r) = WithCustodianWithdraw(s, m) /\ Applied(d, r) = WithCustodianWithdraw(d, m)
    BY <1>2 DEF Applied
  <2>2. Fine(WithCustodianWithdraw(s, m), WithCustodianWithdraw(d, m))
    BY <1>0, Fields DEF WithCustodianWithdraw, defaultState, Minus, Whole, State
  <2> QED
    BY <2>1, <2>2
<1>3. CASE r.kind = "position opened"
  <2>1. Applied(s, r) = WithPositionOpened(s) /\ Applied(d, r) = WithPositionOpened(d)
    BY <1>3 DEF Applied
  <2>2. Fine(WithPositionOpened(s), WithPositionOpened(d))
    BY <1>0, Fields DEF WithPositionOpened, defaultState, Whole, State
  <2> QED
    BY <2>1, <2>2
<1>4. CASE r.kind = "yield claimed"
  <2>1. Applied(s, r) = WithYieldClaimed(s, m) /\ Applied(d, r) = WithYieldClaimed(d, m)
    BY <1>4 DEF Applied
  <2>2. WithYieldClaimed(s, m) \in State /\ (Whole(s) => Whole(WithYieldClaimed(s, m)))
    BY <1>0, YieldFields
  <2>3. \A f \in DOMAIN d : WithYieldClaimed(s, m)[f] <= s[f] + WithYieldClaimed(d, m)[f]
    <3>. SUFFICES ASSUME NEW f \in DOMAIN d
                  PROVE  WithYieldClaimed(s, m)[f] <= s[f] + WithYieldClaimed(d, m)[f]
      OBVIOUS
    <3>. HIDE DEF m, d
    <3> QED
      BY <1>0, YieldFields DEF Minus, d
  <2> QED
    BY <2>1, <2>2, <2>3
<1>5. CASE r.kind = "stakeholder deposit"
  <2>1. /\ Applied(s, r) = WithStakeholderDeposit(s, m)
        /\ Applied(d, r) = WithStakeholderDeposit(d, m)
    BY <1>5 DEF Applied
  <2>2. WithStakeholderDeposit(s, m) \in State /\ (Whole(s) => Whole(WithStakeholderDeposit(s, m)))
    BY <1>0, DepositFields
  <2>3. \A f \in DOMAIN d : WithStakeholderDeposit(s, m)[f] <= s[f] + WithStakeholderDeposit(d, m)[f]
    <3>. SUFFICES ASSUME NEW f \in DOMAIN d
                  PROVE  WithStakeholderDeposit(s, m)[f] <= s[f] + WithStakeholderDeposit(d, m)[f]
      OBVIOUS
    <3>. HIDE DEF m, d
    <3> QED
      BY <1>0, DepositFields DEF Minus, d
  <2> QED
    BY <2>1, <2>2, <2>3
<1>6. CASE r.kind = "stakeholder withdrawal"
  <2>1. /\ Applied(s, r) = WithStakeholderWithdrawal(s, m)
        /\ Applied(d, r) = WithStakeholderWithdrawal(d, m)
    BY <1>6 DEF Applied
  <2>2. WithStakeholderWithdrawal(s, m) \in State /\ (Whole(s) => Whole(WithStakeholderWithdrawal(s, m)))
    BY <1>0, WithdrawalFields
  <2>3. \A f \in DOMAIN d : WithStakeholderWithdrawal(s, m)[f] <= s[f] + WithStakeholderWithdrawal(d, m)[f]
    <3>. SUFFICES ASSUME NEW f \in DOMAIN d
                  PROVE  WithStakeholderWithdrawal(s, m)[f] <= s[f] + WithStakeholderWithdrawal(d, m)[f]
      OBVIOUS
    <3>. HIDE DEF m, d
    <3>1. s[f] \in Nat /\ d[f] = 0 /\ m \in Nat
      BY <1>0
    <3>2. CASE f = "stakeholderActiveMotes"
      <4>1. /\ WithStakeholderWithdrawal(s, m)[f] = Minus(s[f], m)
            /\ WithStakeholderWithdrawal(d, m)[f] = Minus(d[f], m)
        BY <1>0, <3>2, WithdrawalFields DEF d
      <4> QED
        BY <3>1, <4>1 DEF Minus
    <3>3. CASE f # "stakeholderActiveMotes"
      BY <1>0, <3>3, WithdrawalFields DEF d
    <3> QED
      BY <3>2, <3>3
  <2> QED
    BY <2>1, <2>2, <2>3
<1>7. CASE r.kind = "reset"
  <2>1. Applied(s, r) = d /\ Applied(d, r) = d
    BY <1>7 DEF Applied
  <2>2. Fine(d, d)
    BY <1>0, DefaultSound DEF Fine
  <2> QED
    BY <2>1, <2>2
<1> QED
  BY <1>1, <1>2, <1>3, <1>4, <1>5, <1>6, <1>7, RecordKinds
-----------------------------------------------------------------------------
(***************************************************************************)
(* The invariant.                                                          *)
(***************************************************************************)
LEMMA ContentTypes ==
  /\ Missing \in Content /\ Empty \in Content /\ Garbled \in Content
  /\ \A s \in State : Text(s) \in Content /\ Text(s).loads = s
  /\ Missing.loads = defaultState /\ Empty.loads = defaultState
  /\ Garbled.loads = defaultState
  /\ \A c \in Content : c.loads \in State
  /\ Empty # Missing
  BY DefaultSound DEF Missing, Empty, Garbled, Text, Content, Unreadable

LEMMA InitInv == Init => IInv
<1>. SUFFICES ASSUME Init PROVE IInv
  OBVIOUS
<1>. USE DEF Init
<1>1. TypeOK
  <2>1. /\ pc \in [Processes -> {"down", "up", "writing", "renaming"}]
        /\ handle \in [Processes -> {"none", "tmp", "main", "gone"}]
        /\ \A p \in Processes : handle[p] # "none" <=> pc[p] = "writing"
    OBVIOUS
  <2>2. /\ cache \in [Processes -> State] /\ truth \in State /\ offered \in State
        /\ todo \in [Processes -> Records \cup {NoRecord}]
    BY DefaultSound
  <2>3. main \in Content /\ tmp \in Content
    BY ContentTypes
  <2>4. records \in 0 .. MaxRecords /\ writers \subseteq Processes /\ gap \in Gaps
    BY BoundAssumption DEF Gaps
  <2> QED
    BY <2>1, <2>2, <2>3, <2>4 DEF TypeOK
<1>2. CopiesSound
  <2>1. Sound(defaultState)
    BY DefaultSound DEF Sound
  <2> QED
    BY <2>1, ContentTypes DEF CopiesSound
<1>3. SavesKnown
  BY DEF SavesKnown, Saving
<1>4. WriterInOrder
  <2>1. Untouched
    BY ContentTypes DEF Untouched
  <2> QED
    BY <2>1 DEF WriterInOrder
<1> QED
  BY <1>1, <1>2, <1>3, <1>4 DEF IInv

\* The file is read back: into the cache of the writer only when it agrees, or
\* the counters are dropped.
LEMMA RereadStep ==
  ASSUME IInv, NEW p \in Processes, Start(p) \/ Reload(p)
  PROVE  IInv'
<1>1. /\ TypeOK /\ CopiesSound /\ SavesKnown /\ WriterInOrder
      /\ pc[p] \in {"down", "up"} /\ pc' = [pc EXCEPT ![p] = "up"]
      /\ cache' = [cache EXCEPT ![p] = main.loads]
      /\ gap' = IF gap = "unsaved" /\ p \in writers THEN "dropped" ELSE gap
      /\ UNCHANGED <<todo, handle, main, tmp, records, truth, offered, writers>>
  BY DEF IInv, Start, Reload, Reread, files, TypeOK
<1>2. TypeOK'
  <2>1. main.loads \in State
    BY <1>1, ContentTypes DEF TypeOK
  <2>2. pc' \in [Processes -> {"down", "up", "writing", "renaming"}] /\ gap' \in Gaps
    BY <1>1 DEF TypeOK, Gaps
  <2>3. \A q \in Processes : handle'[q] # "none" <=> pc'[q] = "writing"
    BY <1>1 DEF TypeOK
  <2>4. cache' \in [Processes -> State]
    BY <1>1, <2>1 DEF TypeOK
  <2> QED
    BY <1>1, <2>2, <2>3, <2>4 DEF TypeOK
<1>3. CopiesSound'
  <2>1. \A q \in Processes : cache'[q] \in {cache[q], main.loads}
    BY <1>1 DEF TypeOK
  <2> QED
    BY <1>1, <2>1 DEF CopiesSound, Sound, Below
<1>4. SavesKnown'
  BY <1>1 DEF SavesKnown, Saving, TypeOK
<1>5. WriterInOrder'
  <2>1. writers' = {} => Untouched'
    BY <1>1 DEF WriterInOrder, Untouched, TypeOK
  <2>2. ASSUME NEW w \in Processes, writers' = {w}
        PROVE  Alone(w)'
    <3>1. Alone(w) /\ writers = {w}
      BY <1>1, <2>2 DEF WriterInOrder
    <3>2. CASE w # p
      BY <1>1, <3>1, <3>2 DEF Alone, SaveInOrder, Saving, TypeOK, Text
    <3>3. CASE w = p
      BY <1>1, <3>1, <3>3 DEF Alone, SaveInOrder, Saving, TypeOK, Gaps
    <3> QED
      BY <3>2, <3>3
  <2> QED
    BY <2>1, <2>2 DEF WriterInOrder
<1> QED
  BY <1>2, <1>3, <1>4, <1>5 DEF IInv

\* A record is offered to the cache of p.
LEMMA ChangedEffect ==
  ASSUME IInv, NEW p \in Processes, NEW r \in Records, Changed(p, r)
  PROVE  /\ offered' \in State /\ records' \in 0 .. MaxRecords
         /\ cache' \in [Processes -> State] /\ Applied(truth, r) \in State
         /\ cache'[p] = Applied(cache[p], r)
         /\ \A q \in Processes \ {p} : cache'[q] = cache[q]
         /\ \A q \in Processes : Sound(cache[q])'
         /\ \A s \in State : Sound(s) => s \in State /\ Whole(s) /\ Below(s, offered')
<1>1. TypeOK /\ CopiesSound /\ pc[p] = "up" /\ records < MaxRecords
  BY DEF IInv, Changed
<1>. DEFINE added == Applied(defaultState, r)
<1>2. added \in State
  BY AppliedSound, DefaultSound
<1>. HIDE DEF added
<1>3. offered' = [f \in DOMAIN offered |-> offered[f] + added[f]]
  BY DEF Changed, added
<1>4. offered \in State /\ truth \in State /\ cache \in [Processes -> State]
  BY <1>1 DEF TypeOK
<1>5. offered' \in State
  BY <1>2, <1>3, <1>4 DEF State
<1>6. /\ \A f \in DOMAIN defaultState : offered'[f] = offered[f] + added[f]
      /\ \A f \in DOMAIN defaultState : offered[f] \in Nat /\ added[f] \in Nat
  BY <1>2, <1>3, <1>4, Fields
<1>7. ASSUME NEW s \in State, Below(s, offered)
      PROVE  Below(s, offered')
  BY <1>6, <1>7, Fields DEF Below
<1>8. /\ cache'[p] = Applied(cache[p], r)
      /\ \A q \in Processes \ {p} : cache'[q] = cache[q]
      /\ cache' \in [Processes -> State]
  <2>1. cache' = [cache EXCEPT ![p] = Applied(cache[p], r)]
    BY DEF Changed
  <2>2. Applied(cache[p], r) \in State
    BY <1>4, AppliedSound
  <2> QED
    BY <1>4, <2>1, <2>2
<1>9. Sound(cache[p])'
  <2>. DEFINE s == cache[p]
              t == Applied(s, r)
  <2>1. s \in State /\ Whole(s) /\ Below(s, offered)
    BY <1>1 DEF CopiesSound, Sound
  <2>2. /\ t \in State /\ Whole(t)
        /\ \A f \in DOMAIN defaultState : t[f] <= s[f] + added[f]
    BY <2>1, AppliedSound DEF added
  <2>. HIDE DEF s, t
  <2>3. \A f \in DOMAIN defaultState : s[f] \in Nat /\ t[f] \in Nat
    BY <2>1, <2>2, Fields
  <2>4. Below(t, offered')
    BY <1>6, <2>1, <2>2, <2>3 DEF Below
  <2> QED
    BY <1>8, <2>2, <2>4 DEF Sound, s, t
<1>10. \A q \in Processes \ {p} : Sound(cache[q])'
  BY <1>1, <1>7, <1>8 DEF CopiesSound, Sound
<1>11. records' \in 0 .. MaxRecords
  BY <1>1, BoundAssumption DEF Changed, TypeOK
<1>12. Applied(truth, r) \in State
  BY <1>4, AppliedSound
<1> QED
  BY <1>5, <1>7, <1>8, <1>9, <1>10, <1>11, <1>12 DEF Sound

\* Whoever records when nobody else ever did has the truth in its cache.
LEMMA WriterKnows ==
  ASSUME IInv, NEW p \in Processes, NEW r, Changed(p, r), NEW w \in Processes, writers' = {w}
  PROVE  /\ w = p
         /\ gap # "dropped" => cache[p] = truth
         /\ gap = "none" => main.loads = truth
<1>1. w = p /\ (writers = {} \/ writers = {p}) /\ pc[p] = "up"
  BY DEF Changed
<1>2. Untouched \/ Alone(p)
  BY <1>1 DEF IInv, WriterInOrder
<1> QED
  BY <1>1, <1>2 DEF Untouched, Alone, SaveInOrder

LEMMA RecordStep ==
  ASSUME IInv, NEW p \in Processes, NEW r \in Records, Record(p, r)
  PROVE  IInv'
<1>1. /\ TypeOK /\ CopiesSound /\ SavesKnown
      /\ Changed(p, r)
      /\ pc' = [pc EXCEPT ![p] = "writing"]
      /\ todo' = [todo EXCEPT ![p] = r]
      /\ handle' = [handle EXCEPT ![p] = "tmp"]
      /\ tmp' = Empty
      /\ UNCHANGED <<main, truth, gap>>
      /\ writers' = writers \cup {p}
  BY DEF IInv, Record, Changed
<1>2. /\ offered' \in State /\ records' \in 0 .. MaxRecords
      /\ cache' \in [Processes -> State]
      /\ cache'[p] = Applied(cache[p], r)
      /\ \A q \in Processes : Sound(cache[q])'
      /\ \A s \in State : Sound(s) => s \in State /\ Whole(s) /\ Below(s, offered')
  BY <1>1, ChangedEffect
<1>3. TypeOK'
  <2>1. /\ pc' \in [Processes -> {"down", "up", "writing", "renaming"}]
        /\ handle' \in [Processes -> {"none", "tmp", "main", "gone"}]
        /\ \A q \in Processes : handle'[q] # "none" <=> pc'[q] = "writing"
    BY <1>1 DEF TypeOK
  <2>2. todo' \in [Processes -> Records \cup {NoRecord}] /\ writers' \subseteq Processes
    BY <1>1 DEF TypeOK
  <2> QED
    BY <1>1, <1>2, <2>1, <2>2, ContentTypes DEF TypeOK
<1>4. CopiesSound'
  <2>1. main.loads \in State /\ Sound(main.loads)
    BY <1>1, ContentTypes DEF TypeOK, CopiesSound
  <2>2. Sound(main.loads)'
    BY <1>1, <1>2, <2>1 DEF Sound
  <2>3. Sound(tmp.loads)'
    BY <1>1, <1>2, ContentTypes, DefaultSound DEF Sound
  <2> QED
    BY <1>2, <2>2, <2>3 DEF CopiesSound
<1>5. SavesKnown'
  BY <1>1 DEF SavesKnown, Saving, TypeOK
<1>6. WriterInOrder'
  <2>1. ASSUME NEW w \in Processes, writers' = {w}
        PROVE  Alone(w)'
    <3>1. /\ w = p
          /\ gap # "dropped" => cache[p] = truth
          /\ gap = "none" => main.loads = truth
      BY <1>1, <2>1, WriterKnows
    <3>2. pc'[p] = "writing" /\ handle'[p] = "tmp" /\ todo'[p] = r
      BY <1>1 DEF TypeOK
    <3>3. gap' # "dropped" => cache'[p] = Applied(truth', todo'[p])
      BY <1>1, <1>2, <3>1, <3>2
    <3> QED
      BY <1>1, <3>1, <3>2, <3>3 DEF Alone, SaveInOrder, Saving
  <2> QED
    BY <1>1, <2>1 DEF WriterInOrder
<1> QED
  BY <1>3, <1>4, <1>5, <1>6 DEF IInv

LEMMA RecordUnsavedStep ==
  ASSUME IInv, NEW p \in Processes, NEW r \in Records, RecordUnsaved(p, r)
  PROVE  IInv'
<1>1. /\ TypeOK /\ CopiesSound /\ SavesKnown
      /\ Changed(p, r) /\ pc[p] = "up"
      /\ truth' = Applied(truth, r)
      /\ gap' = IF gap = "dropped" THEN gap ELSE "unsaved"
      /\ UNCHANGED <<pc, todo, handle, main, tmp>>
      /\ writers' = writers \cup {p}
  BY DEF IInv, RecordUnsaved, Changed, Swallow, files
<1>2. /\ offered' \in State /\ records' \in 0 .. MaxRecords
      /\ cache' \in [Processes -> State] /\ Applied(truth, r) \in State
      /\ cache'[p] = Applied(cache[p], r)
      /\ \A q \in Processes : Sound(cache[q])'
      /\ \A s \in State : Sound(s) => s \in State /\ Whole(s) /\ Below(s, offered')
  BY <1>1, ChangedEffect
<1>3. TypeOK'
  <2>1. writers' \subseteq Processes /\ gap' \in Gaps
    BY <1>1 DEF TypeOK, Gaps
  <2> QED
    BY <1>1, <1>2, <2>1 DEF TypeOK
<1>4. CopiesSound'
  <2>1. /\ main.loads \in State /\ Sound(main.loads)
        /\ tmp.loads \in State /\ Sound(tmp.loads)
    BY <1>1, ContentTypes DEF TypeOK, CopiesSound
  <2> QED
    BY <1>1, <1>2, <2>1 DEF CopiesSound, Sound
<1>5. SavesKnown'
  BY <1>1 DEF SavesKnown, Saving
<1>6. WriterInOrder'
  <2>1. ASSUME NEW w \in Processes, writers' = {w}
        PROVE  Alone(w)'
    <3>1. w = p /\ (gap # "dropped" => cache[p] = truth)
      BY <1>1, <2>1, WriterKnows
    <3>2. gap' # "none" /\ (gap' # "dropped" => cache'[p] = truth')
      BY <1>1, <1>2, <3>1
    <3> QED
      BY <1>1, <3>1, <3>2 DEF Alone, SaveInOrder, Saving
  <2> QED
    BY <1>1, <2>1 DEF WriterInOrder
<1> QED
  BY <1>3, <1>4, <1>5, <1>6 DEF IInv

\* A write over something else may leave a file that does not parse.
LEMMA OverwrittenContent ==
  ASSUME NEW c, NEW s \in State, Sound(s), NEW d \in Overwritten(c, s), offered \in State
  PROVE  d \in Content /\ Sound(d.loads) /\ (c = Empty => d = Text(s))
<1>1. Sound(defaultState)
  BY DefaultSound DEF Sound
<1>2. d = Text(s) \/ d = Garbled
  BY DEF Overwritten
<1> QED
  BY <1>1, <1>2, ContentTypes DEF Overwritten

LEMMA WriteStep ==
  ASSUME IInv, NEW p \in Processes, Write(p)
  PROVE  IInv'
<1>1. /\ TypeOK /\ CopiesSound /\ SavesKnown /\ WriterInOrder
      /\ pc[p] = "writing"
      /\ pc' = [pc EXCEPT ![p] = "renaming"]
      /\ handle' = [handle EXCEPT ![p] = "none"]
      /\ UNCHANGED <<cache, todo, records, truth, offered, writers, gap>>
  BY DEF IInv, Write, ghost
<1>2. cache[p] \in State /\ Sound(cache[p])
  BY <1>1 DEF TypeOK, CopiesSound
<1>3. /\ main' \in Content /\ tmp' \in Content
      /\ Sound(main'.loads) /\ Sound(tmp'.loads)
  <2>1. /\ main \in Content /\ tmp \in Content /\ Sound(main.loads) /\ Sound(tmp.loads)
        /\ offered \in State
    BY <1>1 DEF TypeOK, CopiesSound
  <2>2. tmp' = tmp \/ tmp' \in Overwritten(tmp, cache[p])
    BY DEF Write
  <2>3. main' = main \/ main' \in Overwritten(main, cache[p])
    BY DEF Write
  <2> QED
    BY <1>2, <2>1, <2>2, <2>3, OverwrittenContent
<1>4. TypeOK'
  <2>1. /\ pc' \in [Processes -> {"down", "up", "writing", "renaming"}]
        /\ handle' \in [Processes -> {"none", "tmp", "main", "gone"}]
        /\ \A q \in Processes : handle'[q] # "none" <=> pc'[q] = "writing"
    BY <1>1 DEF TypeOK
  <2> QED
    BY <1>1, <1>3, <2>1 DEF TypeOK
<1>5. CopiesSound'
  BY <1>1, <1>3 DEF CopiesSound, Sound
<1>6. SavesKnown'
  BY <1>1 DEF SavesKnown, Saving, TypeOK
<1>7. WriterInOrder'
  <2>1. ASSUME NEW w \in Processes, writers' = {w}
        PROVE  Alone(w)'
    <3>1. Alone(w) /\ w = p
      BY <1>1, <2>1 DEF WriterInOrder, SavesKnown, Saving
    <3>2. handle[p] = "tmp" /\ tmp = Empty
      BY <1>1, <3>1 DEF Alone, SaveInOrder
    <3>3. tmp' = Text(cache[p]) /\ UNCHANGED main
      BY <1>1, <1>2, <3>2, OverwrittenContent DEF Write, TypeOK
    <3>4. pc'[p] = "renaming"
      BY <1>1 DEF TypeOK
    <3> QED
      BY <1>1, <3>1, <3>3, <3>4 DEF Alone, SaveInOrder, Saving, Text
  <2>2. writers # {}
    BY <1>1 DEF SavesKnown, Saving
  <2> QED
    BY <1>1, <2>1, <2>2 DEF WriterInOrder
<1> QED
  BY <1>4, <1>5, <1>6, <1>7 DEF IInv

\* The function returns: what it recorded is part of the truth.
LEMMA ReturnTypes ==
  ASSUME IInv, NEW p \in Processes, Saving(p), Return(p)
  PROVE  /\ pc' \in [Processes -> {"down", "up", "writing", "renaming"}]
         /\ todo' \in [Processes -> Records \cup {NoRecord}]
         /\ truth' \in State /\ p \in writers /\ pc'[p] = "up"
         /\ \A q \in Processes \ {p} : pc'[q] = pc[q] /\ todo'[q] = todo[q]
<1>1. TypeOK /\ todo[p] \in Records /\ p \in writers
  BY DEF IInv, SavesKnown
<1>2. truth' \in State
  BY <1>1, AppliedSound DEF Return, TypeOK
<1> QED
  BY <1>1, <1>2 DEF Return, TypeOK

LEMMA RenameStep ==
  ASSUME IInv, NEW p \in Processes, Rename(p)
  PROVE  IInv'
<1>1. /\ TypeOK /\ CopiesSound /\ SavesKnown /\ WriterInOrder
      /\ pc[p] = "renaming" /\ Saving(p) /\ Return(p)
      /\ main' = tmp /\ tmp' = Missing
      /\ gap' = IF gap = "dropped" THEN gap ELSE "none"
      /\ UNCHANGED <<cache, records, offered, writers>>
  BY DEF IInv, Rename, Saving
<1>2. /\ pc' \in [Processes -> {"down", "up", "writing", "renaming"}]
      /\ todo' \in [Processes -> Records \cup {NoRecord}]
      /\ truth' \in State /\ p \in writers /\ pc'[p] = "up"
      /\ \A q \in Processes \ {p} : pc'[q] = pc[q] /\ todo'[q] = todo[q]
  BY <1>1, ReturnTypes
<1>3. TypeOK'
  <2>1. handle' = [q \in Processes |-> CASE handle[q] = "tmp"  -> "main"
                                         [] handle[q] = "main" -> "gone"
                                         [] OTHER              -> handle[q]]
    BY DEF Rename
  <2>2. \A q \in Processes : handle[q] \in {"none", "tmp", "main", "gone"}
    BY <1>1 DEF TypeOK
  <2>3. handle' \in [Processes -> {"none", "tmp", "main", "gone"}]
    BY <2>1, <2>2
  <2>4. \A q \in Processes : handle'[q] # "none" <=> handle[q] # "none"
    BY <2>1, <2>2
  <2>5. \A q \in Processes : handle'[q] # "none" <=> pc'[q] = "writing"
    BY <1>1, <1>2, <2>4 DEF TypeOK
  <2>6. gap' \in Gaps
    BY <1>1 DEF TypeOK, Gaps
  <2> QED
    BY <1>1, <1>2, <2>3, <2>5, <2>6, ContentTypes DEF TypeOK
<1>4. CopiesSound'
  <2>1. cache[p] \in State /\ Sound(cache[p])
    BY <1>1 DEF TypeOK, CopiesSound
  <2>2. Sound(defaultState)
    <3>1. offered \in State
      BY <1>1 DEF TypeOK
    <3> QED
      BY <3>1, DefaultSound DEF Sound
  <2> QED
    BY <1>1, <2>2, ContentTypes DEF CopiesSound, Sound
<1>5. SavesKnown'
  BY <1>1, <1>2 DEF SavesKnown, Saving
<1>6. WriterInOrder'
  <2>1. ASSUME NEW w \in Processes, writers' = {w}
        PROVE  Alone(w)'
    <3>1. Alone(w) /\ w = p
      BY <1>1, <1>2, <2>1 DEF WriterInOrder
    <3>2. tmp = Text(cache[p]) /\ (gap # "dropped" => cache[p] = Applied(truth, todo[p]))
      BY <1>1, <3>1 DEF Alone, SaveInOrder
    <3>3. cache[p] \in State /\ main'.loads = cache[p]
      BY <1>1, <3>2, ContentTypes DEF TypeOK
    <3>4. gap' # "dropped" => cache'[p] = truth'
      BY <1>1, <3>2 DEF Return
    <3> QED
      BY <1>1, <1>2, <3>1, <3>3, <3>4 DEF Alone, SaveInOrder, Saving
  <2> QED
    BY <1>1, <1>2, <2>1 DEF WriterInOrder
<1> QED
  BY <1>3, <1>4, <1>5, <1>6 DEF IInv

LEMMA SaveFailsStep ==
  ASSUME IInv, NEW p \in Processes, SaveFails(p)
  PROVE  IInv'
<1>1. /\ TypeOK /\ CopiesSound /\ SavesKnown /\ WriterInOrder
      /\ Saving(p) /\ Return(p)
      /\ handle' = [handle EXCEPT ![p] = "none"]
      /\ gap' = IF gap = "dropped" THEN gap ELSE "unsaved"
      /\ UNCHANGED <<cache, main, tmp, records, offered, writers>>
  BY DEF IInv, SaveFails, Saving, Swallow
<1>2. /\ pc' \in [Processes -> {"down", "up", "writing", "renaming"}]
      /\ todo' \in [Processes -> Records \cup {NoRecord}]
      /\ truth' \in State /\ p \in writers /\ pc'[p] = "up"
      /\ \A q \in Processes \ {p} : pc'[q] = pc[q] /\ todo'[q] = todo[q]
  BY <1>1, ReturnTypes
<1>3. TypeOK'
  <2>1. /\ handle' \in [Processes -> {"none", "tmp", "main", "gone"}] /\ gap' \in Gaps
        /\ \A q \in Processes : handle'[q] # "none" <=> pc'[q] = "writing"
    BY <1>1, <1>2 DEF TypeOK, Gaps
  <2> QED
    BY <1>1, <1>2, <2>1 DEF TypeOK
<1>4. CopiesSound'
  BY <1>1 DEF CopiesSound, Sound
<1>5. SavesKnown'
  BY <1>1, <1>2 DEF SavesKnown, Saving
<1>6. WriterInOrder'
  <2>1. ASSUME NEW w \in Processes, writers' = {w}
        PROVE  Alone(w)'
    <3>1. Alone(w) /\ w = p
      BY <1>1, <1>2, <2>1 DEF WriterInOrder
    <3>2. gap' # "none" /\ (gap' # "dropped" => cache'[p] = truth')
      BY <1>1, <3>1 DEF Alone, SaveInOrder, Return
    <3> QED
      BY <1>1, <1>2, <3>1, <3>2 DEF Alone, SaveInOrder, Saving
  <2> QED
    BY <1>1, <1>2, <2>1 DEF WriterInOrder
<1> QED
  BY <1>3, <1>4, <1>5, <1>6 DEF IInv

LEMMA CrashStep ==
  ASSUME IInv, NEW p \in Processes, Crash(p)
  PROVE  IInv'
<1>1. /\ TypeOK /\ CopiesSound /\ SavesKnown /\ WriterInOrder
      /\ pc' = [pc EXCEPT ![p] = "down"]
      /\ todo' = [todo EXCEPT ![p] = NoRecord]
      /\ handle' = [handle EXCEPT ![p] = "none"]
      /\ UNCHANGED <<cache, main, tmp, records, truth, offered, writers, gap>>
  BY DEF IInv, Crash, ghost
<1>2. TypeOK'
  <2>1. /\ pc' \in [Processes -> {"down", "up", "writing", "renaming"}]
        /\ todo' \in [Processes -> Records \cup {NoRecord}]
        /\ handle' \in [Processes -> {"none", "tmp", "main", "gone"}]
        /\ \A q \in Processes : handle'[q] # "none" <=> pc'[q] = "writing"
    BY <1>1 DEF TypeOK
  <2> QED
    BY <1>1, <2>1 DEF TypeOK
<1>3. CopiesSound'
  BY <1>1 DEF CopiesSound, Sound
<1>4. SavesKnown'
  BY <1>1 DEF SavesKnown, Saving, TypeOK
<1>5. WriterInOrder'
  <2>1. ASSUME NEW w \in Processes, writers' = {w}
        PROVE  Alone(w)'
    <3>1. Alone(w)
      BY <1>1, <2>1 DEF WriterInOrder
    <3>2. \/ w # p /\ pc'[w] = pc[w] /\ todo'[w] = todo[w] /\ handle'[w] = handle[w]
          \/ w = p /\ pc'[w] = "down"
      BY <1>1 DEF TypeOK
    <3> QED
      BY <1>1, <3>1, <3>2 DEF Alone, SaveInOrder, Saving, Text
  <2>2. writers' = {} => Untouched'
    BY <1>1 DEF WriterInOrder, Untouched
  <2> QED
    BY <2>1, <2>2 DEF WriterInOrder
<1> QED
  BY <1>2, <1>3, <1>4, <1>5 DEF IInv

LEMMA Inductive == Spec => []IInv
<1>1. IInv /\ [Next]_vars => IInv'
  <2>. SUFFICES ASSUME IInv, [Next]_vars PROVE IInv'
    OBVIOUS
  <2>1. CASE UNCHANGED vars
    BY <2>1 DEF IInv, TypeOK, CopiesSound, Sound, SavesKnown, Saving, WriterInOrder, Untouched,
       Alone, SaveInOrder, vars, files, ghost
  <2> QED
    BY <2>1, RereadStep, RecordStep, RecordUnsavedStep, WriteStep, RenameStep, SaveFailsStep,
       CrashStep DEF Next
<1> QED
  BY <1>1, InitInv, PTL DEF Spec

-----------------------------------------------------------------------------
\* No copy of the counters, in a cache or in a file, mixes two states, whatever
\* processes, crashes and failing saves do to each other.
THEOREM CopiesStayConsistent == Spec => []SnapshotsConsistent
<1>1. IInv => SnapshotsConsistent
  BY DEF IInv, CopiesSound, Sound, Whole, SnapshotsConsistent, Snapshots
<1> QED
  BY <1>1, Inductive, PTL

\* No record is counted twice in any copy, by a retry, a reload, a crash or
\* another process's rename.
THEOREM NothingIsInvented == Spec => []NothingInvented
<1>1. IInv => NothingInvented
  BY DEF IInv, CopiesSound, Sound, Below, NothingInvented, Snapshots
<1> QED
  BY <1>1, Inductive, PTL

\* While one process records, the file holds exactly what its calls have added
\* up to, at every moment and after every crash, and so does its cache.
THEOREM SoleWriterLosesNothing == Spec => []SoleWriterKeepsAll
<1>1. IInv => SoleWriterKeepsAll
  <2>. SUFFICES ASSUME IInv, Cardinality(writers) <= 1
                PROVE  /\ gap = "none" => main.loads = truth
                       /\ gap # "dropped" => \A p \in writers : pc[p] = "up" => cache[p] = truth
    BY DEF SoleWriterKeepsAll
  <2>1. writers \subseteq Processes /\ IsFiniteSet(writers)
    BY ProcessesAssumption, FS_Subset DEF IInv, TypeOK
  <2>2. ASSUME NEW w \in writers
        PROVE  writers = {w}
    <3>1. IsFiniteSet(writers \ {w}) /\ Cardinality(writers \ {w}) = Cardinality(writers) - 1
      BY <2>1, <2>2, FS_RemoveElement
    <3>2. Cardinality(writers \ {w}) = 0
      BY <2>1, <3>1, FS_CardinalityType
    <3>3. writers \ {w} = {}
      BY <3>1, <3>2, FS_EmptySet
    <3> QED
      BY <2>2, <3>3
  <2>3. WriterInOrder
    BY DEF IInv
  <2>4. CASE writers = {}
    BY <2>3, <2>4 DEF WriterInOrder, Untouched
  <2>5. ASSUME NEW w \in writers
        PROVE  writers = {w} /\ Alone(w)
    BY <2>1, <2>2, <2>3 DEF WriterInOrder
  <2> QED
    BY <2>4, <2>5 DEF Alone, SaveInOrder
<1> QED
  BY <1>1, Inductive, PTL
=============================================================================
