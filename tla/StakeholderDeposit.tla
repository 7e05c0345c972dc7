------------------------- MODULE StakeholderDeposit -------------------------
(***************************************************************************)
(* The StakeholderDeposit contract                                         *)
(* (contracts/odra/stakeholder_deposit/src/stakeholder_deposit.rs).        *)
(*                                                                         *)
(* A call is one step: the host runs an entry point to its end or reverts  *)
(* it, and a call that reverts leaves every variable alone, so a failing   *)
(* require! is a guard.  Labels, timestamps, the nonce and the emitted     *)
(* events carry no accounting and are left out.  The counters are u64 and  *)
(* wrap: the release profile of contracts/odra/Cargo.toml sets no          *)
(* overflow-checks.                                                        *)
(***************************************************************************)
EXTENDS Naturals, Sequences, FiniteSetsExt

CONSTANTS
  Accounts,     \* the addresses that call the contract
  Owner,        \* the `owner` argument of init
  MaxHistory,   \* the `max_history` argument of init
  U64,          \* the number of values of a u64
  Amounts,      \* the amounts callers pass to deposit
  Supply        \* bound: the sum of all accepted deposits, and of all funding

ASSUME OwnerAssumption   == Owner \in Accounts
ASSUME HistoryAssumption == MaxHistory \in Nat
ASSUME U64Assumption     == U64 \in Nat \ {0}
ASSUME AmountsAssumption == Amounts \subseteq 0 .. U64 - 1
ASSUME SupplyAssumption  == Supply \in Nat

VARIABLES
  owner, paused,
  stakeholder_active,   \* stakeholder_active[s]: s's active principal
  deposits,             \* the ring: records of the latest deposits
  head,                 \* the slot (from 0) the next deposit overwrites
  deposit_count,
  total_deposited, total_active, total_withdrawn,
  purse,                \* the CSPR the contract's own purse holds
  paid,                 \* paid[s]: CSPR transferred out of the purse to s
  lifetime,             \* history: lifetime[s] is the true sum of s's deposits
  declared,             \* history: the true sum of all deposits
  funded                \* history: all CSPR ever moved into the purse

contractVars == <<owner, paused, stakeholder_active, deposits, head,
                  deposit_count, total_deposited, total_active, total_withdrawn>>
vars == <<contractVars, purse, paid, lifetime, declared, funded>>

(***************************************************************************)
(* Machine arithmetic, and the two operations of the ring.                 *)
(***************************************************************************)
WrapAdd(a, b) == IF a + b < U64 THEN a + b ELSE a + b - U64

\* Mutant: the balance is not lowered.
NoSub(a, b) == a

SaturatingSub(a, b) == IF b <= a THEN a - b ELSE 0

Cap == IF MaxHistory > 1 THEN MaxHistory ELSE 1

Record == [id : Nat, stakeholder : Accounts, amount : Amounts,
           status : {"Active", "Withdrawn"}, withdrawal_amount : Amounts \cup {0}]

\* Mutant: the id is taken from the length of the list, not from the counter.
NewRecordByLength(id, s, amount) ==
  [id |-> Len(deposits) + 1, stakeholder |-> s, amount |-> amount,
   status |-> "Active", withdrawal_amount |-> 0]

NewRecord(id, s, amount) ==
  [id |-> id, stakeholder |-> s, amount |-> amount,
   status |-> "Active", withdrawal_amount |-> 0]

\* What `withdraw` writes back into the slot of the record it pays.
Settled(d) == [d EXCEPT !.status = "Withdrawn", !.withdrawal_amount = d.amount]

\* Mutants of Push: the list is never bounded; the head is never advanced.
PushUnbounded(d) == deposits' = Append(deposits, d) /\ UNCHANGED head
PushHeadStuck(d) ==
  /\ deposits' = IF Len(deposits) < Cap THEN Append(deposits, d)
                 ELSE [deposits EXCEPT ![head + 1] = d]
  /\ UNCHANGED head

\* `deposit` pushes until the ring is full and then overwrites the oldest slot,
\* whatever the status of the record in it.
Push(d) ==
  IF Len(deposits) < Cap
  THEN /\ deposits' = Append(deposits, d)
       /\ UNCHANGED head
  ELSE /\ deposits' = [deposits EXCEPT ![head + 1] = d]
       /\ head' = (head + 1) % Cap

\* The slot the scan of `withdraw` stops at.
IsFirstWithId(i, id) ==
  /\ deposits[i].id = id
  /\ \A j \in 1 .. i - 1 : deposits[j].id # id

\* Mutant: the status is not looked at.
PayableTwice(d, caller) == d.stakeholder = caller

\* The record `withdraw` pays: the caller's own, and not yet withdrawn.
Payable(d, caller) == d.stakeholder = caller /\ d.status = "Active"

-----------------------------------------------------------------------------
Init ==
  /\ owner = Owner
  /\ paused = FALSE
  /\ stakeholder_active = [s \in Accounts |-> 0]
  /\ deposits = << >>
  /\ head = 0
  /\ deposit_count = 0
  /\ total_deposited = 0
  /\ total_active = 0
  /\ total_withdrawn = 0
  /\ purse = 0
  /\ paid = [s \in Accounts |-> 0]
  /\ lifetime = [s \in Accounts |-> 0]
  /\ declared = 0
  /\ funded = 0

\* set_paused; transfer_ownership changes no state (it only emits an event).
SetPaused(caller, p) ==
  /\ caller = owner
  /\ paused' = p
  /\ UNCHANGED <<owner, stakeholder_active, deposits, head, deposit_count, total_deposited,
                 total_active, total_withdrawn, purse, paid, lifetime, declared, funded>>

\* deposit: an accounting update only, no CSPR moves with the call.
Deposit(caller, amount) ==
  /\ ~paused
  /\ amount > 0
  /\ declared + amount <= Supply
  /\ deposit_count' = deposit_count + 1
  /\ stakeholder_active' = [stakeholder_active EXCEPT ![caller] = WrapAdd(@, amount)]
  /\ total_deposited' = WrapAdd(total_deposited, amount)
  /\ total_active' = WrapAdd(total_active, amount)
  /\ Push(NewRecord(deposit_count + 1, caller, amount))
  /\ lifetime' = [lifetime EXCEPT ![caller] = @ + amount]
  /\ declared' = declared + amount
  /\ UNCHANGED <<owner, paused, total_withdrawn, purse, paid, funded>>

\* withdraw: the record's principal, paid from the purse all deposits share.
Withdraw(caller, id) ==
  /\ ~paused
  /\ \E i \in 1 .. Len(deposits) :
       LET amount == deposits[i].amount IN
       /\ IsFirstWithId(i, id)
       /\ Payable(deposits[i], caller)
       /\ amount <= purse
       /\ deposits' = [deposits EXCEPT ![i] = Settled(deposits[i])]
       /\ stakeholder_active' = [stakeholder_active EXCEPT ![caller] = SaturatingSub(@, amount)]
       /\ total_active' = SaturatingSub(total_active, amount)
       /\ total_withdrawn' = WrapAdd(total_withdrawn, amount)
       /\ purse' = purse - amount
       /\ paid' = [paid EXCEPT ![caller] = @ + amount]
  /\ UNCHANGED <<owner, paused, head, deposit_count, total_deposited, lifetime, declared, funded>>

\* The separate native transfer that moves CSPR into the contract's purse.
FundPurse(amount) ==
  /\ amount > 0
  /\ funded + amount <= Supply
  /\ purse' = purse + amount
  /\ funded' = funded + amount
  /\ UNCHANGED <<contractVars, paid, lifetime, declared>>

Next ==
  \/ \E caller \in Accounts, p \in BOOLEAN : SetPaused(caller, p)
  \/ \E caller \in Accounts, amount \in Amounts : Deposit(caller, amount)
  \/ \E caller \in Accounts, id \in 1 .. deposit_count : Withdraw(caller, id)
  \/ \E amount \in Amounts : FundPurse(amount)

Spec == Init /\ [][Next]_vars

-----------------------------------------------------------------------------
\* Every variable has its type; the ring never outgrows its capacity.
TypeOK ==
  /\ owner \in Accounts
  /\ paused \in BOOLEAN
  /\ stakeholder_active \in [Accounts -> Nat]
  /\ deposits \in Seq(Record)
  /\ Len(deposits) <= Cap
  /\ head \in 0 .. Cap - 1
  /\ deposit_count \in Nat
  /\ total_deposited \in Nat /\ total_active \in Nat /\ total_withdrawn \in Nat
  /\ purse \in Nat /\ declared \in Nat /\ funded \in Nat
  /\ paid \in [Accounts -> Nat]
  /\ lifetime \in [Accounts -> Nat]

\* The ring holds exactly the latest deposits, one record each: the wrap-around
\* of `deposit` neither duplicates an id nor drops a newer record for an older.
RingHoldsLatest ==
  /\ {deposits[k].id : k \in DOMAIN deposits}
       = {id \in 1 .. deposit_count : id + Len(deposits) > deposit_count}
  /\ \A j, k \in DOMAIN deposits : deposits[j].id = deposits[k].id => j = k

\* What a stakeholder still has in the contract plus what was paid out to them
\* is what they deposited over their lifetime, across partial withdrawals and
\* ring overwrites: the balance of the comment on stakeholder_active.
PrincipalConserved ==
  \A s \in Accounts : stakeholder_active[s] + paid[s] = lifetime[s]

\* The aggregate counters agree with each other and with the true sum.
TotalsConserved ==
  /\ total_active + total_withdrawn = total_deposited
  /\ total_deposited = declared

\* The aggregate is the sum of the per-stakeholder balances, though both are
\* lowered by a saturating subtraction of their own.
ActiveIsSum == total_active = SumFunction(stakeholder_active)

\* A deposit, once withdrawn, never becomes withdrawable again: its record
\* stays withdrawn until a newer deposit takes the slot.
WithdrawnIsFinal ==
  [][\A k \in DOMAIN deposits :
       deposits[k].status = "Withdrawn" =>
         \/ deposits'[k] = deposits[k]
         \/ deposits'[k].id > deposits[k].id]_vars

\* Seen through its balances alone, the contract is the principal ledger.
Ledger == INSTANCE PrincipalLedger WITH principal <- stakeholder_active

ImplementsLedger == Ledger!Spec

-----------------------------------------------------------------------------
(***************************************************************************)
(* What the contract's header says and its code does not keep.             *)
(***************************************************************************)
RingActive(s) ==
  {k \in DOMAIN deposits : deposits[k].stakeholder = s /\ deposits[k].status = "Active"}

\* "each owner can withdraw their own principal": the active balance of a
\* stakeholder is held by records that withdraw can still find.  A full ring
\* overwrites an active record and strands its principal.
PrincipalWithdrawable ==
  \A s \in Accounts :
    stakeholder_active[s] = MapThenSumSet(LAMBDA k : deposits[k].amount, RingActive(s))
=============================================================================
