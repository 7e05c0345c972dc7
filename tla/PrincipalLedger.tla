-------------------------- MODULE PrincipalLedger --------------------------
(***************************************************************************)
(* What a stakeholder is promised by the StakeholderDeposit contract, with *)
(* no ring buffer, no machine integers, no pause and no purse: every       *)
(* stakeholder has a principal that deposits raise and withdrawals lower,  *)
(* and what leaves the principal is exactly what is paid out.              *)
(***************************************************************************)
EXTENDS Naturals

CONSTANTS
  Accounts,         \* the addresses that deposit and withdraw
  Amounts           \* the amounts they deposit and withdraw

VARIABLES
  principal,        \* principal[s]: what s has entrusted and not taken back
  paid              \* paid[s]: what s has been paid out, in total

ledgerVars == <<principal, paid>>

Init ==
  /\ principal = [s \in Accounts |-> 0]
  /\ paid = [s \in Accounts |-> 0]

Deposit(s, amount) ==
  /\ principal' = [principal EXCEPT ![s] = @ + amount]
  /\ UNCHANGED paid

Withdraw(s, amount) ==
  /\ amount <= principal[s]
  /\ principal' = [principal EXCEPT ![s] = @ - amount]
  /\ paid' = [paid EXCEPT ![s] = @ + amount]

Next ==
  \E s \in Accounts, amount \in Amounts \ {0} :
    \/ Deposit(s, amount)
    \/ Withdraw(s, amount)

Spec == Init /\ [][Next]_ledgerVars
=============================================================================
