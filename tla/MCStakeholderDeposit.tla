------------------------ MODULE MCStakeholderDeposit ------------------------
(***************************************************************************)
(* Instances of StakeholderDeposit for TLC: two accounts, of which one is  *)
(* the owner, a ring of two slots and a supply that lets five deposits in, *)
(* so that the ring wraps twice over active and over withdrawn records.    *)
(***************************************************************************)
EXTENDS StakeholderDeposit

CONSTANTS a1, a2

MCAccounts == {a1, a2}
MCOwner    == a1
MCAmounts  == {0, 1, 2}
=============================================================================
