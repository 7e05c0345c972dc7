----------------------------- MODULE MCFundBooks -----------------------------
(***************************************************************************)
(* Instances of AgentVault and FundState for TLC: the fund's books on the  *)
(* chain and the agent's own.  The two share nothing (what one submission  *)
(* does to both is in Submission), so that a behaviour runs one of them,   *)
(* the subject, and the other stays as it began.                           *)
(*                                                                         *)
(* The vault: two agents, one of them the owner, a log of two entries that *)
(* takes three decisions, two positions, and a U256 of three values, so    *)
(* that every sum reaches its overflow.  Of the amounts, 0 is refused      *)
(* everywhere and 1 is below MinStrategyAmount.  The file: two processes   *)
(* (the server and a script) that make three calls of record* functions.   *)
(***************************************************************************)
EXTENDS AgentVault, FundState, TLC

CONSTANTS a1, a2, p1, p2

MCAccounts  == {a1, a2}
MCDeployed  == [owner |-> a1, agent |-> a2]
MCOutcomes  == {"success", "failed"}
MCAmounts   == {0, 1, 2}
MCProcesses == {p1, p2}
MCMotes     == {1}
MCSymmetry  == Permutations(MCProcesses)

VARIABLE subject

MCInit == subject \in {"vault", "file"} /\ VaultInit /\ Init

MCNext ==
  /\ UNCHANGED subject
  /\ \/ subject = "vault" /\ VaultNext /\ UNCHANGED vars
     \/ subject = "file" /\ Next /\ UNCHANGED vaultVars

MCSpec == MCInit /\ [][MCNext]_<<vaultVars, vars, subject>>
=============================================================================
