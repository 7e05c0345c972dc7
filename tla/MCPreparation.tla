--------------------------- MODULE MCPreparation ---------------------------
(***************************************************************************)
(* Instances of Deployment, PairSelector and X402Payment for TLC.  The     *)
(* three share nothing, so that a behaviour runs one of them, the subject, *)
(* and the others stay as they began.                                      *)
(*                                                                         *)
(* The scripts: the two contracts that every script knows, in the order of *)
(* deploy.ts, two runs, four deploys.  The selection: three tokens,        *)
(* impacts at and above the limit, and pools that earn little and more,    *)
(* beside one that is not known and earns nothing.  The payment: two       *)
(* calls, each of whose requests may be copied once, and a server that     *)
(* handles two requests at once.                                           *)
(***************************************************************************)
EXTENDS Deployment, PairSelector, X402Payment

CONSTANTS a1, a2, h1, h2

MCOrder    == <<"revenue_emitter", "agent_vault">>
MCTokens   == {"sCSPR", "USDT", "WETH"}
MCPools    == {[reserve |-> 1000, feeBps |-> 30], [reserve |-> 1000, feeBps |-> 100]}
MCAttempts == {a1, a2}
MCHandlers == {h1, h2}

VARIABLE subject

MCInit ==
  /\ subject \in {"deployment", "selection", "payment"}
  /\ DeployInit /\ PairInit /\ Init
  /\ subject # "deployment" => wasm = {} /\ ~hasEnv /\ localEnv = <<>>
  /\ subject # "selection" => listed = <<>>

MCNext ==
  /\ UNCHANGED subject
  /\ \/ subject = "deployment" /\ DeployNext /\ UNCHANGED <<pairVars, vars>>
     \/ subject = "selection" /\ PairNext /\ UNCHANGED <<deployVars, vars>>
     \/ subject = "payment" /\ Next /\ UNCHANGED <<deployVars, pairVars>>

\* Of the payments that stay as they began no step is due.
MCSpec == MCInit /\ [][MCNext]_<<deployVars, pairVars, vars, subject>> /\ Fairness
=============================================================================
