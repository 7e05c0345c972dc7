-------------------------- MODULE MCRevenueEmitter --------------------------
(***************************************************************************)
(* Instances of RevenueEmitter for TLC: an owner who is not the emitter at *)
(* first, two assets, and events enough to wrap a ring of two.           *)
(***************************************************************************)
EXTENDS RevenueEmitter

CONSTANTS a1, a2, cspr, usd

MCAccounts == {a1, a2}
MCDeployed == [owner |-> a1, emitter |-> a2]
MCAssets   == {cspr, usd}
MCAmounts  == {0, 1, 2}
=============================================================================
