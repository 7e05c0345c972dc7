---------------------------- MODULE MCAgentCycle ----------------------------
(***************************************************************************)
(* An instance of AgentCycle for TLC: two cycles at once, a breaker that   *)
(* trips at the second failure or at a drawdown of more than 10 %, and     *)
(* amounts around a MIN_STAKE_MOTES of 2, so small that half a percent     *)
(* off one mote leaves nothing: trades are worth one mote or zero.         *)
(***************************************************************************)
EXTENDS AgentCycle

CONSTANTS c1, c2

MCCycles == {c1, c2}
=============================================================================
