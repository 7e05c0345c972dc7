---------------------------- MODULE MCSubmission ----------------------------
(***************************************************************************)
(* An instance of Submission for TLC: two calls, each of any function.     *)
(***************************************************************************)
EXTENDS Submission

CONSTANTS c1, c2

MCCalls == {c1, c2}
=============================================================================
