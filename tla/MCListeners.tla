----------------------------- MODULE MCListeners -----------------------------
(***************************************************************************)
(* Instances of DepositConsumer and LiveFeed for TLC.  The two share       *)
(* nothing, so that a behaviour runs one of them, the subject, and the     *)
(* other stays as it began.                                                *)
(*                                                                         *)
(* The consumer: start is called twice, and the contract takes up to four  *)
(* deposits: one seen first, and enough after it for several to fall       *)
(* between two polls and for answers to cross.  The feed: room for two     *)
(* sockets per subscription, where one is expected, and three events.      *)
(***************************************************************************)
EXTENDS DepositConsumer, LiveFeed

CONSTANTS l1, l2, s1, s2

MCChains  == {l1, l2}
MCSockets == {s1, s2}

VARIABLE subject

MCInit ==
  /\ subject \in {"consumer", "feed"}
  /\ Init /\ FeedInit
  /\ subject = "consumer" => configured = {}

MCNext ==
  /\ UNCHANGED subject
  /\ \/ subject = "consumer" /\ Next /\ UNCHANGED feedVars
     \/ subject = "feed" /\ FeedNext /\ UNCHANGED vars

\* Of the one that stays as it began no step is due.
MCSpec ==
  MCInit /\ [][MCNext]_<<vars, feedVars, subject>> /\ Fairness /\ FeedFairness
=============================================================================
