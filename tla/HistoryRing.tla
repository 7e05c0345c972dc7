---------------------------- MODULE HistoryRing ----------------------------
(***************************************************************************)
(* The bounded history all three contracts keep: a List that is pushed to  *)
(* until it holds `cap` entries and then overwritten in place at `head`,   *)
(* and the view that reads the latest `limit` entries back in              *)
(* chronological order (get_recent_events, get_decision_log).  Slots are   *)
(* numbered from 0 as in the code; slot i is ring[i + 1].                  *)
(***************************************************************************)
EXTENDS Naturals, Sequences

\* max_history.max(1), max_log_history.max(1)
AtLeastOne(n) == IF n > 1 THEN n ELSE 1

\* The list after an entry d was recorded, and the head that goes with it.
Written(ring, head, cap, d) ==
  IF Len(ring) < cap THEN Append(ring, d) ELSE [ring EXCEPT ![head + 1] = d]

\* Mutant: the head stays where it is, so one slot is overwritten for ever.
HeadStuck(ring, head, cap) == head

NextHead(ring, head, cap) ==
  IF Len(ring) < cap THEN head ELSE (head + 1) % cap

\* Mutant: the walk starts at the head itself instead of the slot before it.
BackSlotFromHead(head, cap, j) == (head + cap - j) % cap

\* The slot the backward walk visits after j steps: idx starts at
\* (head + cap - 1) % cap and each step is idx = (idx + cap - 1) % cap.
BackSlot(head, cap, j) == (head + cap - 1 - j) % cap

AtMost(a, b) == IF a < b THEN a ELSE b

\* The view: a plain suffix while the list is not full, else the walk reversed.
Recent(ring, head, cap, limit) ==
  LET l == AtMost(limit, Len(ring)) IN
  IF Len(ring) < cap
  THEN SubSeq(ring, Len(ring) - l + 1, Len(ring))
  ELSE [k \in 1 .. l |-> ring[BackSlot(head, cap, l - k) + 1]]

\* What a reader of the history expects: the last n entries of s.
LastN(s, n) == SubSeq(s, Len(s) - AtMost(n, Len(s)) + 1, Len(s))
=============================================================================
