---------------------------- MODULE RecentWindow ----------------------------
(***************************************************************************)
(* What a bounded on-chain history promises its readers: the window is the *)
(* latest Size entries in the order they were recorded, and recording adds *)
(* one entry at the end.                                                   *)
(***************************************************************************)
EXTENDS HistoryRing

CONSTANTS
  Size,      \* how many entries the window can hold
  Entries    \* the entries that can be recorded

VARIABLE window

Init == window = << >>

Record(d) == window' = LastN(Append(window, d), Size)

Next == \E d \in Entries : Record(d)

Spec == Init /\ [][Next]_window
=============================================================================
