----------------------------- MODULE FundState -----------------------------
(***************************************************************************)
(* The local counters of the fund (agent/src/agent/fundState.ts): every    *)
(* process that loads the module keeps a cache of the state file, changes  *)
(* the cache and rewrites the file through a temporary file of a fixed     *)
(* name.  The server with its executor and simulator is one process,       *)
(* scripts/demo-bootstrap-vault.ts is another one.                         *)
(*                                                                         *)
(* A record* function does not await anything, so within its process it is *)
(* one piece; but it makes three calls on the files, between which another *)
(* process may make its own and the process may die.  An open handle       *)
(* follows the file it was opened on through a rename.  lastUpdated and    *)
(* the search for the file's directory are left out.                       *)
(***************************************************************************)
EXTENDS Naturals, FiniteSets

CONSTANTS
  Processes,   \* the processes that load fundState.ts
  Motes,       \* the amounts recorded
  MaxRecords   \* bound: how many calls of record* functions are made

ASSUME ProcessesAssumption == IsFiniteSet(Processes)
ASSUME MotesAssumption     == Motes \subseteq Nat
ASSUME BoundAssumption     == MaxRecords \in Nat

VARIABLES
  pc,         \* pc[p]: "down", "up", or inside save: "writing", "renaming"
  cache,      \* cache[p]: the module variable of process p
  todo,       \* todo[p]: the record p is saving, NoRecord outside of save
  handle,     \* handle[p]: the file p's open handle writes to
  main, tmp,  \* what the state file and the temporary file hold
  records,    \* history: how many record* functions were called
  truth,      \* history: the state that all records that returned add up to
  offered,    \* history: the sum of all that was ever recorded, lost or not
  writers,    \* history: the processes that ever recorded something
  gap         \* history: what failed saves did, see Gaps

files == <<handle, main, tmp>>
ghost == <<records, truth, offered, writers, gap>>
vars  == <<pc, cache, todo, files, ghost>>

State == [positionsOpened : Nat, positionsRealised : Nat, yieldRealisedMotes : Nat,
          custodianMotes : Nat, stakeholderDeposits : Nat, stakeholderActiveMotes : Nat,
          stakeholderTotalMotes : Nat, stakeholderWithdrawnMotes : Nat]

defaultState ==
  [positionsOpened |-> 0, positionsRealised |-> 0, yieldRealisedMotes |-> 0,
   custodianMotes |-> 0, stakeholderDeposits |-> 0, stakeholderActiveMotes |-> 0,
   stakeholderTotalMotes |-> 0, stakeholderWithdrawnMotes |-> 0]

\* A file holds a state or it is unreadable: it does not exist, was truncated a
\* moment ago, or holds two overlapping writes.  load makes the default state
\* of whatever it cannot read or parse.
Unreadable == {"missing", "empty", "garbled"}
Content    == [is : {"text"}, loads : State] \cup [is : Unreadable, loads : {defaultState}]

Text(s)    == [is |-> "text", loads |-> s]
Missing    == [is |-> "missing", loads |-> defaultState]
Empty      == [is |-> "empty", loads |-> defaultState]
Garbled    == [is |-> "garbled", loads |-> defaultState]

Records ==
  [kind : {"position opened", "reset"}, motes : {0}]
    \cup [kind : {"custodian deposit", "custodian withdrawal", "yield claimed",
                  "stakeholder deposit", "stakeholder withdrawal"}, motes : Motes]

NoRecord == [kind |-> "none", motes |-> 0]

\* "unsaved": the last save failed.  "dropped": the counters were read back
\* from the file while that was so.
Gaps == {"none", "unsaved", "dropped"}

-----------------------------------------------------------------------------
(***************************************************************************)
(* What each record* function makes of the counters.                       *)
(***************************************************************************)
Minus(a, b) == IF a > b THEN a - b ELSE 0

WithCustodianDeposit(s, m)  == [s EXCEPT !.custodianMotes = @ + m]
WithCustodianWithdraw(s, m) == [s EXCEPT !.custodianMotes = Minus(@, m)]
WithPositionOpened(s)       == [s EXCEPT !.positionsOpened = @ + 1]

WithYieldClaimed(s, m) ==
  [s EXCEPT !.positionsRealised = @ + 1, !.yieldRealisedMotes = @ + m]

\* No caller passes the second argument, withdrawn, so it is '0'.
WithStakeholderDeposit(s, m) ==
  [s EXCEPT !.stakeholderDeposits = @ + 1,
            !.stakeholderActiveMotes = @ + m,
            !.stakeholderTotalMotes = @ + m]

\* Mutant: a withdrawal of all that is active is not counted as withdrawn.
WithWithdrawalOfRest(s, m) ==
  [s EXCEPT !.stakeholderActiveMotes = Minus(@, m),
            !.stakeholderWithdrawnMotes = IF s.stakeholderActiveMotes > m THEN @ + m ELSE @]

WithStakeholderWithdrawal(s, m) ==
  [s EXCEPT !.stakeholderActiveMotes = Minus(@, m),
            !.stakeholderWithdrawnMotes = @ + m]

Applied(s, r) ==
  CASE r.kind = "custodian deposit"      -> WithCustodianDeposit(s, r.motes)
    [] r.kind = "custodian withdrawal"   -> WithCustodianWithdraw(s, r.motes)
    [] r.kind = "position opened"        -> WithPositionOpened(s)
    [] r.kind = "yield claimed"          -> WithYieldClaimed(s, r.motes)
    [] r.kind = "stakeholder deposit"    -> WithStakeholderDeposit(s, r.motes)
    [] r.kind = "stakeholder withdrawal" -> WithStakeholderWithdrawal(s, r.motes)
    [] r.kind = "reset"                  -> defaultState

-----------------------------------------------------------------------------
Init ==
  /\ pc = [p \in Processes |-> "down"]
  /\ cache = [p \in Processes |-> defaultState]
  /\ todo = [p \in Processes |-> NoRecord]
  /\ handle = [p \in Processes |-> "none"]
  /\ main = Missing /\ tmp = Missing
  /\ records = 0
  /\ truth = defaultState /\ offered = defaultState
  /\ writers = {}
  /\ gap = "none"

\* The file is read back into the cache of p.
Reread(p) ==
  /\ cache' = [cache EXCEPT ![p] = main.loads]
  /\ gap' = IF gap = "unsaved" /\ p \in writers THEN "dropped" ELSE gap
  /\ UNCHANGED <<todo, files, records, truth, offered, writers>>

\* The module is loaded: let cache = load().
Start(p) == pc[p] = "down" /\ pc' = [pc EXCEPT ![p] = "up"] /\ Reread(p)

\* getFundState(true), as /api/fund calls it.
Reload(p) == pc[p] = "up" /\ UNCHANGED pc /\ Reread(p)

\* A record* function changes the cache.
Changed(p, r) ==
  /\ pc[p] = "up"
  /\ records < MaxRecords
  /\ records' = records + 1
  /\ cache' = [cache EXCEPT ![p] = Applied(@, r)]
  /\ offered' = [f \in DOMAIN offered |-> offered[f] + Applied(defaultState, r)[f]]
  /\ writers' = writers \cup {p}

\* ... and save opens the temporary file, which truncates it.
Record(p, r) ==
  /\ Changed(p, r)
  /\ pc' = [pc EXCEPT ![p] = "writing"]
  /\ todo' = [todo EXCEPT ![p] = r]
  /\ handle' = [handle EXCEPT ![p] = "tmp"]
  /\ tmp' = Empty
  /\ UNCHANGED <<main, truth, gap>>

\* The save failed and nobody is told.
Swallow == gap' = IF gap = "dropped" THEN gap ELSE "unsaved"

\* ... or the open fails, the error is swallowed and the function returns.
RecordUnsaved(p, r) ==
  /\ Changed(p, r)
  /\ truth' = Applied(truth, r)
  /\ Swallow
  /\ UNCHANGED <<pc, todo, files>>

\* A write at the start of a file: it stands alone in an empty file, and over
\* another process's text the rest of the longer one may stay behind.
Overwritten(content, s) == IF content = Empty THEN {Text(s)} ELSE {Text(s), Garbled}

\* The rest of writeFileSync: the handle may no longer be the temporary file's.
Write(p) ==
  /\ pc[p] = "writing"
  /\ pc' = [pc EXCEPT ![p] = "renaming"]
  /\ handle' = [handle EXCEPT ![p] = "none"]
  /\ \/ handle[p] = "tmp" /\ tmp' \in Overwritten(tmp, cache[p]) /\ UNCHANGED main
     \/ handle[p] = "main" /\ main' \in Overwritten(main, cache[p]) /\ UNCHANGED tmp
     \/ handle[p] = "gone" /\ UNCHANGED <<main, tmp>>
  /\ UNCHANGED <<cache, todo, ghost>>

\* The record function returns to its caller.
Return(p) ==
  /\ pc' = [pc EXCEPT ![p] = "up"]
  /\ todo' = [todo EXCEPT ![p] = NoRecord]
  /\ truth' = Applied(truth, todo[p])

\* Mutant: the old state file is removed in a call of its own.
RenameAfterRemoval(p) ==
  /\ pc[p] = "renaming"
  /\ tmp # Missing
  /\ IF main # Missing
     THEN /\ main' = Missing
          /\ UNCHANGED <<pc, cache, todo, handle, tmp, ghost>>
     ELSE /\ main' = tmp
          /\ tmp' = Missing
          /\ Return(p)
          /\ UNCHANGED <<cache, handle, records, offered, writers, gap>>

\* renameSync: open handles go along with the file they write to.
Rename(p) ==
  /\ pc[p] = "renaming"
  /\ tmp # Missing
  /\ main' = tmp
  /\ tmp' = Missing
  /\ handle' = [q \in Processes |-> CASE handle[q] = "tmp"  -> "main"
                                      [] handle[q] = "main" -> "gone"
                                      [] OTHER              -> handle[q]]
  /\ Return(p)
  /\ gap' = IF gap = "dropped" THEN gap ELSE "none"
  /\ UNCHANGED <<cache, records, offered, writers>>

\* Mutant: the record is applied a second time.
SaveFailsRetried(p) ==
  /\ pc[p] \in {"writing", "renaming"}
  /\ cache' = [cache EXCEPT ![p] = Applied(@, todo[p])]
  /\ handle' = [handle EXCEPT ![p] = "none"]
  /\ Return(p)
  /\ Swallow
  /\ UNCHANGED <<main, tmp, records, offered, writers>>

\* The write or the rename fails, the latter also because another process has
\* taken the temporary file away; the error is swallowed.
SaveFails(p) ==
  /\ pc[p] \in {"writing", "renaming"}
  /\ handle' = [handle EXCEPT ![p] = "none"]
  /\ Return(p)
  /\ Swallow
  /\ UNCHANGED <<cache, main, tmp, records, offered, writers>>

\* The process dies; a record it was saving has not returned.
Crash(p) ==
  /\ pc[p] # "down"
  /\ pc' = [pc EXCEPT ![p] = "down"]
  /\ todo' = [todo EXCEPT ![p] = NoRecord]
  /\ handle' = [handle EXCEPT ![p] = "none"]
  /\ UNCHANGED <<cache, main, tmp, ghost>>

Next ==
  \E p \in Processes :
    \/ Start(p)
    \/ Reload(p)
    \/ \E r \in Records : Record(p, r) \/ RecordUnsaved(p, r)
    \/ Write(p)
    \/ Rename(p)
    \/ SaveFails(p)
    \/ Crash(p)

Spec == Init /\ [][Next]_vars

-----------------------------------------------------------------------------
\* Every variable has its type; a process has a handle exactly while it writes.
TypeOK ==
  /\ pc \in [Processes -> {"down", "up", "writing", "renaming"}]
  /\ cache \in [Processes -> State]
  /\ todo \in [Processes -> Records \cup {NoRecord}]
  /\ handle \in [Processes -> {"none", "tmp", "main", "gone"}]
  /\ \A p \in Processes : handle[p] # "none" <=> pc[p] = "writing"
  /\ main \in Content /\ tmp \in Content
  /\ records \in 0 .. MaxRecords
  /\ truth \in State /\ offered \in State
  /\ writers \subseteq Processes
  /\ gap \in Gaps

\* While one process records, the file holds at every moment, also in the
\* middle of a save and after a crash in it, exactly what that process's calls
\* have added up to; other processes read no torn file.  A save that failed is
\* made good by the next one unless the counters are read back in between.
SoleWriterKeepsAll ==
  Cardinality(writers) <= 1 =>
    /\ gap = "none" => main.loads = truth
    /\ gap # "dropped" => \A p \in writers : pc[p] = "up" => cache[p] = truth

Snapshots == {cache[p] : p \in Processes} \cup {main.loads, tmp.loads}

\* Whatever processes, crashes and failing saves do to each other, no copy of
\* the counters ever mixes two states: what is active was deposited, and what
\* was deposited is active or withdrawn.
SnapshotsConsistent ==
  \A s \in Snapshots :
    /\ s.stakeholderActiveMotes <= s.stakeholderTotalMotes
    /\ s.stakeholderTotalMotes <= s.stakeholderActiveMotes + s.stakeholderWithdrawnMotes

\* Nor is anything counted twice: a retry, a reload or a rename by another
\* process may lose a record, but no counter exceeds what was recorded.  (With
\* the types.)
NothingInvented ==
  TypeOK /\ \A s \in Snapshots : \A f \in DOMAIN defaultState : s[f] <= offered[f]
=============================================================================
