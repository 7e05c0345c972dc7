-------------------------- MODULE DepositConsumer --------------------------
(***************************************************************************)
(* The consumer of stakeholder deposits                                    *)
(* (agent/src/csprCloud/stakeholderEventConsumer.ts): it polls the         *)
(* contract's deposit_count and hands what is new to a callback.           *)
(*                                                                         *)
(* Every call of start begins a chain of polls, one poll after the other.  *)
(* Chains share lastSeenId, the stopped flag and the one timer variable,   *)
(* and take turns at the await of the answer.  One step is the code        *)
(* between two awaits.  The event made up for a deposit carries nothing    *)
(* but its id, so an event is an id.                                       *)
(***************************************************************************)
EXTENDS Naturals, Sequences, FiniteSets

CONSTANTS
  Chains,       \* the calls of start
  MaxDeposits   \* bound: how many deposits the contract takes

ASSUME ChainsAssumption   == IsFiniteSet(Chains)
ASSUME DepositsAssumption == MaxDeposits \in Nat

VARIABLES
  deposit_count,   \* the contract's counter
  poll,            \* poll[l]: where chain l is, see Places
  answer,          \* answer[l]: the id of the event the fetch returned, or 0
  lastSeenId,
  stopped,
  timer,           \* the chains whose timeout the variable timer holds: one or none
  delivered,       \* history: the ids onDeposit took, in order
  firstSeenId,     \* history: what lastSeenId became first, 0 before
  limit            \* history: the deliveries and polls in flight when stop was called

consumer == <<poll, answer, lastSeenId, timer>>
vars     == <<deposit_count, consumer, stopped, delivered, firstSeenId, limit>>

Places == {"new",        \* start was not called yet
           "asking",     \* awaiting fetchRecentDeposits
           "answered",   \* it returned, its continuation has not run
           "sleeping",   \* a timeout is set
           "over"}

Move(l, from, to) == poll[l] = from /\ poll' = [poll EXCEPT ![l] = to]

InFlight == {l \in Chains : poll[l] \in {"asking", "answered"}}

-----------------------------------------------------------------------------
Init ==
  /\ deposit_count = 0
  /\ poll = [l \in Chains |-> "new"]
  /\ answer = [l \in Chains |-> 0]
  /\ lastSeenId = 0
  /\ stopped = FALSE
  /\ timer = {}
  /\ delivered = << >>
  /\ firstSeenId = 0
  /\ limit = 0

\* Mutant: stop is left to the timer it clears.
PollUnstopped(l, from) == Move(l, from, "asking")

\* The beginning of poll: once stopped, it returns.
Poll(l, from) == Move(l, from, IF stopped THEN "over" ELSE "asking")

Start(l) ==
  /\ Poll(l, "new")
  /\ UNCHANGED <<deposit_count, answer, lastSeenId, stopped, timer, delivered, firstSeenId, limit>>

\* The timeout of chain l fires.
Wake(l) ==
  /\ Poll(l, "sleeping")
  /\ UNCHANGED <<deposit_count, answer, lastSeenId, stopped, timer, delivered, firstSeenId, limit>>

\* The contract's entry point; a deposit is visible once it was executed.
Deposit ==
  /\ deposit_count < MaxDeposits
  /\ deposit_count' = deposit_count + 1
  /\ UNCHANGED <<consumer, stopped, delivered, firstSeenId, limit>>

Fetched(l, id) ==
  /\ Move(l, "asking", "answered")
  /\ answer' = [answer EXCEPT ![l] = id]
  /\ UNCHANGED <<deposit_count, lastSeenId, stopped, timer, delivered, firstSeenId, limit>>

\* fetchRecentDeposits makes an event of the newest deposit only.
FetchNewest(l) == Fetched(l, deposit_count)

\* An error, or 15 s without an answer: no event.
FetchFails(l) == Fetched(l, 0)

IsNew(id) == id > lastSeenId

\* Mutant: every other id is new.
IsReportedOther(id) == id \notin {0, lastSeenId} /\ lastSeenId > 0

\* The first id ever seen was there before and is not reported.
IsReported(id) == IsNew(id) /\ lastSeenId > 0

\* The end of poll: the next timeout, unless stopped; another chain's timeout
\* may be forgotten but still fires.
Sleep(l) ==
  IF stopped
  THEN Move(l, "answered", "over") /\ UNCHANGED timer
  ELSE Move(l, "answered", "sleeping") /\ timer' = {l}

\* The continuation of poll; stopped is not looked at before the callback.
Handle(l) ==
  /\ poll[l] = "answered"
  /\ lastSeenId' = IF IsNew(answer[l]) THEN answer[l] ELSE lastSeenId
  /\ delivered' = IF IsReported(answer[l]) THEN Append(delivered, answer[l]) ELSE delivered
  /\ firstSeenId' = IF firstSeenId = 0 THEN lastSeenId' ELSE firstSeenId
  /\ Sleep(l)
  /\ UNCHANGED <<deposit_count, answer, stopped, limit>>

\* Mutant: the id is taken as seen before the callback is called.
ThrowsAsSeen(l) ==
  /\ poll[l] = "answered"
  /\ IsReported(answer[l])
  /\ lastSeenId' = answer[l]
  /\ Sleep(l)
  /\ UNCHANGED <<deposit_count, answer, stopped, delivered, firstSeenId, limit>>

\* onDeposit throws: the id is not taken as seen and comes again, unless a later
\* one takes its place.
CallbackThrows(l) ==
  /\ poll[l] = "answered"
  /\ IsReported(answer[l])
  /\ Sleep(l)
  /\ UNCHANGED <<deposit_count, answer, lastSeenId, stopped, delivered, firstSeenId, limit>>

\* clearTimeout stops the chain whose timeout the variable holds, if it sleeps.
Stop ==
  /\ ~stopped
  /\ stopped' = TRUE
  /\ poll' = [l \in Chains |-> IF l \in timer /\ poll[l] = "sleeping" THEN "over" ELSE poll[l]]
  /\ limit' = Len(delivered) + Cardinality(InFlight)
  /\ UNCHANGED <<deposit_count, answer, lastSeenId, timer, delivered, firstSeenId>>

-----------------------------------------------------------------------------
Proceed(l) == Wake(l) \/ FetchFails(l) \/ Handle(l) \/ CallbackThrows(l)

Next ==
  \/ \E l \in Chains : Start(l) \/ FetchNewest(l) \/ Proceed(l)
  \/ Deposit
  \/ Stop

Spec == Init /\ [][Next]_vars

\* Timeouts fire, and a request ends after 15 s at the latest; that it ever
\* brings an answer is not assumed.
Fairness == \A l \in Chains : WF_vars(Proceed(l))

FairSpec == Spec /\ Fairness

-----------------------------------------------------------------------------
\* Every variable has its type.
TypeOK ==
  /\ deposit_count \in 0 .. MaxDeposits
  /\ poll \in [Chains -> Places]
  /\ answer \in [Chains -> 0 .. MaxDeposits]
  /\ lastSeenId \in 0 .. deposit_count
  /\ stopped \in BOOLEAN
  /\ timer \subseteq Chains /\ Cardinality(timer) <= 1
  /\ delivered \in Seq(1 .. deposit_count)
  /\ firstSeenId \in 0 .. lastSeenId
  /\ limit \in Nat

\* No deposit is delivered twice or after a later one, nor one that was there
\* when the consumer first looked, also when the answers of two chains overtake
\* each other.  (With the types.)
DeliveredInOrder ==
  /\ TypeOK
  /\ \A i \in DOMAIN delivered :
       /\ delivered[i] > firstSeenId
       /\ \A j \in DOMAIN delivered : i < j => delivered[i] < delivered[j]

\* stop does not cancel the polls in flight, but each of them delivers at most
\* once, no timeout that stop failed to clear begins another poll, and every
\* chain comes to its end.
StopIsFinal ==
  /\ [](stopped => Len(delivered) <= limit)
  /\ stopped ~> \A l \in Chains : poll[l] \in {"new", "over"}

\* stakeholderEventConsumer.ts:2-4: each new deposit is pushed to the analyst.  It
\* is not: of the deposits between two polls only the newest makes an event, and
\* what comes after it rules those before it out for good.
EachDelivered ==
  \A i \in DOMAIN delivered : \A id \in (firstSeenId + 1) .. delivered[i] :
    \E j \in DOMAIN delivered : delivered[j] = id

\* A callback that throws or a request that fails loses no deposit by itself.  When
\* neither goes on for ever, a deposit that stays the newest is delivered in the
\* end, also after the callback threw for it.
LastDelivered ==
  <>[][~\E l \in Chains : FetchFails(l) \/ CallbackThrows(l)]_vars =>
    \A id \in 1 .. MaxDeposits :
      0 < firstSeenId /\ firstSeenId < id /\ id = deposit_count ~>
        \/ stopped \/ deposit_count > id
        \/ \E i \in DOMAIN delivered : delivered[i] = id
=============================================================================
