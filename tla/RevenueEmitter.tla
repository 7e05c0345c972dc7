--------------------------- MODULE RevenueEmitter ---------------------------
(***************************************************************************)
(* The RevenueEmitter contract                                             *)
(* (contracts/odra/revenue_emitter/src/revenue_emitter.rs).                *)
(*                                                                         *)
(* A call is one step and a call that reverts changes nothing, so every    *)
(* require! is a guard.  U256 addition reverts on overflow.  Timestamps,   *)
(* the source and reference strings and the emitted events are left out.   *)
(***************************************************************************)
EXTENDS HistoryRing, FiniteSetsExt

CONSTANTS
  Accounts,     \* the addresses that call the contract
  Zero,         \* the zero address: "no pending owner"
  Deployed,     \* [owner, emitter]: the address arguments of init
  MaxHistory,   \* the max_history argument of init
  Assets,       \* the assets revenue is reported in
  Amounts,      \* the amounts callers pass to emit_revenue
  U256,         \* the number of values of a U256
  MaxEvents     \* bound: how many events are emitted

ASSUME ZeroAssumption     == Zero \notin Accounts
ASSUME DeployedAssumption == Deployed \in [owner : Accounts, emitter : Accounts]
ASSUME HistoryAssumption  == MaxHistory \in Nat
ASSUME AmountsAssumption  == Amounts \subseteq Nat
ASSUME BoundsAssumption   == U256 \in Nat /\ MaxEvents \in Nat

VARIABLES
  owner, emitter,
  pending_owner,   \* who may accept ownership, or Zero
  paused,
  events, head,    \* the ring of the latest events
  total_emitted,   \* total_emitted[asset]: lifetime total
  history,         \* history: every event ever emitted, in order
  offeredBy        \* history: who last called transfer_ownership

roles == <<owner, emitter, pending_owner, offeredBy>>
log   == <<events, head, total_emitted, history>>
vars  == <<roles, paused, log>>

Cap == AtLeastOne(MaxHistory)

Event == [amount : Amounts, asset : Assets, emitter : Accounts]

-----------------------------------------------------------------------------
Init ==
  /\ owner = Deployed.owner
  /\ emitter = Deployed.emitter
  /\ pending_owner = Zero
  /\ paused = FALSE
  /\ events = << >>
  /\ head = 0
  /\ total_emitted = [a \in Assets |-> 0]
  /\ history = << >>
  /\ offeredBy = Zero

\* Any address may be offered ownership, the zero address too (a withdrawal
\* of the offer); a later offer replaces an earlier one.
TransferOwnership(caller, newOwner) ==
  /\ caller = owner
  /\ pending_owner' = newOwner
  /\ offeredBy' = caller
  /\ UNCHANGED <<owner, emitter, paused, log>>

\* Mutant: the offer is not cleared once it was accepted.
AcceptKeepsOffer(caller) ==
  /\ pending_owner # Zero
  /\ caller = pending_owner
  /\ owner' = caller
  /\ UNCHANGED <<emitter, pending_owner, offeredBy, paused, log>>

AcceptOwnership(caller) ==
  /\ pending_owner # Zero
  /\ caller = pending_owner
  /\ owner' = caller
  /\ pending_owner' = Zero
  /\ UNCHANGED <<emitter, offeredBy, paused, log>>

\* Any address may become the emitter, the zero address too, as which nobody calls.
SetEmitter(caller, newEmitter) ==
  /\ caller = owner
  /\ emitter' = newEmitter
  /\ UNCHANGED <<owner, pending_owner, offeredBy, paused, log>>

SetPaused(caller, p) ==
  /\ caller = owner
  /\ paused' = p
  /\ UNCHANGED <<roles, log>>

\* Mutant: the total is only kept while the ring still grows.
AccumulateWhileGrowing(a, amount) ==
  total_emitted' = IF Len(events) < Cap
                   THEN [total_emitted EXCEPT ![a] = @ + amount] ELSE total_emitted

Accumulate(a, amount) == total_emitted' = [total_emitted EXCEPT ![a] = @ + amount]

EmitRevenue(caller, amount, asset) ==
  LET event == [amount |-> amount, asset |-> asset, emitter |-> caller] IN
  /\ Len(history) < MaxEvents
  /\ ~paused
  /\ caller \in {emitter, owner}
  /\ amount > 0
  /\ total_emitted[asset] + amount < U256
  /\ events' = Written(events, head, Cap, event)
  /\ head' = NextHead(events, head, Cap)
  /\ Accumulate(asset, amount)
  /\ history' = Append(history, event)
  /\ UNCHANGED <<roles, paused>>

Next ==
  \E caller \in Accounts :
    \/ \E new \in Accounts \cup {Zero} : TransferOwnership(caller, new)
    \/ AcceptOwnership(caller)
    \/ \E new \in Accounts \cup {Zero} : SetEmitter(caller, new)
    \/ \E p \in BOOLEAN : SetPaused(caller, p)
    \/ \E amount \in Amounts, asset \in Assets : EmitRevenue(caller, amount, asset)

Spec == Init /\ [][Next]_vars

get_recent_events(limit) == Recent(events, head, Cap, limit)

-----------------------------------------------------------------------------
\* Every variable has its type; the ring never outgrows its capacity.
TypeOK ==
  /\ owner \in Accounts
  /\ emitter \in Accounts \cup {Zero}
  /\ pending_owner \in Accounts \cup {Zero}
  /\ offeredBy \in Accounts \cup {Zero}
  /\ paused \in BOOLEAN
  /\ events \in Seq(Event) /\ Len(events) <= Cap
  /\ head \in 0 .. Cap - 1
  /\ total_emitted \in [Assets -> Nat]
  /\ history \in Seq(Event)

\* get_recent_events(limit) returns exactly the last `limit` events that were
\* emitted, oldest first, for every limit and every position of the head.
\* (With the types.)
RecentIsLatest ==
  /\ TypeOK
  /\ \A limit \in 0 .. Cap + 1 :
       get_recent_events(limit) = LastN(history, AtMost(limit, Cap))

\* The lifetime total of an asset is the sum of all its events, those the ring
\* has dropped included.
TotalsMatchHistory ==
  \A a \in Assets :
    total_emitted[a] = MapThenSumSet(LAMBDA i : history[i].amount,
                                     {i \in DOMAIN history : history[i].asset = a})

\* An outstanding offer of ownership always comes from the present owner: no
\* offer of a former owner survives a change of ownership.
OffersAreCurrent == pending_owner # Zero => offeredBy = owner
=============================================================================
