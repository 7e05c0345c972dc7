------------------------ MODULE RevenueEmitter_proofs ------------------------
(***************************************************************************)
(* What the RevenueEmitter's ring shows, what its totals add up to and who *)
(* may take it over, for any accounts, assets, amounts, max_history and    *)
(* number of events.                                                       *)
(***************************************************************************)
EXTENDS RevenueEmitter, DataLemmas

\* The ring holds the latest events: from it, RecentIsLatest.
RingShape == HoldsLatest(events, head, history, Cap)

EventsOf(a) == {i \in DOMAIN history : history[i].asset = a}
Shares      == [i \in DOMAIN history |-> history[i].amount]

\* TotalsMatchHistory in the form the lemmas on sums speak of.
TotalsAddUp == \A a \in Assets : total_emitted[a] = SumOf(Shares, EventsOf(a))

IInv == TypeOK /\ RingShape /\ TotalsAddUp /\ OffersAreCurrent

-----------------------------------------------------------------------------
LEMMA CapPositive == Cap \in Nat \ {0}
  BY HistoryAssumption, AtLeastOnePositive DEF Cap

LEMMA Types ==
  ASSUME TypeOK
  PROVE  /\ events \in Seq(Event)
         /\ history \in Seq(Event) /\ Len(history) \in Nat /\ DOMAIN history = 1 .. Len(history)
         /\ Cap \in Nat \ {0} /\ head \in 0 .. Cap - 1
         /\ \A i \in DOMAIN history : history[i].amount \in Nat
<1>1. history \in Seq(Event)
  BY DEF TypeOK
<1>2. \A i \in DOMAIN history : history[i] \in Event
  BY <1>1, LenProperties, ElementOfSeq
<1>3. \A i \in DOMAIN history : history[i].amount \in Nat
  BY <1>2, AmountsAssumption DEF Event
<1> QED
  BY <1>1, <1>3, CapPositive, LenProperties DEF TypeOK

LEMMA EventsAreFinite ==
  ASSUME TypeOK
  PROVE  \A a : IsFiniteSet(EventsOf(a)) /\ EventsOf(a) \subseteq 1 .. Len(history)
<1>1. DOMAIN history = 1 .. Len(history) /\ Len(history) \in Nat
  BY Types
<1>2. IsFiniteSet(1 .. Len(history))
  BY <1>1, FS_Interval
<1> QED
  BY <1>1, <1>2, FS_Subset DEF EventsOf

\* The sum TotalsMatchHistory writes is the sum of the shares.
LEMMA EmittedIsSum ==
  ASSUME NEW a, IsFiniteSet(EventsOf(a))
  PROVE  MapThenSumSet(LAMBDA i : history[i].amount, EventsOf(a)) = SumOf(Shares, EventsOf(a))
<1>. DEFINE S == EventsOf(a)
            emitted == MapThenSumSet(LAMBDA i : history[i].amount, S)
            Solves(g) == g = [s \in SUBSET S |-> IF s = {} THEN 0
                                ELSE history[Pick(s)].amount + g[s \ {Pick(s)}]]
<1>1. ASSUME NEW g
      PROVE  Solves(g) <=> Sums(g, Shares, S)
  <2>1. \A s \in SUBSET S : s # {} => Pick(s) \in s /\ Pick(s) \in DOMAIN history
    BY DEF Pick, EventsOf
  <2>2. \A s \in SUBSET S : s # {} => Shares[Pick(s)] = history[Pick(s)].amount
    BY <2>1 DEF Shares
  <2>. HIDE DEF S
  <2>3. [s \in SUBSET S |-> IF s = {} THEN 0 ELSE history[Pick(s)].amount + g[s \ {Pick(s)}]] =
        [s \in SUBSET S |-> IF s = {} THEN 0 ELSE Shares[Pick(s)] + g[s \ {Pick(s)}]]
    BY <2>2
  <2> QED
    BY <2>3, Zenon DEF Sums, AddsUp
<1>2. (\E g : Solves(g)) => \E g : Solves(g) /\ emitted = g[S]
  BY DEF MapThenSumSet, MapThenFoldSet, Pick
<1>. HIDE DEF Solves, S, emitted
<1>3. IsFiniteSet(S)
  BY DEF S
<1>4. PICK g : Sums(g, Shares, S) /\ emitted = g[S]
  BY <1>1, <1>2, <1>3, AddsUpExists
<1>5. SumOf(Shares, S) = g[S]
  BY <1>3, <1>4, SumIsUnique
<1> QED
  BY <1>4, <1>5 DEF S, emitted

LEMMA InitInv == Init => IInv
<1>. SUFFICES ASSUME Init PROVE IInv
  OBVIOUS
<1>1. events = << >> /\ history = << >> /\ Len(history) = 0 /\ head = 0
  BY DEF Init
<1>2. TypeOK
  <2>1. events \in Seq(Event) /\ history \in Seq(Event) /\ Len(events) <= Cap
    BY <1>1, CapPositive
  <2>2. head \in 0 .. Cap - 1
    BY <1>1, CapPositive
  <2>3. total_emitted \in [Assets -> Nat] /\ paused \in BOOLEAN
    BY DEF Init
  <2>4. /\ owner \in Accounts /\ emitter \in Accounts \cup {Zero}
        /\ pending_owner \in Accounts \cup {Zero} /\ offeredBy \in Accounts \cup {Zero}
    BY DeployedAssumption DEF Init
  <2> QED
    BY <2>1, <2>2, <2>3, <2>4 DEF TypeOK
<1>3. RingShape
  BY <1>1, CapPositive DEF RingShape, HoldsLatest
<1>4. OffersAreCurrent
  BY DEF Init, OffersAreCurrent
<1>5. TotalsAddUp
  <2>1. \A a : EventsOf(a) = {}
    BY <1>1 DEF EventsOf
  <2>2. \A a \in Assets : total_emitted[a] = 0
    BY DEF Init
  <2> QED
    BY <2>1, <2>2, SumOfNothing DEF TotalsAddUp
<1> QED
  BY <1>2, <1>3, <1>4, <1>5 DEF IInv

\* A call that leaves the ring alone.
LEMMA RolesStep ==
  ASSUME IInv, NEW caller \in Accounts,
         \/ \E new \in Accounts \cup {Zero} : TransferOwnership(caller, new)
         \/ AcceptOwnership(caller)
         \/ \E new \in Accounts \cup {Zero} : SetEmitter(caller, new)
         \/ \E p \in BOOLEAN : SetPaused(caller, p)
  PROVE  IInv'
<1>1. UNCHANGED log /\ TypeOK /\ RingShape /\ TotalsAddUp /\ OffersAreCurrent
  BY DEF IInv, TransferOwnership, AcceptOwnership, SetEmitter, SetPaused
<1>2. /\ owner' \in Accounts /\ emitter' \in Accounts \cup {Zero} /\ paused' \in BOOLEAN
      /\ pending_owner' \in Accounts \cup {Zero} /\ offeredBy' \in Accounts \cup {Zero}
  BY <1>1 DEF TypeOK, TransferOwnership, AcceptOwnership, SetEmitter, SetPaused, roles
<1>3. TypeOK'
  BY <1>1, <1>2 DEF TypeOK, log
<1>4. RingShape' /\ TotalsAddUp'
  BY <1>1 DEF RingShape, TotalsAddUp, EventsOf, Shares, Cap, log
<1>5. OffersAreCurrent'
  BY <1>1 DEF OffersAreCurrent, TransferOwnership, AcceptOwnership, SetEmitter, SetPaused, roles
<1> QED
  BY <1>3, <1>4, <1>5 DEF IInv

\* An event joins those of its own asset and no other's.
LEMMA EmitAddsUp ==
  ASSUME TypeOK, TotalsAddUp, NEW event \in Event, history' = Append(history, event),
         total_emitted' = [total_emitted EXCEPT ![event.asset] = @ + event.amount]
  PROVE  TotalsAddUp'
<1>. DEFINE n == Len(history) + 1
<1>1. /\ Len(history) \in Nat /\ DOMAIN history = 1 .. Len(history)
      /\ \A i \in DOMAIN history : history[i].amount \in Nat
      /\ total_emitted \in [Assets -> Nat]
  BY Types DEF TypeOK
<1>2. event.amount \in Nat /\ event.asset \in Assets
  BY AmountsAssumption DEF Event
<1>3. /\ DOMAIN history' = 1 .. n /\ history'[n] = event
      /\ \A i \in 1 .. Len(history) : history'[i] = history[i]
  BY <1>1, AppendProperties DEF TypeOK
<1>4. n \notin DOMAIN history /\ DOMAIN history' = DOMAIN history \cup {n}
  BY <1>1, <1>3
<1>. HIDE DEF n
<1>5. /\ Shares'[n] = event.amount
      /\ \A i \in DOMAIN history : Shares[i] \in Nat /\ Shares'[i] = Shares[i]
  BY <1>1, <1>3, <1>4 DEF Shares
<1>6. ASSUME NEW a \in Assets
      PROVE  total_emitted'[a] = SumOf(Shares', EventsOf(a)')
  <2>1. /\ IsFiniteSet(EventsOf(a)) /\ EventsOf(a) \subseteq DOMAIN history
        /\ n \notin EventsOf(a)
    BY <1>4, EventsAreFinite DEF EventsOf
  <2>2. total_emitted[a] = SumOf(Shares, EventsOf(a))
    BY DEF TotalsAddUp
  <2>3. CASE a = event.asset
    <3>1. EventsOf(a)' = EventsOf(a) \cup {n}
      BY <1>1, <1>3, <1>4, <2>3 DEF EventsOf
    <3>. DEFINE k == Shares'
    <3>2. /\ \A i \in EventsOf(a) : Shares[i] \in Nat /\ k[i] = Shares[i]
          /\ k[n] \in Nat /\ k[n] = event.amount
      BY <1>2, <1>5, <2>1
    <3>. HIDE DEF k
    <3>3. SumOf(k, EventsOf(a) \cup {n}) = SumOf(Shares, EventsOf(a)) + event.amount
      BY <2>1, <3>2, SumJoins
    <3>4. total_emitted'[a] = total_emitted[a] + event.amount
      BY <1>1, <2>3
    <3> QED
      BY <2>2, <3>1, <3>3, <3>4 DEF k
  <2>4. CASE a # event.asset
    <3>1. EventsOf(a)' = EventsOf(a)
      BY <1>1, <1>3, <1>4, <2>4 DEF EventsOf
    <3>. DEFINE k == Shares'
    <3>2. \A i \in EventsOf(a) : Shares[i] = k[i]
      BY <1>5, <2>1
    <3>. HIDE DEF k
    <3>3. SumOf(Shares, EventsOf(a)) = SumOf(k, EventsOf(a))
      BY <2>1, <3>2, SumExtensional
    <3>4. total_emitted'[a] = total_emitted[a]
      BY <1>1, <2>4
    <3> QED
      BY <2>2, <3>1, <3>3, <3>4 DEF k
  <2> QED
    BY <2>3, <2>4
<1> QED
  BY <1>6 DEF TotalsAddUp

LEMMA EmitStep ==
  ASSUME IInv, NEW caller \in Accounts, NEW amount \in Amounts, NEW asset \in Assets,
         EmitRevenue(caller, amount, asset)
  PROVE  IInv'
<1>. DEFINE event == [amount |-> amount, asset |-> asset, emitter |-> caller]
<1>1. /\ TypeOK /\ RingShape /\ TotalsAddUp /\ OffersAreCurrent
      /\ events' = Written(events, head, Cap, event)
      /\ head' = NextHead(events, head, Cap)
      /\ total_emitted' = [total_emitted EXCEPT ![event.asset] = @ + event.amount]
      /\ history' = Append(history, event)
      /\ UNCHANGED <<roles, paused>>
  BY DEF EmitRevenue, IInv, Accumulate
<1>2. event \in Event
  BY DEF Event
<1>. HIDE DEF event
<1>3. /\ events \in Seq(Event) /\ history \in Seq(Event) /\ Len(events) <= Cap
      /\ Cap \in Nat \ {0} /\ head \in 0 .. Cap - 1
  BY <1>1, Types DEF TypeOK
<1>4. /\ events' \in Seq(Event) /\ Len(events') <= Cap
      /\ head' \in 0 .. Cap - 1
      /\ HoldsLatest(events', head', history', Cap)
  BY <1>1, <1>2, <1>3, RingWrite DEF RingShape
<1>5. history' \in Seq(Event)
  BY <1>1, <1>2, <1>3, AppendProperties
<1>6. total_emitted' \in [Assets -> Nat]
  <2>1. event.amount \in Nat /\ event.asset \in Assets
    BY <1>2, AmountsAssumption DEF Event
  <2>2. total_emitted \in [Assets -> Nat] /\ total_emitted[event.asset] + event.amount \in Nat
    BY <1>1, <2>1 DEF TypeOK
  <2> QED
    BY <1>1, <2>1, <2>2
<1>7. TypeOK'
  BY <1>1, <1>4, <1>5, <1>6 DEF TypeOK, roles, Cap
<1>8. RingShape'
  BY <1>4 DEF RingShape, Cap
<1>9. TotalsAddUp'
  BY <1>1, <1>2, EmitAddsUp
<1>10. OffersAreCurrent'
  BY <1>1 DEF OffersAreCurrent, roles
<1> QED
  BY <1>7, <1>8, <1>9, <1>10 DEF IInv

LEMMA Inductive == Spec => []IInv
<1>1. IInv /\ [Next]_vars => IInv'
  <2>. SUFFICES ASSUME IInv, [Next]_vars PROVE IInv'
    OBVIOUS
  <2>1. CASE UNCHANGED vars
    <3>1. UNCHANGED <<log, roles, paused>>
      BY <2>1 DEF vars
    <3> QED
      BY <3>1 DEF IInv, TypeOK, RingShape, TotalsAddUp, EventsOf, Shares, OffersAreCurrent, Cap,
         log, roles
  <2>2. ASSUME NEW caller \in Accounts,
               \/ \E new \in Accounts \cup {Zero} : TransferOwnership(caller, new)
               \/ AcceptOwnership(caller)
               \/ \E new \in Accounts \cup {Zero} : SetEmitter(caller, new)
               \/ \E p \in BOOLEAN : SetPaused(caller, p)
        PROVE  IInv'
    BY <2>2, RolesStep
  <2> QED
    BY <2>1, <2>2, EmitStep DEF Next
<1> QED
  BY <1>1, InitInv, PTL DEF Spec

-----------------------------------------------------------------------------
\* get_recent_events shows the end of the history, for every limit.
THEOREM RecentStaysLatest == Spec => []RecentIsLatest
<1>1. IInv => RecentIsLatest
  <2>. SUFFICES ASSUME IInv, NEW limit \in 0 .. Cap + 1
                PROVE  get_recent_events(limit) = LastN(history, AtMost(limit, Cap))
    BY DEF IInv, RecentIsLatest
  <2>1. /\ TypeOK /\ limit \in Nat
        /\ HoldsLatest(events, head, history, Cap)
    BY CapPositive DEF IInv, RingShape
  <2> QED
    BY <2>1, RingView, Types DEF get_recent_events
<1> QED
  BY <1>1, Inductive, PTL

\* The lifetime total of every asset is the sum of all its events, those the
\* ring has dropped included.
THEOREM TotalsStayExact == Spec => []TotalsMatchHistory
<1>1. IInv => TotalsMatchHistory
  <2>. SUFFICES ASSUME IInv, NEW a \in Assets
                PROVE  total_emitted[a] = MapThenSumSet(LAMBDA i : history[i].amount, EventsOf(a))
    BY DEF TotalsMatchHistory, EventsOf
  <2>1. IsFiniteSet(EventsOf(a)) /\ total_emitted[a] = SumOf(Shares, EventsOf(a))
    BY EventsAreFinite DEF IInv, TotalsAddUp
  <2> QED
    BY <2>1, EmittedIsSum
<1> QED
  BY <1>1, Inductive, PTL

\* No offer of ownership outlives the owner who made it.
THEOREM OffersStayCurrent == Spec => []OffersAreCurrent
<1>1. IInv => OffersAreCurrent
  BY DEF IInv
<1> QED
  BY <1>1, Inductive, PTL
=============================================================================
