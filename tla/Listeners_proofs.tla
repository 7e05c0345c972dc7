--------------------------- MODULE Listeners_proofs ---------------------------
(***************************************************************************)
(* What the agent's two listeners hand on: the deposit consumer, for any   *)
(* number of calls of start, deposits and crossing answers, and the live   *)
(* feed of one client, for any number of events, however often the sockets *)
(* drop and come back, and with room for as many sockets as one likes.     *)
(***************************************************************************)
EXTENDS DepositConsumer, LiveFeed, FiniteSetTheorems, SequenceTheorems, TLAPS

-----------------------------------------------------------------------------
(***************************************************************************)
(* The deposit consumer.                                                   *)
(***************************************************************************)
\* lastSeenId is at least all that was delivered, and above 0 from the first id
\* seen: why a late answer of another chain delivers nothing old.
SeenCovers ==
  /\ firstSeenId = 0 => lastSeenId = 0
  /\ \A i \in DOMAIN delivered : delivered[i] <= lastSeenId

\* After stop every chain in flight may deliver once more, and no other.
FlightCovers == stopped => Len(delivered) + Cardinality(InFlight) <= limit

\* What was asked for is an id the contract has given out.
AnswersExist == \A l \in Chains : answer[l] <= deposit_count

OrderInv == DeliveredInOrder /\ SeenCovers /\ AnswersExist

-----------------------------------------------------------------------------
LEMMA InFlightIsFinite == IsFiniteSet(InFlight) /\ Cardinality(InFlight) \in Nat
  BY FS_Subset, FS_CardinalityType, ChainsAssumption DEF InFlight

\* What the end of a poll does to its chain.
LEMMA SleepEffect ==
  ASSUME TypeOK, NEW l \in Chains, Sleep(l)
  PROVE  /\ poll' \in [Chains -> Places] /\ poll[l] = "answered"
         /\ timer' \subseteq Chains /\ Cardinality(timer') <= 1
         /\ \A m \in Chains : m # l => poll'[m] = poll[m]
         /\ poll'[l] = IF stopped THEN "over" ELSE "sleeping"
<1>1. CASE stopped
  BY <1>1 DEF Sleep, Move, TypeOK, Places
<1>2. CASE ~stopped
  <2>1. timer' = {l} /\ poll' = [poll EXCEPT ![l] = "sleeping"] /\ poll[l] = "answered"
    BY <1>2 DEF Sleep, Move
  <2>2. Cardinality({l}) = 1
    BY FS_Singleton
  <2> QED
    BY <1>2, <2>1, <2>2 DEF TypeOK, Places
<1> QED
  BY <1>1, <1>2

LEMMA PollEffect ==
  ASSUME TypeOK, NEW l \in Chains, NEW from \in {"new", "sleeping"}, Poll(l, from)
  PROVE  /\ poll' \in [Chains -> Places]
         /\ \A m \in Chains : m # l => poll'[m] = poll[m]
         /\ poll'[l] = IF stopped THEN "over" ELSE "asking"
  BY DEF Poll, Move, TypeOK, Places

\* The next entry of an ordered list of deliveries.
LEMMA AppendInOrder ==
  ASSUME NEW n \in Nat, NEW s \in Seq(1 .. n), NEW first \in Nat, NEW last \in Nat, NEW id \in 1 .. n,
         first < id, last < id,
         \A i \in DOMAIN s : first < s[i] /\ s[i] <= last,
         \A i, j \in DOMAIN s : i < j => s[i] < s[j]
  PROVE  /\ Append(s, id) \in Seq(1 .. n)
         /\ Len(Append(s, id)) = Len(s) + 1
         /\ \A i \in DOMAIN Append(s, id) : first < Append(s, id)[i] /\ Append(s, id)[i] <= id
         /\ \A i, j \in DOMAIN Append(s, id) : i < j => Append(s, id)[i] < Append(s, id)[j]
<1>. DEFINE t == Append(s, id)
<1>1. /\ t \in Seq(1 .. n) /\ Len(t) = Len(s) + 1 /\ Len(s) \in Nat
      /\ t[Len(s) + 1] = id
      /\ \A i \in 1 .. Len(s) : t[i] = s[i]
  OBVIOUS
<1>2. DOMAIN s = 1 .. Len(s) /\ DOMAIN t = 1 .. (Len(s) + 1)
  BY <1>1
<1>3. \A i \in 1 .. Len(s) : s[i] \in 1 .. n
  BY <1>2
<1>4. ASSUME NEW i \in DOMAIN t
      PROVE  first < t[i] /\ t[i] <= id
  BY <1>1, <1>2, <1>3, <1>4
<1>5. ASSUME NEW i \in DOMAIN t, NEW j \in DOMAIN t, i < j
      PROVE  t[i] < t[j]
  <2>1. i \in 1 .. Len(s)
    BY <1>1, <1>2, <1>5
  <2>2. CASE j = Len(s) + 1
    BY <1>1, <1>2, <1>3, <2>1, <2>2
  <2>3. CASE j \in 1 .. Len(s)
    BY <1>1, <1>2, <1>5, <2>1, <2>3
  <2> QED
    BY <1>1, <1>2, <2>2, <2>3
<1> QED
  BY <1>1, <1>4, <1>5

-----------------------------------------------------------------------------
LEMMA InitInv == Init => OrderInv /\ FlightCovers
<1>. SUFFICES ASSUME Init PROVE OrderInv /\ FlightCovers
  OBVIOUS
<1>1. Cardinality(timer) <= 1
  BY FS_EmptySet DEF Init
<1>2. TypeOK
  <2>1. poll \in [Chains -> Places] /\ answer \in [Chains -> 0 .. MaxDeposits]
    BY DepositsAssumption DEF Init, Places
  <2>2. delivered \in Seq(1 .. deposit_count)
    BY DEF Init
  <2>3. /\ deposit_count = 0 /\ lastSeenId = 0 /\ firstSeenId = 0 /\ limit = 0
        /\ stopped \in BOOLEAN
    BY DEF Init
  <2>5. 0 \in 0 .. MaxDeposits /\ 0 \in 0 .. 0 /\ 0 \in Nat
    BY DepositsAssumption
  <2>4. timer \subseteq Chains
    BY DEF Init
  <2> QED
    BY <1>1, <2>1, <2>2, <2>3, <2>4, <2>5 DEF TypeOK
<1>3. DeliveredInOrder /\ SeenCovers /\ AnswersExist /\ FlightCovers
  BY <1>2 DEF Init, DeliveredInOrder, SeenCovers, AnswersExist, FlightCovers
<1> QED
  BY <1>3 DEF OrderInv

\* The continuation of a poll delivers what is above lastSeenId only.
LEMMA HandleStep ==
  ASSUME OrderInv, NEW l \in Chains, Handle(l)
  PROVE  OrderInv'
<1>1. /\ TypeOK
      /\ poll' \in [Chains -> Places] /\ timer' \subseteq Chains /\ Cardinality(timer') <= 1
  BY SleepEffect DEF Handle, OrderInv, DeliveredInOrder
<1>2. /\ answer[l] \in Nat /\ lastSeenId \in Nat /\ firstSeenId \in Nat /\ deposit_count \in Nat
      /\ firstSeenId <= lastSeenId /\ lastSeenId <= deposit_count
      /\ delivered \in Seq(1 .. deposit_count)
  BY <1>1, DepositsAssumption DEF TypeOK
<1>3. /\ \A i \in DOMAIN delivered : firstSeenId < delivered[i] /\ delivered[i] <= lastSeenId
      /\ \A i, j \in DOMAIN delivered : i < j => delivered[i] < delivered[j]
      /\ firstSeenId = 0 => lastSeenId = 0
  <2>1. \A i \in DOMAIN delivered : delivered[i] \in 1 .. deposit_count
    BY <1>2
  <2> QED
    BY <1>2, <2>1 DEF OrderInv, DeliveredInOrder, SeenCovers
<1>4. answer[l] <= deposit_count
  BY DEF OrderInv, AnswersExist
<1>5. /\ lastSeenId' \in 0 .. deposit_count
      /\ lastSeenId <= lastSeenId'
      /\ firstSeenId' \in 0 .. lastSeenId'
      /\ firstSeenId' = 0 => lastSeenId' = 0
      /\ UNCHANGED <<deposit_count, answer, stopped, limit>>
  BY <1>2, <1>3, <1>4 DEF Handle, IsNew
<1>6. /\ delivered' \in Seq(1 .. deposit_count)
      /\ \A i \in DOMAIN delivered' : firstSeenId' < delivered'[i] /\ delivered'[i] <= lastSeenId'
      /\ \A i, j \in DOMAIN delivered' : i < j => delivered'[i] < delivered'[j]
  <2>1. CASE IsReported(answer[l])
    <3>1. /\ firstSeenId' = firstSeenId /\ lastSeenId' = answer[l]
          /\ firstSeenId < answer[l] /\ lastSeenId < answer[l] /\ answer[l] \in 1 .. deposit_count
          /\ delivered' = Append(delivered, answer[l])
      BY <1>2, <1>3, <1>4, <2>1 DEF Handle, IsReported, IsNew
    <3> QED
      BY <1>2, <1>3, <3>1, AppendInOrder
  <2>2. CASE ~IsReported(answer[l])
    <3>1. delivered' = delivered
      BY <2>2 DEF Handle
    <3>2. ASSUME NEW i \in DOMAIN delivered
          PROVE  firstSeenId' < delivered[i] /\ delivered[i] <= lastSeenId'
      <4>1. delivered[i] \in 1 .. deposit_count /\ firstSeenId < delivered[i] /\ delivered[i] <= lastSeenId
        BY <1>2, <1>3
      <4>2. firstSeenId # 0
        BY <1>2, <1>3, <4>1
      <4>3. firstSeenId' = firstSeenId
        BY <4>2 DEF Handle
      <4> QED
        BY <1>2, <1>5, <4>1, <4>3
    <3> QED
      BY <1>2, <1>3, <3>1, <3>2
  <2> QED
    BY <2>1, <2>2
<1>7. TypeOK'
  BY <1>1, <1>5, <1>6 DEF TypeOK
<1>8. AnswersExist'
  BY <1>5 DEF AnswersExist, OrderInv
<1> QED
  BY <1>5, <1>6, <1>7, <1>8 DEF OrderInv, DeliveredInOrder, SeenCovers

\* A step that neither sees an id nor delivers one.
LEMMA QuietStep ==
  ASSUME OrderInv, UNCHANGED <<deposit_count, lastSeenId, delivered, firstSeenId>>,
         poll' \in [Chains -> Places], timer' \subseteq Chains, Cardinality(timer') <= 1,
         answer' \in [Chains -> 0 .. deposit_count], stopped' \in BOOLEAN, limit' \in Nat
  PROVE  OrderInv'
<1>1. answer' \in [Chains -> 0 .. MaxDeposits]
  BY DepositsAssumption DEF OrderInv, DeliveredInOrder, TypeOK
<1>2. TypeOK'
  BY <1>1 DEF OrderInv, DeliveredInOrder, TypeOK
<1>3. AnswersExist'
  BY DepositsAssumption DEF AnswersExist, OrderInv, DeliveredInOrder, TypeOK
<1> QED
  BY <1>2, <1>3 DEF OrderInv, DeliveredInOrder, SeenCovers

LEMMA DepositStep == OrderInv /\ Deposit => OrderInv'
<1>. SUFFICES ASSUME OrderInv, Deposit PROVE OrderInv'
  OBVIOUS
<1>1. /\ TypeOK /\ deposit_count \in Nat /\ deposit_count' = deposit_count + 1
      /\ deposit_count' \in 0 .. MaxDeposits
      /\ UNCHANGED <<poll, answer, lastSeenId, timer, stopped, delivered, firstSeenId, limit>>
  BY DepositsAssumption DEF Deposit, consumer, OrderInv, DeliveredInOrder, TypeOK
<1>2. delivered' \in Seq(1 .. deposit_count')
  <2>1. 1 .. deposit_count \subseteq 1 .. (deposit_count + 1)
    BY <1>1
  <2>2. delivered \in Seq(1 .. deposit_count)
    BY <1>1 DEF TypeOK
  <2>3. delivered \in Seq(1 .. (deposit_count + 1))
    BY <2>1, <2>2, SeqMonotonic
  <2> QED
    BY <1>1, <2>3
<1>3. lastSeenId' \in 0 .. deposit_count'
  BY <1>1 DEF TypeOK
<1>4. TypeOK'
  BY <1>1, <1>2, <1>3 DEF TypeOK
<1>5. AnswersExist'
  BY <1>1, DepositsAssumption DEF AnswersExist, OrderInv, TypeOK
<1> QED
  BY <1>1, <1>4, <1>5 DEF OrderInv, DeliveredInOrder, SeenCovers

LEMMA OrderStep == OrderInv /\ [Next]_vars => OrderInv'
<1>. SUFFICES ASSUME OrderInv, [Next]_vars PROVE OrderInv'
  OBVIOUS
<1>1. /\ TypeOK /\ deposit_count \in Nat /\ limit \in Nat /\ stopped \in BOOLEAN
      /\ poll \in [Chains -> Places] /\ timer \subseteq Chains /\ Cardinality(timer) <= 1
  BY DepositsAssumption DEF OrderInv, DeliveredInOrder, TypeOK
<1>2. answer \in [Chains -> 0 .. deposit_count]
  BY <1>1, DepositsAssumption DEF OrderInv, AnswersExist, TypeOK
<1>3. ASSUME NEW l \in Chains, Start(l) \/ Wake(l)
      PROVE  OrderInv'
  <2>1. poll' \in [Chains -> Places]
    BY <1>1, <1>3, PollEffect DEF Start, Wake
  <2>2. UNCHANGED <<deposit_count, answer, lastSeenId, stopped, timer, delivered, firstSeenId, limit>>
    BY <1>3 DEF Start, Wake
  <2> QED
    BY <1>1, <1>2, <2>1, <2>2, QuietStep
<1>4. ASSUME NEW l \in Chains, NEW id \in 0 .. deposit_count, Fetched(l, id)
      PROVE  OrderInv'
  <2>1. poll' \in [Chains -> Places] /\ answer' \in [Chains -> 0 .. deposit_count]
    BY <1>1, <1>2, <1>4 DEF Fetched, Move, Places
  <2>2. UNCHANGED <<deposit_count, lastSeenId, stopped, timer, delivered, firstSeenId, limit>>
    BY <1>4 DEF Fetched
  <2> QED
    BY <1>1, <2>1, <2>2, QuietStep
<1>5. ASSUME NEW l \in Chains, CallbackThrows(l)
      PROVE  OrderInv'
  <2>1. poll' \in [Chains -> Places] /\ timer' \subseteq Chains /\ Cardinality(timer') <= 1
    BY <1>1, <1>5, SleepEffect DEF CallbackThrows
  <2>2. UNCHANGED <<deposit_count, answer, lastSeenId, stopped, delivered, firstSeenId, limit>>
    BY <1>5 DEF CallbackThrows
  <2> QED
    BY <1>1, <1>2, <2>1, <2>2, QuietStep
<1>6. CASE Stop
  <2>1. poll' \in [Chains -> Places]
    BY <1>1, <1>6 DEF Stop, Places
  <2>2. limit' \in Nat
    <3>1. Len(delivered) \in Nat
      BY <1>1 DEF TypeOK
    <3> QED
      BY <1>6, <3>1, InFlightIsFinite DEF Stop
  <2>3. UNCHANGED <<deposit_count, answer, lastSeenId, timer, delivered, firstSeenId>> /\ stopped' = TRUE
    BY <1>6 DEF Stop
  <2> QED
    BY <1>1, <1>2, <2>1, <2>2, <2>3, QuietStep
<1>7. CASE UNCHANGED vars
  BY <1>1, <1>2, <1>7, QuietStep DEF vars, consumer
<1>8. 0 \in 0 .. deposit_count /\ deposit_count \in 0 .. deposit_count
  BY <1>1
<1> QED
  BY <1>3, <1>4, <1>5, <1>6, <1>7, <1>8, HandleStep, DepositStep
  DEF Next, Proceed, FetchNewest, FetchFails

-----------------------------------------------------------------------------
\* A poll in flight that ends takes one from the polls in flight.
LEMMA LandingEffect ==
  ASSUME TypeOK, NEW l \in Chains, Sleep(l)
  PROVE  Cardinality(InFlight') = Cardinality(InFlight) - 1
<1>1. InFlight' = InFlight \ {l} /\ l \in InFlight
  BY SleepEffect DEF InFlight
<1> QED
  BY <1>1, InFlightIsFinite, FS_RemoveElement

LEMMA FlightStep == OrderInv /\ FlightCovers /\ [Next]_vars => FlightCovers'
<1>. SUFFICES ASSUME OrderInv, FlightCovers, [Next]_vars, stopped'
              PROVE  Len(delivered') + Cardinality(InFlight') <= limit'
  BY DEF FlightCovers
<1>1. TypeOK /\ Len(delivered) \in Nat /\ limit \in Nat /\ Cardinality(InFlight) \in Nat
  BY InFlightIsFinite DEF OrderInv, DeliveredInOrder, TypeOK
<1>2. stopped => Len(delivered) + Cardinality(InFlight) <= limit
  BY DEF FlightCovers
<1>3. ASSUME NEW l \in Chains, Start(l) \/ Wake(l)
      PROVE  Len(delivered') + Cardinality(InFlight') <= limit'
  <2>1. stopped /\ UNCHANGED <<delivered, limit>>
    BY <1>3 DEF Start, Wake
  <2>2. InFlight' \subseteq InFlight
    BY <1>1, <1>3, <2>1, PollEffect DEF Start, Wake, InFlight
  <2>3. Cardinality(InFlight') <= Cardinality(InFlight) /\ Cardinality(InFlight') \in Nat
    BY <2>2, InFlightIsFinite, FS_Subset, FS_CardinalityType
  <2> QED
    BY <1>1, <1>2, <2>1, <2>3
<1>4. ASSUME NEW l \in Chains, NEW id, Fetched(l, id)
      PROVE  Len(delivered') + Cardinality(InFlight') <= limit'
  <2>1. InFlight' = InFlight
    BY <1>1, <1>4 DEF Fetched, Move, InFlight, TypeOK
  <2> QED
    BY <1>2, <1>4, <2>1 DEF Fetched
<1>5. ASSUME NEW l \in Chains, Handle(l)
      PROVE  Len(delivered') + Cardinality(InFlight') <= limit'
  <2>1. stopped /\ limit' = limit /\ Cardinality(InFlight') = Cardinality(InFlight) - 1
    BY <1>1, <1>5, LandingEffect DEF Handle
  <2>2. Len(delivered') \in {Len(delivered), Len(delivered) + 1}
    <3>1. delivered \in Seq(1 .. deposit_count)
      BY <1>1 DEF TypeOK
    <3>2. delivered' \in {delivered, Append(delivered, answer[l])}
      BY <1>5 DEF Handle
    <3> QED
      BY <3>1, <3>2
  <2> QED
    BY <1>1, <1>2, <2>1, <2>2
<1>6. ASSUME NEW l \in Chains, CallbackThrows(l)
      PROVE  Len(delivered') + Cardinality(InFlight') <= limit'
  <2>1. /\ stopped /\ UNCHANGED <<limit, delivered>>
        /\ Cardinality(InFlight') = Cardinality(InFlight) - 1
    BY <1>1, <1>6, LandingEffect DEF CallbackThrows
  <2> QED
    BY <1>1, <1>2, <2>1
<1>7. CASE Stop
  <2>1. InFlight' = InFlight
    BY <1>7 DEF Stop, InFlight
  <2> QED
    BY <1>1, <1>7, <2>1 DEF Stop
<1>8. CASE Deposit \/ UNCHANGED vars
  <2>1. UNCHANGED <<poll, delivered, limit, stopped>>
    BY <1>8 DEF Deposit, consumer, vars
  <2>2. InFlight' = InFlight
    BY <2>1 DEF InFlight
  <2> QED
    BY <1>2, <2>1, <2>2
<1> QED
  BY <1>3, <1>4, <1>5, <1>6, <1>7, <1>8 DEF Next, Proceed, FetchNewest, FetchFails

LEMMA Inductive == Spec => [](OrderInv /\ FlightCovers)
  BY InitInv, OrderStep, FlightStep, PTL DEF Spec

\* However many chains of polls cross, and wherever stop and failing callbacks
\* fall, no deposit is delivered twice, after a later one, or when it was there
\* at the first look.
THEOREM DeliveriesInOrder == Spec => []DeliveredInOrder
<1>1. OrderInv => DeliveredInOrder
  BY DEF OrderInv
<1> QED
  BY <1>1, Inductive, PTL

\* After stop at most the polls then in flight deliver, once each: the safety
\* part of StopIsFinal.
THEOREM StopBoundsDeliveries == Spec => [](stopped => Len(delivered) <= limit)
<1>1. OrderInv /\ FlightCovers => (stopped => Len(delivered) <= limit)
  <2>1. OrderInv => Len(delivered) \in Nat /\ limit \in Nat
    BY DEF OrderInv, DeliveredInOrder, TypeOK
  <2> QED
    BY <2>1, InFlightIsFinite DEF FlightCovers
<1> QED
  BY <1>1, Inductive, PTL

-----------------------------------------------------------------------------
(***************************************************************************)
(* The live feed.                                                          *)
(***************************************************************************)
SocketStates == [at : {"free", "connecting", "open", "closing"}, next : 0..(MaxEvents + 1)]

\* A subscription has a socket, or waits for one, or neither.
OneConnection ==
  \A k \in Kinds : timers[k] <= 1 /\ \A s, t \in Live(k) : s = t /\ timers[k] = 0

\* What a socket gets next is later than all that was written of its kind.
NextIsNew ==
  \A k \in Kinds, s \in Sockets :
    socket[k][s].next > 0 =>
      \A i \in DOMAIN written : written[i].kind = k => written[i].event < socket[k][s].next

Genuine(w) == Passes(w.kind, upstream[w.event])

WrittenInOrder ==
  \A i \in DOMAIN written :
    /\ written[i].event <= Len(upstream) /\ Genuine(written[i])
    /\ \A j \in 1..(i - 1) :
         written[j].kind = written[i].kind => written[j].event < written[i].event

\* The socket's place lies within what was sent.
Within == /\ Len(upstream) <= MaxEvents
          /\ \A k \in Kinds, s \in Sockets : socket[k][s].next <= Len(upstream) + 1
          /\ \A k \in Kinds, s \in Sockets : socket[k][s].at = "free" => socket[k][s].next = 0

\* Before the request there is no connection.
Fresh == request = "none" => \A k \in Kinds : timers[k] = 0 /\ Live(k) = {}

FeedInv == FeedTypeOK /\ OneConnection /\ NextIsNew /\ WrittenInOrder /\ Within /\ Fresh

-----------------------------------------------------------------------------
LEMMA FirstOfIsIn == \A S : S # {} => FirstOf(S) \in S
  BY DEF FirstOf

LEMMA SetEffect ==
  ASSUME FeedTypeOK, NEW k \in Kinds, NEW s \in Sockets, NEW v \in SocketStates, Set(k, s, v)
  PROVE  /\ socket' \in [Kinds -> [Sockets -> SocketStates]]
         /\ socket'[k][s] = v
         /\ \A j \in Kinds, t \in Sockets : j # k \/ t # s => socket'[j][t] = socket[j][t]
  BY DEF Set, FeedTypeOK, SocketStates

LEMMA FreeIsState == Free \in SocketStates
  BY BoundAssumption DEF Free, SocketStates

LEMMA SocketFacts ==
  ASSUME FeedTypeOK, NEW k \in Kinds, NEW s \in Sockets
  PROVE  /\ socket[k][s] \in SocketStates /\ socket[k][s].next \in Nat
         /\ socket[k][s] = [at |-> socket[k][s].at, next |-> socket[k][s].next]
         /\ s \in Live(k) <=> socket[k][s].at # "free"
  BY BoundAssumption DEF FeedTypeOK, SocketStates, Live

LEMMA FeedFacts ==
  ASSUME FeedTypeOK
  PROVE  /\ Len(upstream) \in Nat
         /\ \A i \in DOMAIN written : written[i].kind \in Kinds /\ written[i].event \in 1..MaxEvents
         /\ \A i \in DOMAIN written : written[i].event \in Nat /\ written[i].event > 0
<1>1. upstream \in Seq(Events) /\ written \in Seq([kind : Kinds, event : 1..MaxEvents])
  BY DEF FeedTypeOK
<1>2. Len(upstream) \in Nat
  BY <1>1, LenProperties
<1>3. ASSUME NEW i \in DOMAIN written
      PROVE  written[i] \in [kind : Kinds, event : 1..MaxEvents]
  BY <1>1, LenProperties, ElementOfSeq
<1>4. \A i \in DOMAIN written : written[i].kind \in Kinds /\ written[i].event \in 1..MaxEvents
  BY <1>3
<1> QED
  BY <1>2, <1>4, BoundAssumption

LEMMA FeedInitInv == FeedInit => FeedInv
<1>. SUFFICES ASSUME FeedInit PROVE FeedInv
  OBVIOUS
<1>1. FeedTypeOK
  BY FirstOfIsIn, SocketsAssumption, FreeIsState, EmptySeq DEF FeedInit, FeedTypeOK, SocketStates
<1>2. OneConnection /\ NextIsNew /\ WrittenInOrder /\ Within /\ Fresh
  BY BoundAssumption DEF FeedInit, OneConnection, NextIsNew, WrittenInOrder, Within, Fresh, Live, Free
<1> QED
  BY <1>1, <1>2 DEF FeedInv

\* Steps that neither send nor write: what the feed rests on is then a matter of
\* where the sockets stand.
LEMMA FeedQuietStep ==
  ASSUME FeedInv, UNCHANGED <<upstream, written>>,
         \A k \in Kinds, s \in Sockets :
           socket'[k][s] = socket[k][s] \/ socket'[k][s].next = 0
           \/ (socket'[k][s].at # "free" /\ socket'[k][s].next = Len(upstream) + 1)
  PROVE  NextIsNew' /\ WrittenInOrder' /\ Within'
<1>1. Len(upstream) \in Nat /\ \A i \in DOMAIN written : written[i].event \in Nat
  BY FeedFacts DEF FeedInv
<1>2. WrittenInOrder'
  BY DEF FeedInv, WrittenInOrder, Genuine
<1>3. Within'
  BY <1>1 DEF FeedInv, Within
<1>4. NextIsNew'
  BY <1>1 DEF FeedInv, NextIsNew, WrittenInOrder
<1> QED
  BY <1>2, <1>3, <1>4

-----------------------------------------------------------------------------
LEMMA EmitStep == ASSUME FeedInv, NEW e \in Events, Emit(e) PROVE FeedInv'
<1>1. /\ FeedTypeOK /\ upstream' = Append(upstream, e) /\ Len(upstream) < MaxEvents
      /\ UNCHANGED <<configured, request, keepalive, subs, written>>
  BY DEF Emit, FeedInv
<1>2. /\ upstream' \in Seq(Events) /\ Len(upstream') = Len(upstream) + 1 /\ Len(upstream) \in Nat
      /\ \A n \in 1..Len(upstream) : upstream'[n] = upstream[n]
  BY <1>1 DEF FeedTypeOK
<1>3. FeedTypeOK'
  BY <1>1, <1>2 DEF FeedTypeOK, subs
<1>4. OneConnection' /\ NextIsNew' /\ Fresh'
  BY <1>1 DEF FeedInv, OneConnection, NextIsNew, Fresh, Live, subs
<1>5. WrittenInOrder'
  <2>1. ASSUME NEW i \in DOMAIN written
        PROVE  /\ upstream'[written[i].event] = upstream[written[i].event]
               /\ written[i].event <= Len(upstream')
    <3>1. written[i].event \in Nat /\ written[i].event > 0 /\ written[i].event <= Len(upstream)
      BY <1>1, FeedFacts DEF FeedInv, WrittenInOrder
    <3> QED
      BY <1>2, <3>1
  <2> QED
    BY <1>1, <2>1 DEF FeedInv, WrittenInOrder, Genuine
<1>6. Within'
  <2>1. \A k \in Kinds, s \in Sockets : socket[k][s].next \in Nat
    BY <1>1, SocketFacts
  <2> QED
    BY <1>1, <1>2, <2>1, BoundAssumption DEF FeedInv, Within, subs
<1> QED
  BY <1>3, <1>4, <1>5, <1>6 DEF FeedInv

LEMMA SubscribeStep == FeedInv /\ Subscribe => FeedInv'
<1>. SUFFICES ASSUME FeedInv, Subscribe PROVE FeedInv'
  OBVIOUS
<1>1. /\ FeedTypeOK /\ request' = "open" /\ keepalive' = TRUE
      /\ UNCHANGED <<configured, upstream, unsubscribed, timers, current, written>>
      /\ \A k \in Kinds : timers[k] = 0
  BY DEF Subscribe, FeedInv, Fresh
<1>2. [at |-> "connecting", next |-> 0] \in SocketStates
  BY BoundAssumption DEF SocketStates
<1>3. /\ socket' \in [Kinds -> [Sockets -> SocketStates]]
      /\ \A k \in Kinds, s \in Sockets :
           /\ socket'[k][s].next = 0
           /\ socket'[k][s].at # "free" => s = current[k]
  BY <1>2, FreeIsState DEF Subscribe, Free
<1>4. FeedTypeOK'
  BY <1>1, <1>3 DEF FeedTypeOK, SocketStates
<1>5. OneConnection'
  BY <1>1, <1>3 DEF OneConnection, Live
<1> QED
  BY <1>1, <1>3, <1>4, <1>5, FeedQuietStep DEF FeedInv, Fresh

LEMMA LeaveStep == FeedInv /\ Leave => FeedInv'
<1>. SUFFICES ASSUME FeedInv, Leave PROVE FeedInv'
  OBVIOUS
<1>1. /\ FeedTypeOK /\ request' = "gone" /\ keepalive' = FALSE /\ unsubscribed' = configured
      /\ UNCHANGED <<configured, upstream, timers, current, written>>
  BY DEF Leave, FeedInv
<1>. DEFINE Shut(c) == [c EXCEPT !.at = "closing"]
<1>2. ASSUME NEW k \in Kinds, NEW s \in Sockets
      PROVE  /\ Shut(socket[k][s]) \in SocketStates
             /\ Shut(socket[k][s]).next = socket[k][s].next
             /\ Shut(socket[k][s]).at = "closing"
  BY <1>1, SocketFacts DEF SocketStates
<1>3. /\ socket' \in [Kinds -> [Sockets -> SocketStates]]
      /\ \A k \in Kinds, s \in Sockets :
           socket'[k][s] \in {socket[k][s], Shut(socket[k][s])}
           /\ (socket[k][s].at = "free" => socket'[k][s] = socket[k][s])
  BY <1>1, <1>2, SocketFacts DEF Leave
<1>. HIDE DEF Shut
<1>4. FeedTypeOK'
  BY <1>1, <1>3 DEF FeedTypeOK, SocketStates
<1>5. \A k \in Kinds : Live(k)' \subseteq Live(k)
  BY <1>3 DEF Live
<1>6. OneConnection'
  BY <1>1, <1>5 DEF OneConnection, FeedInv
<1>7. NextIsNew'
  <2>. SUFFICES ASSUME NEW k \in Kinds, NEW s \in Sockets, socket'[k][s].next > 0
                PROVE  socket'[k][s].next = socket[k][s].next
    BY <1>1 DEF NextIsNew, FeedInv
  <2> QED
    BY <1>2, <1>3
<1>8. Within'
  <2>1. \A k \in Kinds, s \in Sockets : socket'[k][s].next <= Len(upstream) + 1
    <3>. SUFFICES ASSUME NEW k \in Kinds, NEW s \in Sockets
                  PROVE  socket'[k][s].next <= Len(upstream) + 1
      OBVIOUS
    <3>1. socket'[k][s].next \in {0, socket[k][s].next}
      BY <1>2, <1>3
    <3> QED
      BY <1>1, <3>1, FeedFacts DEF Within, FeedInv
  <2>2. \A k \in Kinds, s \in Sockets : socket'[k][s].at = "free" => socket'[k][s].next = 0
    BY <1>2, <1>3 DEF Within, FeedInv
  <2> QED
    BY <1>1, <2>1, <2>2 DEF Within, FeedInv
<1>9. WrittenInOrder' /\ Fresh'
  BY <1>1 DEF WrittenInOrder, Genuine, Fresh, FeedInv
<1> QED
  BY <1>4, <1>6, <1>7, <1>8, <1>9 DEF FeedInv

LEMMA OpenedStep == ASSUME FeedInv, NEW k \in Kinds, NEW s \in Sockets, Opened(k, s) PROVE FeedInv'
<1>. DEFINE v == [at |-> "open", next |-> Len(upstream) + 1]
<1>1. /\ FeedTypeOK /\ Set(k, s, v) /\ socket[k][s].at = "connecting"
      /\ UNCHANGED <<configured, upstream, request, keepalive, unsubscribed,
                     timers, current, written>>
  BY DEF Opened, FeedInv
<1>2. v \in SocketStates
  <2>1. Len(upstream) \in Nat /\ Len(upstream) <= MaxEvents
    BY <1>1 DEF FeedInv, Within, FeedTypeOK
  <2>2. Len(upstream) + 1 \in 0..(MaxEvents + 1)
    BY <2>1, BoundAssumption
  <2> QED
    BY <2>2 DEF SocketStates
<1>. HIDE DEF v
<1>3. /\ socket' \in [Kinds -> [Sockets -> SocketStates]] /\ socket'[k][s] = v
      /\ \A j \in Kinds, t \in Sockets : j # k \/ t # s => socket'[j][t] = socket[j][t]
  BY <1>1, <1>2, SetEffect
<1>. USE DEF v
<1>4. FeedTypeOK'
  BY <1>1, <1>3 DEF FeedTypeOK, SocketStates
<1>5. \A j \in Kinds : Live(j)' = Live(j)
  <2>. SUFFICES ASSUME NEW j \in Kinds, NEW t \in Sockets
                PROVE  socket'[j][t].at # "free" <=> socket[j][t].at # "free"
    BY DEF Live
  <2> QED
    BY <1>1, <1>3
<1>6. OneConnection' /\ Fresh'
  BY <1>1, <1>5 DEF OneConnection, Fresh, FeedInv
<1>7. \A j \in Kinds, t \in Sockets :
        socket'[j][t] = socket[j][t]
        \/ (socket'[j][t].at # "free" /\ socket'[j][t].next = Len(upstream) + 1)
  BY <1>3
<1> QED
  BY <1>1, <1>4, <1>6, <1>7, FeedQuietStep DEF FeedInv

LEMMA ClosedStep == ASSUME FeedInv, NEW k \in Kinds, NEW s \in Sockets, Closed(k, s) PROVE FeedInv'
<1>1. /\ FeedTypeOK /\ Set(k, s, Free) /\ socket[k][s].at # "free"
      /\ UNCHANGED <<configured, upstream, request, keepalive, unsubscribed,
                     current, written>>
  BY DEF Closed, FeedInv
<1>2. /\ socket' \in [Kinds -> [Sockets -> SocketStates]] /\ socket'[k][s] = Free
      /\ \A j \in Kinds, t \in Sockets : j # k \/ t # s => socket'[j][t] = socket[j][t]
  BY <1>1, FreeIsState, SetEffect
<1>3. s \in Live(k) /\ timers[k] = 0 /\ \A t \in Live(k) : t = s
  <2>1. s \in Live(k)
    BY <1>1 DEF Live
  <2> QED
    BY <2>1 DEF OneConnection, FeedInv
<1>4. /\ timers' \in [Kinds -> Nat] /\ timers'[k] <= 1
      /\ \A j \in Kinds : j # k => timers'[j] = timers[j]
  <2>1. timers \in [Kinds -> Nat]
    BY <1>1 DEF FeedTypeOK
  <2>2. UNCHANGED timers \/ timers' = [timers EXCEPT ![k] = @ + 1]
    BY DEF Closed, Schedule
  <2> QED
    BY <1>3, <2>1, <2>2
<1>5. FeedTypeOK'
  BY <1>1, <1>2, <1>4 DEF FeedTypeOK, SocketStates
<1>6. Live(k)' = {} /\ \A j \in Kinds : j # k => Live(j)' = Live(j)
  BY <1>2, <1>3 DEF Live, Free
<1>7. OneConnection'
  BY <1>4, <1>6 DEF OneConnection, FeedInv
<1>8. Fresh'
  BY <1>1, <1>3 DEF Fresh, FeedInv
<1>9. \A j \in Kinds, t \in Sockets : socket'[j][t] = socket[j][t] \/ socket'[j][t].next = 0
  BY <1>2 DEF Free
<1> QED
  BY <1>1, <1>5, <1>7, <1>8, <1>9, FeedQuietStep DEF FeedInv

LEMMA ReconnectStep == ASSUME FeedInv, NEW k \in Kinds, Reconnect(k) PROVE FeedInv'
<1>. DEFINE s == FirstOf({x \in Sockets : socket[k][x].at = "free"})
            v == [at |-> "connecting", next |-> 0]
<1>1. /\ FeedTypeOK /\ timers[k] > 0 /\ Live(k) # Sockets
      /\ timers' = [timers EXCEPT ![k] = @ - 1]
      /\ \/ Set(k, s, v) /\ current' = [current EXCEPT ![k] = s]
         \/ UNCHANGED <<current, socket>>
      /\ UNCHANGED <<configured, upstream, request, keepalive, unsubscribed, written>>
  BY DEF Reconnect, FeedInv
<1>2. s \in Sockets /\ v \in SocketStates
  <2>1. {x \in Sockets : socket[k][x].at = "free"} # {}
    BY <1>1 DEF Live
  <2> QED
    BY <2>1, FirstOfIsIn, BoundAssumption DEF SocketStates
<1>. HIDE DEF s, v
<1>3. Live(k) = {} /\ timers[k] = 1
  BY <1>1 DEF OneConnection, FeedInv, FeedTypeOK
<1>4. /\ timers' \in [Kinds -> Nat] /\ timers'[k] = 0
      /\ \A j \in Kinds : j # k => timers'[j] = timers[j]
  BY <1>1, <1>3 DEF FeedTypeOK
<1>5. /\ socket' \in [Kinds -> [Sockets -> SocketStates]] /\ current' \in [Kinds -> Sockets]
      /\ \A j \in Kinds, t \in Sockets : j # k \/ t # s => socket'[j][t] = socket[j][t]
      /\ socket'[k][s] \in {v, socket[k][s]}
  <2>1. CASE Set(k, s, v) /\ current' = [current EXCEPT ![k] = s]
    <3>1. current' \in [Kinds -> Sockets]
      BY <1>1, <1>2, <2>1 DEF FeedTypeOK
    <3> QED
      BY <1>1, <1>2, <2>1, <3>1, SetEffect
  <2>2. CASE UNCHANGED <<current, socket>>
    BY <1>1, <2>2 DEF FeedTypeOK, SocketStates
  <2> QED
    BY <1>1, <2>1, <2>2
<1>6. FeedTypeOK'
  BY <1>1, <1>4, <1>5 DEF FeedTypeOK, SocketStates
<1>7. Live(k)' \subseteq {s} /\ \A j \in Kinds : j # k => Live(j)' = Live(j)
  BY <1>3, <1>5 DEF Live
<1>8. OneConnection' /\ Fresh'
  BY <1>1, <1>3, <1>4, <1>7 DEF OneConnection, Fresh, FeedInv
<1>9. \A j \in Kinds, t \in Sockets : socket'[j][t] = socket[j][t] \/ socket'[j][t].next = 0
  BY <1>5 DEF v
<1> QED
  BY <1>1, <1>6, <1>8, <1>9, FeedQuietStep DEF FeedInv
\* A message is written under its kind if it passes the filters; it is later
\* than all before it because its socket is the only one of its subscription.
LEMMA MessageStep == ASSUME FeedInv, NEW k \in Kinds, NEW s \in Sockets, Message(k, s) PROVE FeedInv'
<1>. DEFINE n == socket[k][s].next
            v == [socket[k][s] EXCEPT !.next = n + 1]
            w == [kind |-> k, event |-> n]
<1>1. /\ FeedTypeOK /\ Set(k, s, v) /\ socket[k][s].at # "free" /\ n \in 1..Len(upstream)
      /\ written' = IF Passes(k, upstream[n]) THEN Append(written, w) ELSE written
      /\ UNCHANGED <<configured, upstream, request, keepalive, unsubscribed,
                     timers, current>>
  BY DEF Message, FeedInv
<1>2. Len(upstream) \in Nat /\ Len(upstream) <= MaxEvents /\ n \in Nat /\ n > 0 /\ n <= Len(upstream)
  BY <1>1, FeedFacts DEF FeedInv, Within
<1>3. v \in SocketStates /\ v.next = n + 1 /\ v.at = socket[k][s].at
  <2>1. socket[k][s] \in SocketStates
    BY <1>1, SocketFacts
  <2>2. n + 1 \in 0..(MaxEvents + 1)
    BY <1>2, BoundAssumption
  <2> QED
    BY <2>1, <2>2 DEF SocketStates
<1>. HIDE DEF v
<1>4. /\ socket' \in [Kinds -> [Sockets -> SocketStates]] /\ socket'[k][s] = v
      /\ \A j \in Kinds, t \in Sockets : j # k \/ t # s => socket'[j][t] = socket[j][t]
  BY <1>1, <1>3, SetEffect
<1>5. w \in [kind : Kinds, event : 1..MaxEvents]
  BY <1>2, BoundAssumption
<1>6. written \in Seq([kind : Kinds, event : 1..MaxEvents])
  BY <1>1 DEF FeedTypeOK
<1>7. FeedTypeOK'
  <2>1. written' \in Seq([kind : Kinds, event : 1..MaxEvents])
    BY <1>1, <1>5, <1>6, AppendProperties
  <2> QED
    BY <1>1, <1>4, <2>1 DEF FeedTypeOK, SocketStates
<1>8. \A j \in Kinds : Live(j)' = Live(j)
  <2>. SUFFICES ASSUME NEW j \in Kinds, NEW t \in Sockets
                PROVE  socket'[j][t].at # "free" <=> socket[j][t].at # "free"
    BY DEF Live
  <2> QED
    BY <1>3, <1>4
<1>9. OneConnection' /\ Fresh'
  BY <1>1, <1>8 DEF OneConnection, Fresh, FeedInv
<1>10. Within'
  <2>1. \A j \in Kinds, t \in Sockets : socket'[j][t].next <= Len(upstream) + 1
    BY <1>2, <1>3, <1>4 DEF Within, FeedInv
  <2>2. \A j \in Kinds, t \in Sockets : socket'[j][t].at = "free" => socket'[j][t].next = 0
    BY <1>1, <1>3, <1>4 DEF Within, FeedInv
  <2> QED
    BY <1>1, <1>2, <2>1, <2>2 DEF Within
<1>11. \A i \in DOMAIN written : written[i].kind = k => written[i].event < n
  BY <1>2 DEF NextIsNew, FeedInv
<1>12. \A t \in Sockets : t # s => socket[k][t].next = 0
  <2>1. s \in Live(k)
    BY <1>1 DEF Live
  <2> QED
    BY <2>1 DEF OneConnection, Within, Live, FeedInv
<1>13. CASE Passes(k, upstream[n])
  <2>1. written' = Append(written, w)
    BY <1>1, <1>13
  <2>2. /\ Len(written) \in Nat /\ DOMAIN written = 1..Len(written)
        /\ DOMAIN written' = 1..(Len(written) + 1)
        /\ written'[Len(written) + 1] = w
        /\ \A i \in 1..Len(written) : written'[i] = written[i]
    BY <1>5, <1>6, <2>1, AppendProperties, LenProperties
  <2>3. NextIsNew'
    <3>. SUFFICES ASSUME NEW j \in Kinds, NEW t \in Sockets, socket'[j][t].next > 0,
                         NEW i \in DOMAIN written', written'[i].kind = j
                  PROVE  written'[i].event < socket'[j][t].next
      BY DEF NextIsNew
    <3>1. CASE j # k
      <4>1. i \in DOMAIN written /\ written'[i] = written[i] /\ socket'[j][t] = socket[j][t]
        BY <1>4, <2>2, <3>1
      <4> QED
        BY <4>1 DEF NextIsNew, FeedInv
    <3>2. CASE j = k
      <4>1. t = s /\ socket'[j][t].next = n + 1
        BY <1>3, <1>4, <1>12, <3>2
      <4>2. CASE i = Len(written) + 1
        BY <1>2, <2>2, <4>1, <4>2
      <4>3. CASE i \in DOMAIN written
        <5>1. written[i].event < n /\ written[i].event \in Nat /\ written'[i] = written[i]
          BY <1>1, <1>11, <2>2, <3>2, <4>3, FeedFacts
        <5> QED
          BY <1>2, <4>1, <5>1
      <4> QED
        BY <2>2, <4>2, <4>3
    <3> QED
      BY <3>1, <3>2
  <2>4. WrittenInOrder'
    <3>. SUFFICES ASSUME NEW i \in 1..(Len(written) + 1)
                  PROVE  /\ written'[i].event <= Len(upstream) /\ Genuine(written'[i])
                         /\ \A j \in 1..(i - 1) : written'[j].kind = written'[i].kind
                                                 => written'[j].event < written'[i].event
      BY <1>1, <2>2 DEF WrittenInOrder, Genuine
    <3>1. \A j \in 1..(i - 1) : j \in 1..Len(written) /\ written'[j] = written[j]
      BY <2>2
    <3>2. CASE i = Len(written) + 1
      <4>1. written'[i] = w
        BY <2>2, <3>2
      <4>2. Genuine(w)
        BY <1>13 DEF Genuine
      <4> QED
        BY <1>2, <1>11, <2>2, <3>1, <4>1, <4>2
    <3>3. CASE i \in 1..Len(written)
      BY <2>2, <3>1, <3>3 DEF WrittenInOrder, FeedInv
    <3> QED
      BY <2>2, <3>2, <3>3
  <2> QED
    BY <1>7, <1>9, <1>10, <2>3, <2>4 DEF FeedInv
<1>14. CASE ~Passes(k, upstream[n])
  <2>1. written' = written
    BY <1>1, <1>14
  <2>2. WrittenInOrder'
    BY <1>1, <2>1 DEF WrittenInOrder, Genuine, FeedInv
  <2>3. NextIsNew'
    <3>. SUFFICES ASSUME NEW j \in Kinds, NEW t \in Sockets, socket'[j][t].next > 0,
                         NEW i \in DOMAIN written, written[i].kind = j
                  PROVE  written[i].event < socket'[j][t].next
      BY <2>1 DEF NextIsNew
    <3>1. CASE j = k /\ t = s
      <4>1. written[i].event < n /\ written[i].event \in Nat
        BY <1>1, <1>11, <3>1, FeedFacts
      <4> QED
        BY <1>2, <1>3, <1>4, <3>1, <4>1
    <3>2. CASE j # k \/ t # s
      BY <1>4, <3>2 DEF NextIsNew, FeedInv
    <3> QED
      BY <3>1, <3>2
  <2> QED
    BY <1>7, <1>9, <1>10, <2>2, <2>3 DEF FeedInv
<1> QED
  BY <1>13, <1>14

-----------------------------------------------------------------------------
LEMMA Stutter == FeedInv /\ UNCHANGED feedVars => FeedInv'
<1>. SUFFICES ASSUME FeedInv, UNCHANGED feedVars PROVE FeedInv'
  OBVIOUS
<1>1. FeedTypeOK' /\ OneConnection' /\ NextIsNew'
  BY DEF FeedInv, feedVars, subs, FeedTypeOK, OneConnection, NextIsNew, Live
<1>2. WrittenInOrder' /\ Within' /\ Fresh'
  BY DEF FeedInv, feedVars, subs, WrittenInOrder, Genuine, Within, Fresh, Live
<1> QED
  BY <1>1, <1>2 DEF FeedInv

LEMMA FeedInductive == FeedSpec => []FeedInv
<1>1. FeedInv /\ [FeedNext]_feedVars => FeedInv'
  BY EmitStep, SubscribeStep, LeaveStep, OpenedStep, MessageStep, ClosedStep, ReconnectStep, Stutter
  DEF FeedNext
<1> QED
  BY <1>1, FeedInitInv, PTL DEF FeedSpec

\* Whatever the sockets do, the client sees of either kind only genuine events,
\* in order and once, over one connection at a time.
THEOREM FeedStaysFaithful == FeedSpec => []FeedIsFaithful
<1>1. FeedInv => FeedIsFaithful
  <2>. SUFFICES ASSUME FeedInv PROVE FeedIsFaithful
    OBVIOUS
  <2>1. FeedTypeOK /\ OneConnection /\ WrittenInOrder
    BY DEF FeedInv
  <2>2. ASSUME NEW i \in DOMAIN written
        PROVE  LET e == upstream[written[i].event]
               IN IF written[i].kind = "strategy" THEN e.by = "vault" /\ e.name = "StrategyExecuted"
                  ELSE e.by = "emitter" /\ e.name = "RevenueEmitted"
    BY <2>1 DEF WrittenInOrder, Genuine, Passes, OfContract, OfName
  <2> QED
    BY <2>1, <2>2 DEF FeedIsFaithful, OneConnection, WrittenInOrder
<1> QED
  BY <1>1, FeedInductive, PTL
=============================================================================
