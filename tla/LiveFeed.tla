------------------------------ MODULE LiveFeed ------------------------------
(***************************************************************************)
(* The live events of one client of GET /api/events (agent/src/server.ts): *)
(* two subscriptions to the contract-level events of CSPR.cloud            *)
(* (agent/src/csprCloud/cesEvents.ts, streaming.ts), of which each keeps a *)
(* socket of its own, opens another one some time after it closed, and     *)
(* passes on what is of its contract and its kind.                         *)
(*                                                                         *)
(* Events sent while no socket is open are not sent again.  The history of *)
(* live events the request begins with is always empty, for nothing fills  *)
(* it: attachLiveStreams is commented out.  The time between two attempts  *)
(* is left out.  Of onContractCESEvents' two transports the caller takes   *)
(* the default, WebSockets.                                                *)
(***************************************************************************)
EXTENDS Naturals, Sequences

CONSTANTS
  Sockets,    \* bound: the sockets a subscription has at one time
  MaxEvents   \* bound: how many events upstream sends

ASSUME SocketsAssumption == Sockets # {}
ASSUME BoundAssumption   == MaxEvents \in Nat

VARIABLES
  configured, \* the subscriptions whose contract hash is configured
  upstream,   \* the events sent so far
  request,    \* the client's request: "none", "open" or "gone"
  keepalive,  \* whether its interval runs
  unsubscribed,    \* the subscriptions whose flag `stopped` is set
  timers,     \* timers[k]: the reconnects that k waits for
  current,    \* current[k]: the socket the variable sock of k holds
  socket,     \* socket[k][s]: a socket and the event it gets next
  written     \* what was written to the client: [kind, event]

subs == <<unsubscribed, timers, current, socket>>
feedVars == <<configured, upstream, request, keepalive, subs, written>>

Kinds == {"strategy", "revenue"}

\* By whom an event was emitted and what it is, or something that is no event.
Events == [by : {"vault", "emitter"}, name : {"StrategyExecuted", "RevenueEmitted"}]
          \cup {[by |-> "nobody", name |-> "garbled"]}

Free == [at |-> "free", next |-> 0]

Live(k)   == {s \in Sockets : socket[k][s].at # "free"}

FirstOf(S) == CHOOSE s \in S : TRUE

-----------------------------------------------------------------------------
FeedInit ==
  /\ configured \in SUBSET Kinds
  /\ upstream = <<>>
  /\ request = "none"
  /\ keepalive = FALSE
  /\ unsubscribed = {}
  /\ timers = [k \in Kinds |-> 0]
  /\ current = [k \in Kinds |-> FirstOf(Sockets)]
  /\ socket = [k \in Kinds |-> [s \in Sockets |-> Free]]
  /\ written = <<>>

Emit(e) ==
  /\ Len(upstream) < MaxEvents
  /\ upstream' = Append(upstream, e)
  /\ UNCHANGED <<configured, request, keepalive, subs, written>>

Set(k, s, value) == socket' = [socket EXCEPT ![k][s] = value]

\* onStrategyExecuted and onRevenueEmitted: without a hash there is nothing to
\* subscribe to, and nothing to stop.
Subscribe ==
  /\ request = "none"
  /\ request' = "open"
  /\ keepalive' = TRUE
  /\ socket' = [k \in Kinds |-> [s \in Sockets |->
       IF k \in configured /\ s = current[k] THEN [at |-> "connecting", next |-> 0] ELSE Free]]
  /\ UNCHANGED <<configured, upstream, unsubscribed, timers, current, written>>

\* The connection is made, and the stream subscribed to.
Opened(k, s) ==
  /\ socket[k][s].at = "connecting"
  /\ Set(k, s, [at |-> "open", next |-> Len(upstream) + 1])
  /\ UNCHANGED <<configured, upstream, request, keepalive, unsubscribed,
                 timers, current, written>>

\* The filters, by the contract's hash and then by the event's name.
OfContract(k, e) == e.by = IF k = "strategy" THEN "vault" ELSE "emitter"
OfName(k, e)     == e.name = IF k = "strategy" THEN "StrategyExecuted" ELSE "RevenueEmitted"

Passes(k, e) == OfContract(k, e) /\ OfName(k, e)

\* A message arrives, also on a socket that is being closed; what is no envelope
\* or not of this kind is dropped.
Message(k, s) ==
  LET n == socket[k][s].next
  IN /\ socket[k][s].at \in {"open", "closing"}
     /\ n \in 1..Len(upstream)
     /\ Set(k, s, [socket[k][s] EXCEPT !.next = n + 1])
     /\ written' = IF Passes(k, upstream[n]) THEN Append(written, [kind |-> k, event |-> n])
                   ELSE written
     /\ UNCHANGED <<configured, upstream, request, keepalive, unsubscribed,
                    timers, current>>

\* Mutant: the error of a connection, too, leads to a reconnect.
TwoTimers(k) == timers' = [timers EXCEPT ![k] = IF @ = 0 THEN 2 ELSE @]

Schedule(k) == timers' = [timers EXCEPT ![k] = @ + 1]

\* However a socket ends, it says so once; the subscription then waits and
\* opens another one, unless it was stopped.
Closed(k, s) ==
  /\ socket[k][s].at # "free"
  /\ Set(k, s, Free)
  /\ IF k \in unsubscribed THEN UNCHANGED timers ELSE Schedule(k)
  /\ UNCHANGED <<configured, upstream, request, keepalive, unsubscribed,
                 current, written>>

\* Mutant: a reconnect that was waiting does not look whether it was stopped.
OpenAnyway(k) == TRUE

StillWanted(k) == k \notin unsubscribed

Reconnect(k) ==
  LET s == FirstOf({x \in Sockets : socket[k][x].at = "free"})
  IN /\ timers[k] > 0 /\ Live(k) # Sockets
     /\ timers' = [timers EXCEPT ![k] = @ - 1]
     /\ IF StillWanted(k)
        THEN /\ Set(k, s, [at |-> "connecting", next |-> 0])
             /\ current' = [current EXCEPT ![k] = s]
        ELSE UNCHANGED <<current, socket>>
     /\ UNCHANGED <<configured, upstream, request, keepalive, unsubscribed, written>>

\* The client goes: the interval and both subscriptions are stopped, which begins
\* to close the socket sock holds.
Leave ==
  /\ request = "open"
  /\ request' = "gone"
  /\ keepalive' = FALSE
  /\ unsubscribed' = configured
  /\ socket' = [k \in Kinds |-> [s \in Sockets |->
       IF s # current[k] \/ socket[k][s].at = "free" THEN socket[k][s]
       ELSE [socket[k][s] EXCEPT !.at = "closing"]]]
  /\ UNCHANGED <<configured, upstream, timers, current, written>>

FeedNext ==
  \/ Subscribe \/ Leave
  \/ \E e \in Events : Emit(e)
  \/ \E k \in Kinds :
       \/ Reconnect(k)
       \/ \E s \in Sockets : Opened(k, s) \/ Message(k, s) \/ Closed(k, s)

FeedSpec == FeedInit /\ [][FeedNext]_feedVars

\* Timers fire, and a socket that is being closed is closed in the end (after 30 s
\* without an answer, by the library); whether one opens is up to the other side.
FeedFairness ==
  \A k \in Kinds :
    /\ WF_feedVars(Reconnect(k))
    /\ \A s \in Sockets : WF_feedVars(socket[k][s].at = "closing" /\ Closed(k, s))

FairFeedSpec == FeedSpec /\ FeedFairness

-----------------------------------------------------------------------------
FeedTypeOK ==
  /\ configured \subseteq Kinds /\ unsubscribed \subseteq Kinds
  /\ request \in {"none", "open", "gone"}
  /\ keepalive \in BOOLEAN
  /\ upstream \in Seq(Events)
  /\ timers \in [Kinds -> Nat] /\ current \in [Kinds -> Sockets]
  /\ socket \in [Kinds -> [Sockets ->
       [at : {"free", "connecting", "open", "closing"}, next : 0..(MaxEvents + 1)]]]
  /\ written \in Seq([kind : Kinds, event : 1..MaxEvents])

\* However often the sockets drop and come back, the client sees of either kind
\* only what its contract emitted under its name, in order and nothing twice:
\* the subscription never has two sockets, or a socket and a reconnect, at once.
\* (With the types.)
FeedIsFaithful ==
  /\ FeedTypeOK
  /\ \A k \in Kinds : timers[k] <= 1 /\ \A s, t \in Live(k) : s = t /\ timers[k] = 0
  /\ \A i \in DOMAIN written :
       /\ LET e == upstream[written[i].event]
          IN IF written[i].kind = "strategy" THEN e.by = "vault" /\ e.name = "StrategyExecuted"
             ELSE e.by = "emitter" /\ e.name = "RevenueEmitted"
       /\ \A j \in 1..(i - 1) :
            written[j].kind = written[i].kind => written[j].event < written[i].event

\* As long as the client stays, a configured subscription that lost its socket
\* tries for another one again and again; when the client has gone, in the end no
\* socket, no timer and no interval is left of its request, for good.
LivesAsLongAsClient ==
  /\ \A k \in Kinds :
       request = "open" /\ k \in configured /\ Live(k) = {} ~> Live(k) # {} \/ request = "gone"
  /\ request = "gone" ~> [](~keepalive /\ \A k \in Kinds : Live(k) = {} /\ timers[k] = 0)
==============================
