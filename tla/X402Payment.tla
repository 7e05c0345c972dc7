---------------------------- MODULE X402Payment ----------------------------
(***************************************************************************)
(* Paying for the premium signal: payAndFetchViaX402 of the analyst        *)
(* (agent/src/x402/client.ts), the signal server (agent/scripts/           *)
(* x402Server.ts) and the facilitator it asks to settle a signed           *)
(* authorization; what the facilitator's hash is worth is not modelled.    *)
(*                                                                         *)
(* Every call of payAndFetchViaX402 signs an authorization of its own with *)
(* a random nonce, so an attempt stands for its authorization and for its  *)
(* nonce.  The paid request is a GET, which whatever lies between client   *)
(* and server may send a second time.  A handler is one paid request in    *)
(* the server; it keeps running when its client has given up.  Addresses,  *)
(* hashing, the signature and the forecast are left out; all that makes    *)
(* them not fit is one of the reasons to reject.                           *)
(***************************************************************************)
EXTENDS Naturals, FiniteSets

CONSTANTS
  Attempts,   \* the calls of payAndFetchViaX402
  Handlers    \* bound: how many paid requests the server handles at once

ASSUME AttemptsAssumption == IsFiniteSet(Attempts) /\ IsFiniteSet(Handlers)

VARIABLES
  client,       \* client[a]: where the call is, see ClientPlaces
  proof,        \* proof[a]: whether it was handed a settleTxHash
  wire,         \* wire[a]: how many copies of its paid request are on the way
  handler,      \* handler[h]: the request it handles, see Requests
  usedNonces,
  settles,      \* history: settles[a], /settle calls since the server started
  asked,        \* history: the authorizations of the /settle calls ever made
  accepted,     \* history: the authorizations ever accepted
  copied        \* history: the attempts whose paid request was copied

server == <<handler, usedNonces, settles, asked, accepted>>
vars   == <<client, proof, wire, server, copied>>

\* A paid request ends "late" by the client's own limit, "cut" with its
\* connection, "failed" by what the server answers.
ClientPlaces == {"idle", "asking", "paying", "served", "unpaid", "failed", "late", "cut"}

\* "received": before the nonce is looked up; "checked": it was not used, and
\* the handler awaits the asset's metadata; then the facilitator's two calls.
Requests ==
  [at : {"received", "checked", "verifying", "settling", "answering"},
   auth : Attempts, tx : BOOLEAN]

Free == [at |-> "free"]

-----------------------------------------------------------------------------
Init ==
  /\ client = [a \in Attempts |-> "idle"]
  /\ proof = [a \in Attempts |-> FALSE]
  /\ wire = [a \in Attempts |-> 0]
  /\ handler = [h \in Handlers |-> Free]
  /\ usedNonces = {}
  /\ settles = [a \in Attempts |-> 0]
  /\ asked = {}
  /\ accepted = {}
  /\ copied = {}

-----------------------------------------------------------------------------
(***************************************************************************)
(* The client.                                                             *)
(***************************************************************************)
Go(a, from, to) == client[a] = from /\ client' = [client EXCEPT ![a] = to]

Ask(a) ==
  /\ Go(a, "idle", "asking")
  /\ UNCHANGED <<proof, wire, server, copied>>

\* Whatever is not a 402 is handed out as data, whatever its status.
AnsweredWithout402(a) ==
  /\ Go(a, "asking", "unpaid")
  /\ UNCHANGED <<proof, wire, server, copied>>

\* No answer in 10 s, no PAYMENT-REQUIRED header, or a key that cannot sign.
AskFails(a) ==
  /\ Go(a, "asking", "failed")
  /\ UNCHANGED <<proof, wire, server, copied>>

\* The 402 is answered with a signed authorization, in one piece.
Pay(a) ==
  /\ Go(a, "asking", "paying")
  /\ wire' = [wire EXCEPT ![a] = 1]
  /\ UNCHANGED <<proof, server, copied>>

\* 15 s have passed.  The same payload is never sent again, here and below.
GiveUp(a) ==
  /\ Go(a, "paying", "late")
  /\ UNCHANGED <<proof, wire, server, copied>>

\* The connection of the paid request is refused or lost, with its answer.
Disconnect(a) ==
  /\ Go(a, "paying", "cut")
  /\ UNCHANGED <<proof, wire, server, copied>>

-----------------------------------------------------------------------------
(***************************************************************************)
(* The network between them.                                               *)
(***************************************************************************)
Copy(a) ==
  /\ wire[a] = 1
  /\ a \notin copied
  /\ wire' = [wire EXCEPT ![a] = 2]
  /\ copied' = copied \cup {a}
  /\ UNCHANGED <<client, proof, server>>

Lose(a) ==
  /\ wire[a] > 0
  /\ wire' = [wire EXCEPT ![a] = @ - 1]
  /\ UNCHANGED <<client, proof, server, copied>>

-----------------------------------------------------------------------------
(***************************************************************************)
(* The server's GET /signal with a PAYMENT-SIGNATURE.                      *)
(***************************************************************************)
Receive(h, a) ==
  /\ handler[h] = Free
  /\ wire[a] > 0
  /\ wire' = [wire EXCEPT ![a] = @ - 1]
  /\ handler' = [handler EXCEPT ![h] = [at |-> "received", auth |-> a, tx |-> FALSE]]
  /\ UNCHANGED <<client, proof, usedNonces, settles, asked, accepted, copied>>

Step(h, from, to, tx) ==
  /\ handler[h].at = from
  /\ handler' = [handler EXCEPT ![h].at = to, ![h].tx = tx]

\* Mutant: the nonce is not looked up.
CheckNothing(h) ==
  /\ Step(h, "received", "checked", FALSE)
  /\ UNCHANGED <<client, proof, wire, usedNonces, settles, asked, accepted, copied>>

\* The nonce is not among the used ones.  Then comes an await, which gives way
\* to other handlers even when what it waits for is cached.
Check(h) ==
  /\ Step(h, "received", "checked", FALSE)
  /\ handler[h].auth \notin usedNonces
  /\ UNCHANGED <<client, proof, wire, usedNonces, settles, asked, accepted, copied>>

\* The signature is right too: the nonce is entered, whoever entered it since.
Accept(h) ==
  /\ Step(h, "checked", "verifying", FALSE)
  /\ usedNonces' = usedNonces \cup {handler[h].auth}
  /\ accepted' = accepted \cup {handler[h].auth}
  /\ UNCHANGED <<client, proof, wire, settles, asked, copied>>

\* The answer reaches the client only if it still waits for one.
ReplyTo(a, place, tx) ==
  /\ client' = [client EXCEPT ![a] = IF @ = "paying" THEN place ELSE @]
  /\ proof' = [proof EXCEPT ![a] = IF client[a] = "paying" THEN tx ELSE @]

\* A used nonce, a field that does not fit, an authorization about to expire,
\* after the await a signature: another 402, on which the client throws.
Reject(h) ==
  /\ handler[h].at \in {"received", "checked"}
  /\ handler' = [handler EXCEPT ![h] = Free]
  /\ ReplyTo(handler[h].auth, "failed", FALSE)
  /\ UNCHANGED <<wire, usedNonces, settles, asked, accepted, copied>>

\* The facilitator finds the payload valid and is asked to settle it.
Verified(h) ==
  /\ Step(h, "verifying", "settling", FALSE)
  /\ settles' = [settles EXCEPT ![handler[h].auth] = @ + 1]
  /\ asked' = asked \cup {handler[h].auth}
  /\ UNCHANGED <<client, proof, wire, usedNonces, accepted, copied>>

\* Mutant: a payload the facilitator refuses is answered with a 402.
FallBackRejecting(h) ==
  /\ handler[h].at \in {"verifying", "settling"}
  /\ handler' = [handler EXCEPT ![h] = Free]
  /\ ReplyTo(handler[h].auth, "failed", FALSE)
  /\ UNCHANGED <<wire, usedNonces, settles, asked, accepted, copied>>

\* Mutant: a fallback is reported like a settlement.
FallBackAsSettled(h) ==
  /\ \/ Step(h, "verifying", "answering", TRUE)
     \/ Step(h, "settling", "answering", TRUE)
  /\ UNCHANGED <<client, proof, wire, usedNonces, settles, asked, accepted, copied>>

\* Mutant: the call of /settle has no time limit.
FallBackFromVerify(h) ==
  /\ Step(h, "verifying", "answering", FALSE)
  /\ UNCHANGED <<client, proof, wire, usedNonces, settles, asked, accepted, copied>>

\* It is not configured, refuses, fails, does not answer in 8 s and 60 s, or
\* answers without a hash: the client will get no transaction.
FallBack(h) ==
  /\ \/ Step(h, "verifying", "answering", FALSE)
     \/ Step(h, "settling", "answering", FALSE)
  /\ UNCHANGED <<client, proof, wire, usedNonces, settles, asked, accepted, copied>>

\* The facilitator answers with a hash, whatever has become of the transfer.
Settled(h) ==
  /\ Step(h, "settling", "answering", TRUE)
  /\ UNCHANGED <<client, proof, wire, usedNonces, settles, asked, accepted, copied>>

\* The forecast is sent with a 200, settled or not.
Answer(h) ==
  /\ handler[h].at = "answering"
  /\ handler' = [handler EXCEPT ![h] = Free]
  /\ ReplyTo(handler[h].auth, "served", handler[h].tx)
  /\ UNCHANGED <<wire, usedNonces, settles, asked, accepted, copied>>

\* The server is restarted, perhaps because a handler threw: its handlers and
\* its nonces are gone.
Restart ==
  /\ handler' = [h \in Handlers |-> Free]
  /\ usedNonces' = {}
  /\ settles' = [a \in Attempts |-> 0]
  /\ UNCHANGED <<client, proof, wire, asked, accepted, copied>>

-----------------------------------------------------------------------------
ClientEnds(a) == AnsweredWithout402(a) \/ AskFails(a) \/ Pay(a) \/ GiveUp(a)

HandlerEnds(h) == Reject(h) \/ FallBack(h) \/ Answer(h)

Next ==
  \/ \E a \in Attempts : Ask(a) \/ ClientEnds(a) \/ Disconnect(a) \/ Copy(a) \/ Lose(a)
  \/ \E h \in Handlers, a \in Attempts : Receive(h, a)
  \/ \E h \in Handlers : Check(h) \/ Accept(h) \/ Verified(h) \/ Settled(h) \/ HandlerEnds(h)
  \/ Restart

Spec == Init /\ [][Next]_vars

\* The limits of 10 s, 15 s, 8 s and 60 s: each wait ends one way or another.
\* Nothing is assumed of the network, the facilitator or the chain.
Fairness ==
  /\ \A a \in Attempts : WF_vars(ClientEnds(a))
  /\ \A h \in Handlers : WF_vars(HandlerEnds(h))

FairSpec == Spec /\ Fairness

-----------------------------------------------------------------------------
\* Every variable has its type.
TypeOK ==
  /\ client \in [Attempts -> ClientPlaces]
  /\ proof \in [Attempts -> BOOLEAN]
  /\ wire \in [Attempts -> 0 .. 2]
  /\ handler \in [Handlers -> Requests \cup {Free}]
  /\ usedNonces \subseteq accepted /\ accepted \subseteq Attempts
  /\ settles \in [Attempts -> Nat]
  /\ asked \subseteq Attempts /\ copied \subseteq Attempts

\* What the settlements of an authorization can come to in this life of the
\* server: those asked for, and the handlers that are past the nonce's check.
Chances(a) ==
  settles[a] + Cardinality({h \in Handlers :
    handler[h].at \in {"checked", "verifying"} /\ handler[h].auth = a})

\* The server's anti-replay store (x402Server.ts:61): as long as it runs, one
\* settlement of an authorization is asked for at most.  Two copies that are
\* past the check before either is entered break it.
SettledOncePerLife == \A a \in Attempts : settles[a] <= 1

\* What the store does achieve: once a settlement was asked for, no copy that
\* arrives or is checked later adds another one until the server is restarted.
LateCopiesRefused ==
  [][\A a \in Attempts :
       settles[a] > 0 /\ settles'[a] > 0 => Chances(a)' <= Chances(a)]_vars

\* A client that was handed a hash was served, and the facilitator was asked to
\* settle its own authorization: no fallback or rejection comes with a hash, in
\* no life of the server.  Whether a transfer was executed it does not say.
\* (With the types.)
HashMeansAsked ==
  TypeOK /\ \A a \in Attempts : proof[a] => client[a] = "served" /\ a \in asked

\* README.md:626-631: whatever the facilitator does, the agent still receives the
\* forecast; the server refuses a client whose payment it accepted only if that
\* came twice.
FallbackServes ==
  \A a \in accepted : client[a] = "failed" => a \in copied

\* Nobody waits for ever: every call of payAndFetchViaX402 returns or throws, and
\* no handler is stuck, not even when its client is gone.
NobodyHangs ==
  /\ \A a \in Attempts : client[a] # "idle" ~> client[a] \in {"served", "unpaid", "failed", "late", "cut"}
  /\ \A h \in Handlers : handler[h] # Free ~> handler[h] = Free
=============================================================================
