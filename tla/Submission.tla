----------------------------- MODULE Submission -----------------------------
(***************************************************************************)
(* Every way in which the agent and its scripts bring a transaction to the *)
(* chain: signer.ts, staking.ts, vaultClient.ts and vaultCustodian.ts in   *)
(* agent/src/casper, csprTradeMcp.ts and casperMcp.ts in agent/src/mcp,    *)
(* the deposit simulator, and the executor and the scripts that call them  *)
(* and book what they are told.                                            *)
(*                                                                         *)
(* A call signs one transaction, so it stands for it and for its hash.     *)
(* Between the call and the node is a network that may lose a request or   *)
(* an answer, delay it beyond the caller's patience, or answer for the     *)
(* node with something that holds neither a hash nor an error.  The node   *)
(* knows a transaction it already has and never runs it twice.             *)
(***************************************************************************)
EXTENDS Naturals, FiniteSets

CONSTANT Calls   \* the calls made

ASSUME CallsAssumption == IsFiniteSet(Calls)

VARIABLES
  kind,      \* kind[c]: the function called, see Kinds
  call,      \* call[c]: how far it is and what it reports
  wire,      \* wire[c]: the requests on their way, by method
  tx,        \* tx[c]: what the node makes of its transaction
  booked,    \* the calls whose success is in fund-state.json or events.json
  seen,      \* seen[c]: the custody demo-bootstrap-vault.ts last read
  mcp,       \* the connection to each server: "none", "pending", "up", "rejected"
  connects,  \* history: connections tried since the process started, by server
  excused    \* history: calls that were cut off from the node or the chain

vars == <<kind, call, wire, tx, booked, seen, mcp, connects, excused>>

-----------------------------------------------------------------------------
(***************************************************************************)
(* The functions, by what sets them apart: the server they ask first, the  *)
(* methods they try at the node (none, if they only ask), whether they     *)
(* wait for the chain, whether every step has a time limit (putDeploy and  *)
(* putTransaction of the SDK have none), whether they report a failure     *)
(* where the others throw, and whether they book a success in the fund's   *)
(* counters or in the event log.  recordStrategyExecution stands with what *)
(* the executor makes of it: it catches what it throws, and else books.    *)
(***************************************************************************)
Plain == [server |-> "none", methods |-> 1, waits |-> FALSE, timed |-> TRUE,
          catches |-> FALSE, books |-> FALSE]

delegateToValidator        == Plain
undelegateFromValidator    == Plain
callEntryPoint             == Plain
recordStrategyExecution    == [callEntryPoint EXCEPT !.catches = TRUE, !.books = TRUE]
demoBootstrapVault         == [callEntryPoint EXCEPT !.books = TRUE]
logStrategyToVault         == [Plain EXCEPT !.catches = TRUE]
triggerDeposit             == [Plain EXCEPT !.catches = TRUE, !.books = TRUE]
signAndSubmitDeploy        == [Plain EXCEPT !.waits = TRUE, !.timed = FALSE]
depositToVault             == signAndSubmitDeploy
pushEvent                  == [signAndSubmitDeploy EXCEPT !.catches = TRUE, !.books = TRUE]
demoCycle                  == signAndSubmitDeploy
signAndSubmitTransactionV1 == signAndSubmitDeploy
signAndSubmitSwap          == [Plain EXCEPT !.server = "trade", !.waits = TRUE]
submitRawTransaction       == [Plain EXCEPT !.methods = 3, !.waits = TRUE]
submitViaMcp               == [Plain EXCEPT !.server = "trade"]
getQuote                   == [Plain EXCEPT !.server = "trade", !.methods = 0]
getAccountInfo             == [Plain EXCEPT !.server = "casper", !.methods = 0]

functions ==
  [delegate |-> delegateToValidator, undelegate |-> undelegateFromValidator,
   vaultCall |-> callEntryPoint, position |-> recordStrategyExecution,
   bootstrap |-> demoBootstrapVault,
   auditLog |-> logStrategyToVault, simulate |-> triggerDeposit,
   depositToVault |-> depositToVault, emitRevenue |-> pushEvent, demoCycle |-> demoCycle,
   transactionV1 |-> signAndSubmitTransactionV1, swap |-> signAndSubmitSwap,
   raw |-> submitRawTransaction, submitViaMcp |-> submitViaMcp,
   quote |-> getQuote, account |-> getAccountInfo]

Kinds   == DOMAIN functions
Servers == {"trade", "casper"}

Ends     == {"success", "returned", "reverted", "failed", "thrown", "lost"}
States   == [at : {"idle", "connecting", "sending", "waiting", "polling", "importing"} \cup Ends,
             method : 1..3, hash : BOOLEAN]
Idle     == [at |-> "idle", method |-> 1, hash |-> FALSE]

Fn(c)         == functions[kind[c]]
At(c, place)  == call[c].at = place
InFlight(c)   == call[c].at \notin {"idle"} \cup Ends
Move(c, to)   == call' = [call EXCEPT ![c].at = to]
Failure(c)    == IF Fn(c).catches THEN "failed" ELSE "thrown"

\* The values of the arguments, by what wrapCLValue can make of them.
wrapCLValue(clType, value) ==
  \/ clType \in {"string", "bool", "bytes"}
  \/ clType \in {"u64", "u256", "u512"} /\ value = "digits"
  \/ clType = "key" /\ value = "hex"

\* What is wrapped: an amount and, of those that call by Key, an address.
Wrapped(amount, address) == wrapCLValue("u256", amount) /\ wrapCLValue("key", address)

Init ==
  /\ kind \in [Calls -> Kinds]
  /\ call = [c \in Calls |-> Idle]
  /\ wire = [c \in Calls |-> {}]
  /\ tx = [c \in Calls |-> "unknown"]
  /\ booked = {}
  /\ seen = [c \in Calls |-> 0]
  /\ mcp = [s \in Servers |-> "none"]
  /\ connects = [s \in Servers |-> 0]
  /\ excused = {}

-----------------------------------------------------------------------------
(***************************************************************************)
(* The connections to the MCP servers of CSPR.trade and of CSPR.cloud,      *)
(* each kept for the process's life.                                       *)
(***************************************************************************)
\* Mutant: without initPromise, callers that find no client yet make their own.
ConnectEach(s) ==
  /\ mcp' = [mcp EXCEPT ![s] = IF @ = "up" THEN @ ELSE "pending"]
  /\ connects' = [connects EXCEPT ![s] = IF mcp[s] = "up" THEN @ ELSE @ + 1]

getMcp(s) ==
  /\ mcp' = [mcp EXCEPT ![s] = IF @ = "none" THEN "pending" ELSE @]
  /\ connects' = [connects EXCEPT ![s] = IF mcp[s] = "none" THEN @ + 1 ELSE @]

Connected(s) ==
  /\ mcp[s] = "pending"
  /\ \E answer \in {"up", "rejected"} : mcp' = [mcp EXCEPT ![s] = answer]
  /\ UNCHANGED <<kind, call, wire, tx, booked, seen, connects, excused>>

-----------------------------------------------------------------------------
(***************************************************************************)
(* Sending.                                                                *)
(***************************************************************************)
Send(c, m, left) ==
  /\ call' = [call EXCEPT ![c].at = "sending", ![c].method = m]
  /\ wire' = [left EXCEPT ![c] = @ \cup {m}]

\* The agent's key is of one of two algorithms, which are tried in turn.
getAgentKeys(pem) == pem \in {"ed25519", "secp256k1"}

\* A hash is not configured, the key cannot be read, or an argument is not of its
\* type; logStrategyToVault looks for the first two before it catches anything.
CannotBuild(c) ==
  /\ At(c, "idle") /\ Fn(c).methods > 0
  /\ \E amount \in {"digits", "fraction"}, address \in {"hex", "name"},
        set \in BOOLEAN, pem \in {"ed25519", "secp256k1", "unreadable"} :
       /\ ~set \/ ~getAgentKeys(pem) \/ ~Wrapped(amount, address)
       /\ Move(c, IF kind[c] = "auditLog" /\ ~(set /\ getAgentKeys(pem)) THEN "thrown"
                  ELSE Failure(c))
  /\ UNCHANGED <<kind, wire, tx, booked, seen, mcp, connects, excused>>

SignAndSend(c) ==
  /\ At(c, "idle") /\ Fn(c).server = "none"
  /\ Wrapped("digits", "hex")
  /\ Send(c, 1, wire)
  /\ UNCHANGED <<kind, tx, booked, seen, mcp, connects, excused>>

\* Over the one connection to the server.
AskMcp(c) ==
  /\ At(c, "idle") /\ Fn(c).server \in Servers
  /\ getMcp(Fn(c).server)
  /\ Move(c, "connecting")
  /\ UNCHANGED <<kind, wire, tx, booked, seen, excused>>

\* build_swap answers with an object without an error, which is signed and sent;
\* submit_transaction sends by itself; what was only asked for is returned.
McpAnswers(c) ==
  /\ At(c, "connecting") /\ mcp[Fn(c).server] = "up"
  /\ IF Fn(c).methods > 0 THEN Send(c, 1, wire) ELSE Move(c, "success") /\ UNCHANGED wire
  /\ UNCHANGED <<kind, tx, booked, seen, mcp, connects, excused>>

\* No connection, none in time, or from build_swap a text or an error.
McpFails(c) ==
  /\ At(c, "connecting")
  /\ Move(c, "thrown")
  /\ UNCHANGED <<kind, wire, tx, booked, seen, mcp, connects, excused>>

-----------------------------------------------------------------------------
(***************************************************************************)
(* What the answer to a request makes of the call; "left" is what is then  *)
(* on its way.                                                             *)
(***************************************************************************)
\* The next method of submitRawTransaction, or the end.
Fails(c, left) ==
  /\ UNCHANGED booked
  /\ IF call[c].method < Fn(c).methods THEN Send(c, call[c].method + 1, left)
     ELSE Move(c, Failure(c)) /\ wire' = left

Book(c, to) ==
  booked' = IF Fn(c).books /\ to = "success" THEN booked \cup {c} ELSE booked

\* Not refused.  Without a hash submitRawTransaction tries its next method; the
\* deploys of the SDK know their own hash.
Accepted(c, hash, left) ==
  LET to == IF Fn(c).waits THEN "waiting"
            ELSE IF kind[c] = "simulate" THEN "importing" ELSE "success"
  IN IF kind[c] = "raw" /\ ~hash THEN Fails(c, left)
     ELSE /\ call' = [call EXCEPT ![c].at = to, ![c].hash = hash]
          /\ wire' = left
          /\ Book(c, to)

\* Mutant: the error in the node's answer is not looked at.
Unnoticed(c, left) == Accepted(c, TRUE, left)

Refused(c, left) == Fails(c, left)

\* External: a request reaches the node, which takes the transaction or refuses
\* it; one it has already it answers either way.  Nobody may listen any more.
Arrive(c, m) ==
  LET left == [wire EXCEPT ![c] = @ \ {m}]
  IN /\ m \in wire[c]
     /\ \E takes \in BOOLEAN :
          /\ tx' = [tx EXCEPT ![c] = IF takes /\ @ = "unknown" THEN "pending" ELSE @]
          /\ excused' = IF ~takes /\ tx[c] # "unknown" THEN excused \cup {c} ELSE excused
          /\ IF ~(At(c, "sending") /\ call[c].method = m)
             THEN wire' = left /\ UNCHANGED <<call, booked>>
             ELSE IF takes THEN Accepted(c, TRUE, left) ELSE Refused(c, left)
     /\ UNCHANGED <<kind, seen, mcp, connects>>

\* An answer that holds neither a hash nor an error, whoever gave it.
OddAnswer(c) ==
  /\ At(c, "sending")
  /\ Accepted(c, FALSE, wire)
  /\ excused' = excused \cup {c}
  /\ UNCHANGED <<kind, tx, seen, mcp, connects>>

\* No answer, or none within 30 or 60 seconds.
GiveUp(c) ==
  /\ At(c, "sending")
  /\ Fails(c, wire)
  /\ excused' = excused \cup {c}
  /\ UNCHANGED <<kind, tx, seen, mcp, connects>>

-----------------------------------------------------------------------------
(***************************************************************************)
(* Waiting for the chain.                                                  *)
(***************************************************************************)
\* External: the chain runs what the node took.
Execute(c) ==
  /\ tx[c] = "pending"
  /\ \E result \in {"executed", "reverted"} : tx' = [tx EXCEPT ![c] = result]
  /\ UNCHANGED <<kind, call, wire, booked, seen, mcp, connects, excused>>

EndsAs(c, end) == Move(c, end) /\ Book(c, end)

\* What waits without a limit waits with the deploy itself, the others by hash.
\* signAndSubmitSwap and depositToVault look for a Success in the result, which
\* may not have the shape they know; the others hand it on, and pushEvent of
\* simulate-parking-revenue.ts does not look at it.
WaitEnds(c) ==
  /\ At(c, "waiting") /\ tx[c] \in {"executed", "reverted"}
  /\ call[c].hash \/ ~Fn(c).timed
  /\ \E readable \in BOOLEAN :
       /\ EndsAs(c, CASE kind[c] \in {"swap", "depositToVault"} ->
                           IF readable /\ tx[c] = "executed" THEN "success" ELSE "reverted"
                      [] kind[c] = "demoCycle" -> "polling"
                      [] kind[c] = "emitRevenue" -> "success"
                      [] OTHER -> "returned")
       /\ excused' = IF readable THEN excused ELSE excused \cup {c}
  /\ UNCHANGED <<kind, wire, tx, seen, mcp, connects>>

\* Mutant: a wait without a limit.
WaitsForEver(c) == FALSE /\ UNCHANGED vars

\* 60 seconds, or an error on the way: a success for signAndSubmitSwap, a reason
\* to send it again for submitRawTransaction.
WaitFails(c) ==
  /\ At(c, "waiting")
  /\ IF kind[c] = "swap" THEN EndsAs(c, "success") /\ UNCHANGED wire ELSE Fails(c, wire)
  /\ excused' = excused \cup {c}
  /\ UNCHANGED <<kind, tx, seen, mcp, connects>>

\* demo-cycle.ts asks for the outcome, 30 times; no answer is a revert.
PollOutcome(c) ==
  /\ At(c, "polling")
  /\ \/ Move(c, IF tx[c] = "executed" THEN "success" ELSE "reverted") /\ UNCHANGED excused
     \/ Move(c, "reverted") /\ excused' = excused \cup {c}
  /\ UNCHANGED <<kind, wire, tx, booked, seen, mcp, connects>>

\* The simulator awaits the import of fundState.ts before it records.
Imported(c) ==
  /\ At(c, "importing")
  /\ EndsAs(c, "success")
  /\ UNCHANGED <<kind, wire, tx, seen, mcp, connects, excused>>

\* What the vault holds by the deposits of demo-bootstrap-vault.ts, which reads
\* it before and after its own; a failed read is a "0".
Custody == Cardinality({c \in Calls : kind[c] = "bootstrap" /\ tx[c] = "executed"})

ReadCustody(c) ==
  /\ kind[c] = "bootstrap" /\ call[c].at \in {"idle", "success"}
  /\ \E read \in {0, Custody} : seen' = [seen EXCEPT ![c] = read]
  /\ UNCHANGED <<kind, call, wire, tx, booked, mcp, connects, excused>>

\* The process ends and is started again, without what it had in flight.
Restart ==
  /\ (\E s \in Servers : mcp[s] # "none") \/ (\E c \in Calls : InFlight(c))
  /\ call' = [c \in Calls |-> IF InFlight(c) THEN [call[c] EXCEPT !.at = "lost"] ELSE call[c]]
  /\ mcp' = [s \in Servers |-> "none"] /\ connects' = [s \in Servers |-> 0]
  /\ UNCHANGED <<kind, wire, tx, booked, seen, excused>>

-----------------------------------------------------------------------------
\* What a call does as soon as it can, or when its time is up.
Proceed(c) ==
  \/ CannotBuild(c) \/ SignAndSend(c) \/ AskMcp(c) \/ McpFails(c)
  \/ GiveUp(c) \/ WaitFails(c) \/ PollOutcome(c) \/ Imported(c)

Next ==
  \/ Restart
  \/ \E s \in Servers : Connected(s)
  \/ \E c \in Calls :
       \/ Proceed(c) \/ McpAnswers(c) \/ OddAnswer(c) \/ WaitEnds(c)
       \/ Execute(c) \/ ReadCustody(c)
       \/ \E m \in wire[c] : Arrive(c, m)

Spec == Init /\ [][Next]_vars

\* Time goes by: what has a limit of its own reaches it.
Fairness == \A c \in Calls : WF_vars(Fn(c).timed /\ Proceed(c))
FairSpec == Spec /\ Fairness

-----------------------------------------------------------------------------
(***************************************************************************)
(* Properties.                                                             *)
(***************************************************************************)
TypeOK ==
  /\ kind \in [Calls -> Kinds] /\ call \in [Calls -> States]
  /\ \A c \in Calls : wire[c] \subseteq 1..Fn(c).methods
  /\ tx \in [Calls -> {"unknown", "pending", "executed", "reverted"}]
  /\ booked \subseteq Calls /\ excused \subseteq Calls
  /\ seen \in [Calls -> 0..Cardinality(Calls)]
  /\ mcp \in [Servers -> {"none", "pending", "up", "rejected"}]
  /\ connects \in [Servers -> Nat]

\* A success reported with a hash is a transaction the node took; who waited saw
\* it executed, but for signAndSubmitSwap when it gave up waiting; a failure is a
\* transaction without effect, unless the call was cut off from the node or the
\* chain.  What is booked in the fund's counters or in the event log was taken by
\* the node, in the event log even run by the chain, or its answer had no hash.
\* No read shows more custody than there is.  (With the types.)
VerdictsAreHonest ==
  /\ TypeOK
  /\ \A c \in Calls :
       /\ At(c, "success") /\ call[c].hash => tx[c] # "unknown"
       /\ At(c, "success") /\ kind[c] \in {"depositToVault", "demoCycle"} => tx[c] = "executed"
       /\ At(c, "success") /\ kind[c] = "swap" => tx[c] = "executed" \/ c \in excused
       /\ At(c, "returned") => tx[c] \in {"executed", "reverted"}
       /\ call[c].at \in {"reverted", "failed", "thrown"} =>
            tx[c] \in {"unknown", "reverted"} \/ c \in excused
       /\ seen[c] <= Custody
  /\ \A c \in booked :
       /\ tx[c] # "unknown" \/ (c \in excused /\ ~call[c].hash)
       /\ kind[c] = "emitRevenue" => tx[c] \in {"executed", "reverted"}

\* However many calls need a server at once, a process connects to it once.
ConnectsOnce == \A s \in Servers : connects[s] <= 1

\* Every call whose steps all have a time limit comes to an end.
CallsEnd == \A c \in Calls : Fn(c).timed => <>(call[c].at \in Ends)

=============================================================================
