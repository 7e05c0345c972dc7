-------------------------- MODULE Submission_proofs --------------------------
(***************************************************************************)
(* What a caller may conclude from the end of a submission, for any number *)
(* of calls of any functions, requests that arrive late and restarts.      *)
(***************************************************************************)
EXTENDS Submission, FiniteSetTheorems, TLAPS

TxStates == {"unknown", "pending", "executed", "reverted"}
Ran(c)    == tx[c] \in {"executed", "reverted"}
Failed(c) == call[c].at \in {"reverted", "failed", "thrown"}

\* The types of VerdictsAreHonest that the argument is about.
Typed ==
  /\ kind \in [Calls -> Kinds] /\ call \in [Calls -> States]
  /\ wire \in [Calls -> SUBSET (1..3)] /\ tx \in [Calls -> TxStates]
  /\ booked \subseteq Calls /\ excused \subseteq Calls

\* As long as a call was not cut off, the node knows nothing of its transaction
\* that it does not know itself: at most the request it waits for is on its way,
\* and none after a failure.
NothingBehind(c) ==
  /\ call[c].at \in {"idle", "connecting"} => tx[c] = "unknown" /\ wire[c] = {}
  /\ At(c, "sending") /\ c \notin excused => tx[c] = "unknown" /\ wire[c] \subseteq {call[c].method}
  /\ Failed(c) /\ c \notin excused => tx[c] = "reverted" \/ (tx[c] = "unknown" /\ wire[c] = {})

\* A hash is the node's; who went on without one was cut off.
HashIsEarned(c) ==
  /\ call[c].hash => tx[c] # "unknown"
  /\ call[c].at \in {"waiting", "polling", "importing"} /\ ~call[c].hash => c \in excused

\* What the ends rest on.
EndIsEarned(c) ==
  /\ call[c].at \in {"polling", "returned"} => Ran(c)
  /\ At(c, "importing") => kind[c] = "simulate"
  /\ At(c, "success") /\ kind[c] \in {"depositToVault", "demoCycle"} => tx[c] = "executed"
  /\ At(c, "success") /\ kind[c] = "swap" => tx[c] = "executed" \/ c \in excused

BookIsEarned(c) ==
  c \in booked =>
    /\ At(c, "success")
    /\ tx[c] # "unknown" \/ (c \in excused /\ ~call[c].hash)
    /\ kind[c] = "emitRevenue" => Ran(c)

CallInv(c) == /\ wire[c] \subseteq 1..Fn(c).methods
              /\ NothingBehind(c) /\ HashIsEarned(c) /\ EndIsEarned(c) /\ BookIsEarned(c)

CallsInv == Typed /\ \A c \in Calls : CallInv(c)

-----------------------------------------------------------------------------
Entry(server, methods, waits, timed, catches, books) ==
  [server |-> server, methods |-> methods, waits |-> waits, timed |-> timed,
   catches |-> catches, books |-> books]

\* The table of functions, written out.
LEMMA FunctionTable ==
  ASSUME NEW k \in Kinds
  PROVE  \/ k = "delegate" /\ functions[k] = Entry("none", 1, FALSE, TRUE, FALSE, FALSE)
         \/ k = "undelegate" /\ functions[k] = Entry("none", 1, FALSE, TRUE, FALSE, FALSE)
         \/ k = "vaultCall" /\ functions[k] = Entry("none", 1, FALSE, TRUE, FALSE, FALSE)
         \/ k = "position" /\ functions[k] = Entry("none", 1, FALSE, TRUE, TRUE, TRUE)
         \/ k = "bootstrap" /\ functions[k] = Entry("none", 1, FALSE, TRUE, FALSE, TRUE)
         \/ k = "auditLog" /\ functions[k] = Entry("none", 1, FALSE, TRUE, TRUE, FALSE)
         \/ k = "simulate" /\ functions[k] = Entry("none", 1, FALSE, TRUE, TRUE, TRUE)
         \/ k = "depositToVault" /\ functions[k] = Entry("none", 1, TRUE, FALSE, FALSE, FALSE)
         \/ k = "emitRevenue" /\ functions[k] = Entry("none", 1, TRUE, FALSE, TRUE, TRUE)
         \/ k = "demoCycle" /\ functions[k] = Entry("none", 1, TRUE, FALSE, FALSE, FALSE)
         \/ k = "transactionV1" /\ functions[k] = Entry("none", 1, TRUE, FALSE, FALSE, FALSE)
         \/ k = "swap" /\ functions[k] = Entry("trade", 1, TRUE, TRUE, FALSE, FALSE)
         \/ k = "raw" /\ functions[k] = Entry("none", 3, TRUE, TRUE, FALSE, FALSE)
         \/ k = "submitViaMcp" /\ functions[k] = Entry("trade", 1, FALSE, TRUE, FALSE, FALSE)
         \/ k = "quote" /\ functions[k] = Entry("trade", 0, FALSE, TRUE, FALSE, FALSE)
         \/ k = "account" /\ functions[k] = Entry("casper", 0, FALSE, TRUE, FALSE, FALSE)
<1>1. k \in {"delegate", "undelegate", "vaultCall", "position", "bootstrap", "auditLog",
            "simulate", "depositToVault", "emitRevenue", "demoCycle", "transactionV1", "swap",
            "raw", "submitViaMcp", "quote", "account"}
  BY DEF Kinds, functions
<1>2. CASE k = "delegate"
  BY <1>2 DEF functions, Entry, Plain, delegateToValidator
<1>3. CASE k = "undelegate"
  BY <1>3 DEF functions, Entry, Plain, undelegateFromValidator
<1>4. CASE k = "vaultCall"
  BY <1>4 DEF functions, Entry, Plain, callEntryPoint
<1>5. CASE k = "bootstrap"
  BY <1>5 DEF functions, Entry, Plain, demoBootstrapVault, callEntryPoint
<1>6. CASE k = "auditLog"
  BY <1>6 DEF functions, Entry, Plain, logStrategyToVault
<1>7. CASE k = "simulate"
  BY <1>7 DEF functions, Entry, Plain, triggerDeposit
<1>8. CASE k = "depositToVault"
  BY <1>8 DEF functions, Entry, Plain, depositToVault, signAndSubmitDeploy
<1>9. CASE k = "emitRevenue"
  BY <1>9 DEF functions, Entry, Plain, pushEvent, signAndSubmitDeploy
<1>10. CASE k = "demoCycle"
  BY <1>10 DEF functions, Entry, Plain, demoCycle, signAndSubmitDeploy
<1>11. CASE k = "transactionV1"
  BY <1>11 DEF functions, Entry, Plain, signAndSubmitTransactionV1, signAndSubmitDeploy
<1>12. CASE k = "swap"
  BY <1>12 DEF functions, Entry, Plain, signAndSubmitSwap
<1>13. CASE k = "raw"
  BY <1>13 DEF functions, Entry, Plain, submitRawTransaction
<1>14. CASE k = "submitViaMcp"
  BY <1>14 DEF functions, Entry, Plain, submitViaMcp
<1>15. CASE k = "quote"
  BY <1>15 DEF functions, Entry, Plain, getQuote
<1>16. CASE k = "account"
  BY <1>16 DEF functions, Entry, Plain, getAccountInfo
<1>17. CASE k = "position"
  BY <1>17 DEF functions, Entry, Plain, recordStrategyExecution, callEntryPoint
<1> QED
  BY <1>1, <1>2, <1>3, <1>4, <1>5, <1>6, <1>7, <1>8, <1>9, <1>10,
     <1>11, <1>12, <1>13, <1>14, <1>15, <1>16, <1>17

LEMMA FunctionFacts ==
  ASSUME NEW k \in Kinds
  PROVE  /\ functions[k].methods \in 0..3
         /\ functions[k].server \in {"none"} \cup Servers
         /\ functions[k].server = "none" => functions[k].methods > 0
         /\ k \in {"swap", "depositToVault", "demoCycle", "emitRevenue"} => functions[k].waits
         /\ k = "simulate" => ~functions[k].waits
         /\ k \in {"swap", "depositToVault", "demoCycle"} =>
              ~functions[k].books /\ functions[k].methods > 0
  BY FunctionTable DEF Entry, Servers

\* A step of call c leaves the others alone.
Others(c) ==
  \A d \in Calls : d # c =>
    /\ call'[d] = call[d] /\ wire'[d] = wire[d] /\ tx'[d] = tx[d]
    /\ (d \in booked' <=> d \in booked) /\ (d \in excused' <=> d \in excused)

LEMMA LocalStep ==
  ASSUME CallsInv, NEW c \in Calls, Typed', kind' = kind, Others(c), CallInv(c)'
  PROVE  CallsInv'
<1>. SUFFICES ASSUME NEW d \in Calls, d # c PROVE CallInv(d)'
  BY DEF CallsInv
<1>1. CallInv(d)
  BY DEF CallsInv
<1> QED
  BY <1>1 DEF Others, CallInv, NothingBehind, HashIsEarned, EndIsEarned, BookIsEarned,
              At, Fn, Ran, Failed

LEMMA MoveEffect ==
  ASSUME call \in [Calls -> States], NEW c \in Calls, NEW to, to \in {"idle", "connecting",
         "sending", "waiting", "polling", "importing"} \cup Ends, Move(c, to)
  PROVE  /\ call' \in [Calls -> States] /\ call'[c].at = to
         /\ call'[c].hash = call[c].hash /\ call'[c].method = call[c].method
         /\ \A d \in Calls : d # c => call'[d] = call[d]
  BY DEF Move, States

LEMMA SendEffect ==
  ASSUME call \in [Calls -> States], NEW left \in [Calls -> SUBSET (1..3)],
         NEW c \in Calls, NEW m \in 1..3, Send(c, m, left)
  PROVE  /\ call' \in [Calls -> States] /\ call'[c].at = "sending"
         /\ call'[c].hash = call[c].hash /\ call'[c].method = m
         /\ wire' \in [Calls -> SUBSET (1..3)] /\ wire'[c] = left[c] \cup {m}
         /\ \A d \in Calls : d # c => call'[d] = call[d] /\ wire'[d] = left[d]
<1>1. wire' \in [Calls -> SUBSET (1..3)] /\ wire'[c] = left[c] \cup {m}
      /\ \A d \in Calls : d # c => wire'[d] = left[d]
  BY DEF Send
<1>2. /\ call' \in [Calls -> States] /\ call'[c].at = "sending"
      /\ call'[c].hash = call[c].hash /\ call'[c].method = m
      /\ \A d \in Calls : d # c => call'[d] = call[d]
  BY DEF Send, States
<1> QED
  BY <1>1, <1>2

\* A failure is followed by the next method or ends the call.
LEMMA FailsEffect ==
  ASSUME Typed, NEW left \in [Calls -> SUBSET (1..3)], NEW c \in Calls, Fails(c, left)
  PROVE  /\ call' \in [Calls -> States] /\ wire' \in [Calls -> SUBSET (1..3)] /\ booked' = booked
         /\ \A d \in Calls : d # c => call'[d] = call[d] /\ wire'[d] = left[d]
         /\ call'[c].hash = call[c].hash
         /\ \/ /\ call'[c].at = "sending" /\ call'[c].method \in 1..Fn(c).methods
               /\ wire'[c] = left[c] \cup {call'[c].method}
            \/ call'[c].at \in {"failed", "thrown"} /\ wire'[c] = left[c]
<1>1. Fn(c).methods \in 0..3 /\ call[c].method \in 1..3
  BY FunctionFacts DEF Fn, Typed, States
<1>2. CASE call[c].method < Fn(c).methods
  <2>1. call[c].method + 1 \in 1..3 /\ call[c].method + 1 \in 1..Fn(c).methods
    BY <1>1, <1>2
  <2>2. Send(c, call[c].method + 1, left) /\ booked' = booked
    BY <1>2 DEF Fails
  <2> QED
    BY <2>1, <2>2, SendEffect DEF Typed
<1>3. CASE ~(call[c].method < Fn(c).methods)
  <2>1. Move(c, Failure(c)) /\ wire' = left /\ booked' = booked
    BY <1>3 DEF Fails
  <2>2. Failure(c) \in {"failed", "thrown"}
    BY DEF Failure
  <2> QED
    BY <2>1, <2>2, MoveEffect DEF Typed, Ends
<1> QED
  BY <1>2, <1>3

LEMMA BookEffect ==
  ASSUME Typed, NEW c \in Calls, NEW to, Book(c, to)
  PROVE  /\ booked' \subseteq Calls
         /\ \A d \in Calls : d # c => (d \in booked' <=> d \in booked)
         /\ c \in booked' => c \in booked \/ (to = "success" /\ Fn(c).books)
  BY DEF Book, Typed

LEMMA AcceptedEffect ==
  ASSUME Typed, NEW left \in [Calls -> SUBSET (1..3)], NEW c \in Calls, NEW hash \in BOOLEAN,
         Accepted(c, hash, left)
  PROVE  \/ ~hash /\ Fails(c, left)
         \/ /\ call' \in [Calls -> States] /\ wire' = left /\ booked' \subseteq Calls
            /\ \A d \in Calls : d # c => call'[d] = call[d] /\ (d \in booked' <=> d \in booked)
            /\ call'[c].hash = hash
            /\ call'[c].at \in {"waiting", "importing", "success"}
            /\ call'[c].at = "success" => ~Fn(c).waits
            /\ call'[c].at = "importing" => kind[c] = "simulate"
            /\ c \in booked' => c \in booked \/ call'[c].at = "success"
<1>1. CASE kind[c] = "raw" /\ ~hash
  BY <1>1 DEF Accepted
<1>2. CASE ~(kind[c] = "raw" /\ ~hash)
  <2>. DEFINE to == IF Fn(c).waits THEN "waiting"
                    ELSE IF kind[c] = "simulate" THEN "importing" ELSE "success"
  <2>1. call' = [call EXCEPT ![c].at = to, ![c].hash = hash] /\ wire' = left /\ Book(c, to)
    BY <1>2 DEF Accepted
  <2>2. /\ to \in {"waiting", "importing", "success"}
        /\ to = "success" => ~Fn(c).waits
        /\ to = "importing" => kind[c] = "simulate"
    OBVIOUS
  <2>. HIDE DEF to
  <2>3. /\ call' \in [Calls -> States] /\ call'[c].hash = hash /\ call'[c].at = to
        /\ \A d \in Calls : d # c => call'[d] = call[d]
    BY <2>1, <2>2 DEF Typed, States, Ends
  <2> QED
    BY <2>1, <2>2, <2>3, BookEffect
<1> QED
  BY <1>1, <1>2

-----------------------------------------------------------------------------
LEMMA FailsStep ==
  ASSUME CallsInv, NEW left \in [Calls -> SUBSET (1..3)], NEW c \in Calls, Fails(c, left),
         ~At(c, "success"), kind' = kind, tx' \in [Calls -> TxStates], excused' \subseteq Calls,
         \A d \in Calls : d # c => left[d] = wire[d] /\ tx'[d] = tx[d]
                               /\ (d \in excused' <=> d \in excused),
         left[c] \subseteq wire[c], tx[c] # "unknown" => tx'[c] # "unknown",
         c \in excused' \/ (tx'[c] = "unknown" /\ left[c] = {})
  PROVE  CallsInv'
<1>1. Typed /\ CallInv(c)
  BY DEF CallsInv
<1>2. /\ call' \in [Calls -> States] /\ wire' \in [Calls -> SUBSET (1..3)] /\ booked' = booked
      /\ \A d \in Calls : d # c => call'[d] = call[d] /\ wire'[d] = left[d]
      /\ call'[c].hash = call[c].hash
      /\ \/ /\ call'[c].at = "sending" /\ call'[c].method \in 1..Fn(c).methods
            /\ wire'[c] = left[c] \cup {call'[c].method}
         \/ call'[c].at \in {"failed", "thrown"} /\ wire'[c] = left[c]
  BY <1>1, FailsEffect
<1>3. Typed' /\ Others(c)
  BY <1>1, <1>2 DEF Typed, Others
<1>4. c \notin booked'
  BY <1>1, <1>2 DEF CallInv, BookIsEarned
<1>5. wire'[c] \subseteq 1..Fn(c).methods
  BY <1>1, <1>2 DEF CallInv
<1>6. CallInv(c)'
  BY <1>1, <1>2, <1>4, <1>5 DEF CallInv, NothingBehind, HashIsEarned, EndIsEarned,
     BookIsEarned, At, Fn, Failed
<1> QED
  BY <1>3, <1>6, LocalStep

LEMMA AcceptedStep ==
  ASSUME CallsInv, NEW left \in [Calls -> SUBSET (1..3)], NEW c \in Calls, NEW hash \in BOOLEAN,
         Accepted(c, hash, left),
         At(c, "sending"), kind' = kind, tx' \in [Calls -> TxStates], excused' \subseteq Calls,
         \A d \in Calls : d # c => left[d] = wire[d] /\ tx'[d] = tx[d]
                               /\ (d \in excused' <=> d \in excused),
         left[c] \subseteq wire[c], tx[c] # "unknown" => tx'[c] # "unknown",
         hash => tx'[c] # "unknown", ~hash => c \in excused'
  PROVE  CallsInv'
<1>1. Typed /\ CallInv(c) /\ ~At(c, "success")
  BY DEF CallsInv, At
<1>2. CASE ~hash /\ Fails(c, left)
  BY <1>1, <1>2, FailsStep
<1>3. CASE /\ call' \in [Calls -> States] /\ wire' = left /\ booked' \subseteq Calls
           /\ \A d \in Calls : d # c => call'[d] = call[d] /\ (d \in booked' <=> d \in booked)
           /\ call'[c].hash = hash
           /\ call'[c].at \in {"waiting", "importing", "success"}
           /\ call'[c].at = "success" => ~Fn(c).waits
           /\ call'[c].at = "importing" => kind[c] = "simulate"
           /\ c \in booked' => c \in booked \/ call'[c].at = "success"
  <2>1. Typed' /\ Others(c)
    BY <1>1, <1>3 DEF Typed, Others
  <2>2. call'[c].at = "success" =>
          kind[c] \notin {"swap", "depositToVault", "demoCycle", "emitRevenue"}
    BY <1>1, <1>3, FunctionFacts DEF Fn, Typed
  <2>3. c \notin booked
    BY <1>1 DEF CallInv, BookIsEarned
  <2>4. CallInv(c)'
    BY <1>1, <1>3, <2>2, <2>3 DEF CallInv, NothingBehind, HashIsEarned, EndIsEarned,
       BookIsEarned, At, Fn, Failed
  <2> QED
    BY <2>1, <2>4, LocalStep
<1> QED
  BY <1>1, <1>2, <1>3, AcceptedEffect

-----------------------------------------------------------------------------
\* The requests on the wire are the old ones, or one less.
LEMMA ArriveStep ==
  ASSUME CallsInv, NEW c \in Calls, NEW m \in wire[c], Arrive(c, m)
  PROVE  CallsInv'
<1>. DEFINE left == [wire EXCEPT ![c] = @ \ {m}]
<1>1. PICK takes \in BOOLEAN :
        /\ tx' = [tx EXCEPT ![c] = IF takes /\ @ = "unknown" THEN "pending" ELSE @]
        /\ excused' = IF ~takes /\ tx[c] # "unknown" THEN excused \cup {c} ELSE excused
        /\ IF ~(At(c, "sending") /\ call[c].method = m)
           THEN wire' = left /\ UNCHANGED <<call, booked>>
           ELSE IF takes THEN Accepted(c, TRUE, left) ELSE Refused(c, left)
  BY DEF Arrive
<1>2. Typed /\ CallInv(c) /\ kind' = kind
  BY DEF CallsInv, Arrive
<1>3. /\ left \in [Calls -> SUBSET (1..3)] /\ left[c] = wire[c] \ {m}
      /\ \A d \in Calls : d # c => left[d] = wire[d]
  BY <1>2 DEF Typed
<1>. HIDE DEF left
<1>4. /\ tx' \in [Calls -> TxStates] /\ excused' \subseteq Calls
      /\ \A d \in Calls : d # c => tx'[d] = tx[d] /\ (d \in excused' <=> d \in excused)
      /\ tx'[c] = IF takes /\ tx[c] = "unknown" THEN "pending" ELSE tx[c]
      /\ c \in excused => c \in excused'
      /\ ~takes /\ tx[c] # "unknown" => c \in excused'
  BY <1>1, <1>2 DEF Typed, TxStates
<1>5. CASE ~(At(c, "sending") /\ call[c].method = m)
  <2>1. wire' = left /\ UNCHANGED <<call, booked>>
    BY <1>1, <1>5
  <2>2. Typed' /\ Others(c)
    BY <1>2, <1>3, <1>4, <2>1 DEF Typed, Others
  <2>3. call[c].at \notin {"idle", "connecting"}
    BY <1>2 DEF CallInv, NothingBehind
  <2>4. At(c, "sending") => c \in excused
    BY <1>2, <1>5 DEF CallInv, NothingBehind
  <2>5. Failed(c) /\ c \notin excused => tx[c] = "reverted"
    BY <1>2 DEF CallInv, NothingBehind
  <2>6. tx[c] # "unknown" => tx'[c] = tx[c]
    BY <1>4
  <2>7. NothingBehind(c)'
    BY <1>4, <2>1, <2>3, <2>4, <2>5, <2>6 DEF NothingBehind, Failed, At
  <2>8. HashIsEarned(c)' /\ EndIsEarned(c)' /\ BookIsEarned(c)'
    BY <1>2, <1>4, <2>1, <2>6 DEF CallInv, HashIsEarned, EndIsEarned, BookIsEarned, At, Ran
  <2>9. wire'[c] \subseteq 1..Fn(c).methods
    BY <1>2, <1>3, <2>1 DEF CallInv
  <2> QED
    BY <1>2, <2>2, <2>7, <2>8, <2>9, LocalStep DEF CallInv, Fn
<1>6. CASE At(c, "sending") /\ call[c].method = m /\ takes
  <2>1. Accepted(c, TRUE, left) /\ tx'[c] # "unknown"
    BY <1>1, <1>4, <1>6
  <2> QED
    BY <1>2, <1>3, <1>4, <1>6, <2>1, AcceptedStep
<1>7. CASE At(c, "sending") /\ call[c].method = m /\ ~takes
  <2>1. Fails(c, left) /\ ~At(c, "success")
    BY <1>1, <1>7 DEF Refused, At
  <2>2. c \in excused' \/ (tx'[c] = "unknown" /\ left[c] = {})
    BY <1>2, <1>3, <1>4, <1>7 DEF CallInv, NothingBehind
  <2> QED
    BY <1>2, <1>3, <1>4, <2>1, <2>2, FailsStep
<1> QED
  BY <1>5, <1>6, <1>7

LEMMA CutOffStep ==
  ASSUME CallsInv, NEW c \in Calls, OddAnswer(c) \/ GiveUp(c)
  PROVE  CallsInv'
<1>1. /\ Typed /\ At(c, "sending") /\ ~At(c, "success") /\ excused' = excused \cup {c}
      /\ kind' = kind /\ tx' = tx
      /\ \/ Accepted(c, FALSE, wire)
         \/ Fails(c, wire)
  BY DEF OddAnswer, GiveUp, CallsInv, At
<1>2. /\ tx' \in [Calls -> TxStates] /\ wire \in [Calls -> SUBSET (1..3)]
      /\ excused' \subseteq Calls /\ c \in excused'
      /\ \A d \in Calls : d # c => d \in excused' <=> d \in excused
  BY <1>1 DEF Typed
<1> QED
  BY <1>1, <1>2, FailsStep, AcceptedStep
-----------------------------------------------------------------------------
\* A call that goes on without the wire.
LEMMA MoveFrame ==
  ASSUME CallsInv, NEW c \in Calls, NEW to \in {"idle", "connecting", "sending", "waiting",
         "polling", "importing"} \cup Ends, Move(c, to), UNCHANGED <<kind, wire, tx>>,
         booked' \subseteq Calls, excused' \in {excused, excused \cup {c}},
         \A d \in Calls : d # c => (d \in booked' <=> d \in booked)
  PROVE  /\ Typed' /\ Others(c) /\ wire'[c] \subseteq 1..Fn(c).methods
         /\ call'[c].at = to /\ call'[c].hash = call[c].hash
         /\ c \in excused => c \in excused'
<1>1. Typed /\ CallInv(c)
  BY DEF CallsInv
<1>2. /\ call' \in [Calls -> States] /\ call'[c].at = to /\ call'[c].hash = call[c].hash
      /\ \A d \in Calls : d # c => call'[d] = call[d]
  BY <1>1, MoveEffect DEF Typed
<1>3. excused' \subseteq Calls /\ (c \in excused => c \in excused')
      /\ \A d \in Calls : d # c => (d \in excused' <=> d \in excused)
  BY <1>1 DEF Typed
<1> QED
  BY <1>1, <1>2, <1>3 DEF Typed, Others, CallInv

LEMMA NotSentStep ==
  ASSUME CallsInv, NEW c \in Calls, CannotBuild(c) \/ McpFails(c)
  PROVE  CallsInv'
<1>1. PICK to \in {"failed", "thrown"} : Move(c, to)
  BY DEF CannotBuild, McpFails, Failure
<1>2. /\ UNCHANGED <<kind, wire, tx>> /\ booked' = booked /\ excused' = excused
      /\ call[c].at \in {"idle", "connecting"} /\ Typed /\ CallInv(c)
  BY DEF CannotBuild, McpFails, CallsInv, At
<1>3. /\ Typed' /\ Others(c) /\ wire'[c] \subseteq 1..Fn(c).methods
      /\ call'[c].at = to /\ call'[c].hash = call[c].hash
  BY <1>1, <1>2, MoveFrame DEF Ends, Typed
<1>4. CallInv(c)'
  BY <1>2, <1>3 DEF CallInv, NothingBehind, HashIsEarned, EndIsEarned, BookIsEarned, At, Fn, Failed
<1> QED
  BY <1>2, <1>3, <1>4, LocalStep

LEMMA AskStep ==
  ASSUME CallsInv, NEW c \in Calls, AskMcp(c)
  PROVE  CallsInv'
<1>1. /\ Move(c, "connecting") /\ UNCHANGED <<kind, wire, tx>> /\ booked' = booked
      /\ excused' = excused /\ At(c, "idle") /\ Typed /\ CallInv(c)
  BY DEF AskMcp, CallsInv
<1>2. /\ Typed' /\ Others(c) /\ wire'[c] \subseteq 1..Fn(c).methods
      /\ call'[c].at = "connecting" /\ call'[c].hash = call[c].hash
  BY <1>1, MoveFrame DEF Typed
<1>3. CallInv(c)'
  BY <1>1, <1>2 DEF CallInv, NothingBehind, HashIsEarned, EndIsEarned, BookIsEarned, At, Fn, Failed
<1> QED
  BY <1>1, <1>2, <1>3, LocalStep

\* The first request, of a call whose transaction nobody knows yet.
LEMMA FirstSendStep ==
  ASSUME CallsInv, NEW c \in Calls, Send(c, 1, wire), call[c].at \in {"idle", "connecting"},
         Fn(c).methods > 0, UNCHANGED <<kind, tx, booked, excused>>
  PROVE  CallsInv'
<1>1. Typed /\ CallInv(c) /\ Fn(c).methods \in 0..3
  BY FunctionFacts DEF CallsInv, Typed, Fn
<1>2. /\ call' \in [Calls -> States] /\ call'[c].at = "sending"
      /\ call'[c].hash = call[c].hash /\ call'[c].method = 1
      /\ wire' \in [Calls -> SUBSET (1..3)] /\ wire'[c] = wire[c] \cup {1}
      /\ \A d \in Calls : d # c => call'[d] = call[d] /\ wire'[d] = wire[d]
  BY <1>1, SendEffect DEF Typed
<1>3. Typed' /\ Others(c)
  BY <1>1, <1>2 DEF Typed, Others
<1>4. tx[c] = "unknown" /\ wire'[c] = {1} /\ 1 \in 1..Fn(c).methods
  BY <1>1, <1>2 DEF CallInv, NothingBehind
<1>5. CallInv(c)'
  BY <1>1, <1>2, <1>4 DEF CallInv, NothingBehind, HashIsEarned, EndIsEarned, BookIsEarned,
     At, Fn, Failed
<1> QED
  BY <1>3, <1>5, LocalStep

LEMMA SignAndSendStep ==
  ASSUME CallsInv, NEW c \in Calls, SignAndSend(c)
  PROVE  CallsInv'
<1>1. Fn(c).methods > 0
  BY FunctionFacts DEF SignAndSend, Fn, CallsInv, Typed
<1> QED
  BY <1>1, FirstSendStep DEF SignAndSend, At

LEMMA McpAnswersStep ==
  ASSUME CallsInv, NEW c \in Calls, McpAnswers(c)
  PROVE  CallsInv'
<1>1. CASE Fn(c).methods > 0
  BY <1>1, FirstSendStep DEF McpAnswers, At
<1>2. CASE ~(Fn(c).methods > 0)
  <2>1. /\ Move(c, "success") /\ UNCHANGED <<kind, wire, tx>> /\ booked' = booked
        /\ excused' = excused /\ At(c, "connecting") /\ Typed /\ CallInv(c)
    BY <1>2 DEF McpAnswers, CallsInv
  <2>2. /\ Typed' /\ Others(c) /\ wire'[c] \subseteq 1..Fn(c).methods
        /\ call'[c].at = "success" /\ call'[c].hash = call[c].hash
    BY <2>1, MoveFrame DEF Typed, Ends
  <2>3. kind[c] \notin {"swap", "depositToVault", "demoCycle"}
    BY <1>2, <2>1, FunctionFacts DEF Fn, Typed
  <2>4. CallInv(c)'
    BY <2>1, <2>2, <2>3 DEF CallInv, NothingBehind, HashIsEarned, EndIsEarned, BookIsEarned,
       At, Fn, Failed
  <2> QED
    BY <2>1, <2>2, <2>4, LocalStep
<1> QED
  BY <1>1, <1>2

-----------------------------------------------------------------------------
LEMMA WaitEndsStep ==
  ASSUME CallsInv, NEW c \in Calls, WaitEnds(c)
  PROVE  CallsInv'
<1>1. PICK readable \in BOOLEAN :
        /\ EndsAs(c, CASE kind[c] \in {"swap", "depositToVault"} ->
                            IF readable /\ tx[c] = "executed" THEN "success" ELSE "reverted"
                       [] kind[c] = "demoCycle" -> "polling"
                       [] kind[c] = "emitRevenue" -> "success"
                       [] OTHER -> "returned")
        /\ excused' = IF readable THEN excused ELSE excused \cup {c}
  BY DEF WaitEnds
<1>2. /\ UNCHANGED <<kind, wire, tx>> /\ At(c, "waiting") /\ Ran(c) /\ Typed /\ CallInv(c)
  BY DEF WaitEnds, CallsInv, Ran
<1>3. c \notin booked
  BY <1>2 DEF CallInv, BookIsEarned, At
<1>4. PICK to \in {"success", "reverted", "polling", "returned"} :
        /\ EndsAs(c, to)
        /\ to = "reverted" => kind[c] \in {"swap", "depositToVault"}
                              /\ ~(readable /\ tx[c] = "executed")
        /\ to = "success" => kind[c] = "emitRevenue" \/ tx[c] = "executed"
  BY <1>1
<1>5. Move(c, to) /\ Book(c, to)
  BY <1>4 DEF EndsAs
<1>6. /\ booked' \subseteq Calls
      /\ \A d \in Calls : d # c => (d \in booked' <=> d \in booked)
      /\ c \in booked' => to = "success"
  BY <1>2, <1>3, <1>5, BookEffect
<1>7. /\ Typed' /\ Others(c) /\ wire'[c] \subseteq 1..Fn(c).methods
      /\ call'[c].at = to /\ call'[c].hash = call[c].hash /\ (c \in excused => c \in excused')
  <2>1. excused' \in {excused, excused \cup {c}}
    BY <1>1
  <2>2. to \in {"idle", "connecting", "sending", "waiting", "polling", "importing"} \cup Ends
    BY DEF Ends
  <2> QED
    BY <1>2, <1>5, <1>6, <2>1, <2>2, MoveFrame
<1>8. to = "reverted" /\ c \notin excused' => tx[c] = "reverted"
  BY <1>1, <1>2, <1>4 DEF Ran
<1>9. NothingBehind(c)'
  BY <1>2, <1>7, <1>8 DEF NothingBehind, At, Failed
<1>10. HashIsEarned(c)' /\ EndIsEarned(c)' /\ BookIsEarned(c)'
  BY <1>2, <1>4, <1>6, <1>7 DEF CallInv, HashIsEarned, EndIsEarned, BookIsEarned, At, Ran
<1> QED
  BY <1>2, <1>7, <1>9, <1>10, LocalStep DEF CallInv, Fn

LEMMA WaitFailsStep ==
  ASSUME CallsInv, NEW c \in Calls, WaitFails(c)
  PROVE  CallsInv'
<1>1. /\ At(c, "waiting") /\ ~At(c, "success") /\ excused' = excused \cup {c}
      /\ kind' = kind /\ tx' = tx /\ Typed /\ CallInv(c)
  BY DEF WaitFails, CallsInv, At
<1>2. /\ excused' \subseteq Calls /\ c \in excused'
      /\ \A d \in Calls : d # c => (d \in excused' <=> d \in excused)
  BY <1>1 DEF Typed
<1>3. CASE kind[c] # "swap"
  <2>1. Fails(c, wire)
    BY <1>3 DEF WaitFails
  <2> QED
    BY <1>1, <1>2, <2>1, FailsStep DEF Typed
<1>4. CASE kind[c] = "swap"
  <2>1. Move(c, "success") /\ Book(c, "success") /\ wire' = wire
    BY <1>4 DEF WaitFails, EndsAs
  <2>2. /\ booked' \subseteq Calls /\ c \notin booked'
        /\ \A d \in Calls : d # c => (d \in booked' <=> d \in booked)
    <3>1. c \notin booked /\ ~Fn(c).books
      BY <1>1, <1>4, FunctionFacts DEF CallInv, BookIsEarned, Fn, At, Typed
    <3> QED
      BY <1>1, <2>1, <3>1, BookEffect
  <2>3. /\ Typed' /\ Others(c) /\ wire'[c] \subseteq 1..Fn(c).methods
        /\ call'[c].at = "success" /\ call'[c].hash = call[c].hash
    BY <1>1, <2>1, <2>2, MoveFrame DEF Ends
  <2>4. CallInv(c)'
    BY <1>1, <1>2, <1>4, <2>2, <2>3 DEF CallInv, NothingBehind, HashIsEarned, EndIsEarned,
       BookIsEarned, At, Fn, Failed
  <2> QED
    BY <1>1, <2>3, <2>4, LocalStep
<1> QED
  BY <1>3, <1>4

LEMMA PollOutcomeStep ==
  ASSUME CallsInv, NEW c \in Calls, PollOutcome(c)
  PROVE  CallsInv'
<1>1. /\ UNCHANGED <<kind, wire, tx>> /\ booked' = booked /\ At(c, "polling")
      /\ Typed /\ CallInv(c)
      /\ \/ /\ Move(c, IF tx[c] = "executed" THEN "success" ELSE "reverted")
            /\ excused' = excused
         \/ Move(c, "reverted") /\ excused' = excused \cup {c}
  BY DEF PollOutcome, CallsInv
<1>2. Ran(c) /\ c \notin booked
  BY <1>1 DEF CallInv, EndIsEarned, BookIsEarned, At
<1>3. PICK to \in {"success", "reverted"} :
        /\ Move(c, to) /\ excused' \in {excused, excused \cup {c}}
        /\ to = "success" => tx[c] = "executed"
        /\ to = "reverted" /\ c \notin excused' => tx[c] = "reverted"
  BY <1>1, <1>2 DEF Ran
<1>4. /\ Typed' /\ Others(c) /\ wire'[c] \subseteq 1..Fn(c).methods
      /\ call'[c].at = to /\ call'[c].hash = call[c].hash
  BY <1>1, <1>3, MoveFrame DEF Ends, Typed
<1>5. CallInv(c)'
  BY <1>1, <1>2, <1>3, <1>4 DEF CallInv, NothingBehind, HashIsEarned, EndIsEarned,
     BookIsEarned, At, Fn, Failed
<1> QED
  BY <1>1, <1>4, <1>5, LocalStep

LEMMA ImportedStep ==
  ASSUME CallsInv, NEW c \in Calls, Imported(c)
  PROVE  CallsInv'
<1>1. /\ UNCHANGED <<kind, wire, tx>> /\ excused' = excused /\ At(c, "importing")
      /\ Typed /\ CallInv(c) /\ Move(c, "success") /\ Book(c, "success")
  BY DEF Imported, EndsAs, CallsInv
<1>2. /\ booked' \subseteq Calls
      /\ \A d \in Calls : d # c => (d \in booked' <=> d \in booked)
  BY <1>1, BookEffect
<1>3. /\ Typed' /\ Others(c) /\ wire'[c] \subseteq 1..Fn(c).methods
      /\ call'[c].at = "success" /\ call'[c].hash = call[c].hash
  BY <1>1, <1>2, MoveFrame DEF Ends
<1>4. /\ kind[c] = "simulate"
      /\ tx[c] # "unknown" \/ (c \in excused /\ ~call[c].hash)
  BY <1>1 DEF CallInv, EndIsEarned, HashIsEarned, At
<1>5. CallInv(c)'
  BY <1>1, <1>3, <1>4 DEF CallInv, NothingBehind, HashIsEarned, EndIsEarned, BookIsEarned,
     At, Fn, Failed
<1> QED
  BY <1>1, <1>3, <1>5, LocalStep

LEMMA ExecuteStep ==
  ASSUME CallsInv, NEW c \in Calls, Execute(c)
  PROVE  CallsInv'
<1>1. PICK result \in {"executed", "reverted"} : tx' = [tx EXCEPT ![c] = result]
  BY DEF Execute
<1>2. /\ tx[c] = "pending" /\ UNCHANGED <<kind, call, wire, booked, excused>>
      /\ Typed /\ CallInv(c)
  BY DEF Execute, CallsInv
<1>3. /\ tx' \in [Calls -> TxStates] /\ tx'[c] = result
      /\ \A d \in Calls : d # c => tx'[d] = tx[d]
  BY <1>1, <1>2 DEF Typed, TxStates
<1>4. Typed' /\ Others(c)
  BY <1>2, <1>3 DEF Typed, Others
<1>5. CallInv(c)'
  BY <1>2, <1>3 DEF CallInv, NothingBehind, HashIsEarned, EndIsEarned, BookIsEarned,
     At, Fn, Failed, Ran
<1> QED
  BY <1>2, <1>4, <1>5, LocalStep

\* What was in flight is lost, with nothing to answer for.
LEMMA RestartStep == CallsInv /\ Restart => CallsInv'
<1>. SUFFICES ASSUME CallsInv, Restart PROVE CallsInv'
  OBVIOUS
<1>1. /\ Typed /\ UNCHANGED <<kind, wire, tx, booked, excused>>
      /\ call' = [c \in Calls |-> IF InFlight(c) THEN [call[c] EXCEPT !.at = "lost"] ELSE call[c]]
  BY DEF Restart, CallsInv
<1>2. ASSUME NEW c \in Calls
      PROVE  /\ call'[c] \in States /\ call'[c].hash = call[c].hash
             /\ call'[c] = call[c] \/ (call'[c].at = "lost" /\ ~At(c, "success"))
  BY <1>1 DEF Typed, States, Ends, InFlight, At
<1>3. Typed'
  <2>1. call' \in [Calls -> States]
    BY <1>1, <1>2
  <2> QED
    BY <1>1, <2>1 DEF Typed
<1>4. ASSUME NEW c \in Calls PROVE CallInv(c)'
  BY <1>1, <1>2 DEF CallsInv, CallInv, NothingBehind, HashIsEarned, EndIsEarned, BookIsEarned,
     At, Fn, Failed, Ran
<1> QED
  BY <1>3, <1>4 DEF CallsInv

LEMMA SameCalls ==
  ASSUME CallsInv, UNCHANGED <<kind, call, wire, tx, booked, excused>>
  PROVE  CallsInv'
  BY DEF CallsInv, Typed, CallInv, NothingBehind, HashIsEarned, EndIsEarned, BookIsEarned,
     At, Fn, Failed, Ran

LEMMA CallsStep == CallsInv /\ [Next]_vars => CallsInv'
<1>. SUFFICES ASSUME CallsInv, [Next]_vars PROVE CallsInv'
  OBVIOUS
<1>1. ASSUME NEW s \in Servers, Connected(s) PROVE CallsInv'
  BY <1>1, SameCalls DEF Connected
<1>2. ASSUME NEW c \in Calls, ReadCustody(c) PROVE CallsInv'
  BY <1>2, SameCalls DEF ReadCustody
<1>3. CASE UNCHANGED vars
  BY <1>3, SameCalls DEF vars
<1>4. ASSUME NEW c \in Calls, Proceed(c) PROVE CallsInv'
  BY <1>4, NotSentStep, SignAndSendStep, AskStep, CutOffStep, WaitFailsStep, PollOutcomeStep,
     ImportedStep DEF Proceed
<1> QED
  BY <1>1, <1>2, <1>3, <1>4, RestartStep, McpAnswersStep, CutOffStep, WaitEndsStep,
     ExecuteStep, ArriveStep DEF Next
-----------------------------------------------------------------------------
\* Custody only grows, for what ran stays so: why no read goes stale upwards.
ReadsAreCovered == seen \in [Calls -> Nat] /\ \A c \in Calls : seen[c] <= Custody

LEMMA CustodyIsNat == Custody \in 0..Cardinality(Calls) /\ Cardinality(Calls) \in Nat
<1>. DEFINE S == {c \in Calls : kind[c] = "bootstrap" /\ tx[c] = "executed"}
<1>1. S \subseteq Calls
  OBVIOUS
<1>. HIDE DEF S
<1>2. IsFiniteSet(S) /\ Cardinality(S) <= Cardinality(Calls)
  BY <1>1, CallsAssumption, FS_Subset
<1>3. Cardinality(S) \in Nat /\ Cardinality(Calls) \in Nat
  BY <1>2, CallsAssumption, FS_CardinalityType
<1>4. Custody = Cardinality(S)
  BY DEF Custody, S
<1> QED
  BY <1>2, <1>3, <1>4

LEMMA CustodyGrows ==
  ASSUME kind' = kind, \A c \in Calls : tx[c] = "executed" => tx'[c] = "executed"
  PROVE  Custody <= Custody' /\ Custody' \in Nat
<1>. DEFINE S == {c \in Calls : kind[c] = "bootstrap" /\ tx[c] = "executed"}
            T == {c \in Calls : kind[c] = "bootstrap" /\ tx'[c] = "executed"}
<1>1. S \subseteq T /\ T \subseteq Calls
  OBVIOUS
<1>2. Custody = Cardinality(S) /\ Custody' = Cardinality(T)
  BY DEF Custody
<1>. HIDE DEF S, T
<1>3. IsFiniteSet(T)
  BY <1>1, CallsAssumption, FS_Subset
<1>4. Cardinality(S) <= Cardinality(T) /\ Cardinality(T) \in Nat
  BY <1>1, <1>3, FS_Subset, FS_CardinalityType
<1> QED
  BY <1>2, <1>4

LEMMA RanIsFinal ==
  ASSUME CallsInv, [Next]_vars
  PROVE  kind' = kind /\ \A c \in Calls : tx[c] = "executed" => tx'[c] = "executed"
<1>1. tx \in [Calls -> TxStates]
  BY DEF CallsInv, Typed
<1>2. ASSUME NEW c \in Calls, NEW m \in wire[c], Arrive(c, m)
      PROVE  kind' = kind /\ \A d \in Calls : tx[d] = "executed" => tx'[d] = "executed"
  BY <1>1, <1>2 DEF Arrive
<1>3. ASSUME NEW c \in Calls, Execute(c)
      PROVE  kind' = kind /\ \A d \in Calls : tx[d] = "executed" => tx'[d] = "executed"
  BY <1>1, <1>3 DEF Execute
<1>4. ASSUME NEW c \in Calls,
             Proceed(c) \/ McpAnswers(c) \/ OddAnswer(c) \/ WaitEnds(c) \/ ReadCustody(c)
      PROVE  kind' = kind /\ tx' = tx
  BY <1>4 DEF Proceed, CannotBuild, SignAndSend, AskMcp, McpFails, GiveUp, WaitFails,
     PollOutcome, Imported, McpAnswers, OddAnswer, WaitEnds, ReadCustody
<1>5. ASSUME Restart \/ (\E s \in Servers : Connected(s)) \/ UNCHANGED vars
      PROVE  kind' = kind /\ tx' = tx
  BY <1>5 DEF Restart, Connected, vars
<1> QED
  BY <1>2, <1>3, <1>4, <1>5 DEF Next

LEMMA ReadsStep == CallsInv /\ ReadsAreCovered /\ [Next]_vars => ReadsAreCovered'
<1>. SUFFICES ASSUME CallsInv, ReadsAreCovered, [Next]_vars PROVE ReadsAreCovered'
  OBVIOUS
<1>1. Custody <= Custody' /\ Custody \in Nat /\ Custody' \in Nat
  <2>1. Custody <= Custody' /\ Custody' \in Nat
    BY RanIsFinal, CustodyGrows
  <2>2. Custody \in Nat
    BY CustodyIsNat
  <2> QED
    BY <2>1, <2>2
<1>2. ASSUME NEW c \in Calls, ReadCustody(c) PROVE ReadsAreCovered'
  <2>1. PICK read \in {0, Custody} : seen' = [seen EXCEPT ![c] = read]
    BY <1>2 DEF ReadCustody
  <2>2. read \in Nat /\ read <= Custody
    BY <1>1, <2>1
  <2>3. seen' \in [Calls -> Nat] /\ \A d \in Calls : seen'[d] <= Custody
    BY <2>1, <2>2 DEF ReadsAreCovered
  <2> QED
    BY <1>1, <2>3 DEF ReadsAreCovered
<1>3. CASE seen' = seen
  BY <1>1, <1>3 DEF ReadsAreCovered
<1>4. (\E c \in Calls : ReadCustody(c)) \/ seen' = seen
  BY DEF Next, Proceed, CannotBuild, SignAndSend, AskMcp, McpFails, GiveUp, WaitFails,
     PollOutcome, Imported, McpAnswers, OddAnswer, WaitEnds, Restart, Connected, Arrive,
     Execute, vars
<1> QED
  BY <1>2, <1>3, <1>4

-----------------------------------------------------------------------------
\* A server nobody asked for yet was not connected to.
ConnectInv ==
  /\ mcp \in [Servers -> {"none", "pending", "up", "rejected"}]
  /\ connects \in [Servers -> Nat]
  /\ \A s \in Servers : connects[s] <= 1 /\ (mcp[s] = "none" => connects[s] = 0)

LEMMA ConnectStep == CallsInv /\ ConnectInv /\ [Next]_vars => ConnectInv'
<1>. SUFFICES ASSUME CallsInv, ConnectInv, [Next]_vars PROVE ConnectInv'
  OBVIOUS
<1>1. ASSUME NEW c \in Calls, AskMcp(c) PROVE ConnectInv'
  <2>1. PICK s \in Servers : getMcp(s)
    BY <1>1 DEF AskMcp
  <2> QED
    BY <2>1 DEF getMcp, ConnectInv
<1>2. ASSUME NEW s \in Servers, Connected(s) PROVE ConnectInv'
  BY <1>2 DEF Connected, ConnectInv
<1>3. CASE Restart
  BY <1>3 DEF Restart, ConnectInv
<1>4. CASE UNCHANGED <<mcp, connects>>
  BY <1>4 DEF ConnectInv
<1>5. \/ \E c \in Calls : AskMcp(c)
      \/ \E s \in Servers : Connected(s)
      \/ Restart
      \/ UNCHANGED <<mcp, connects>>
  BY DEF Next, Proceed, CannotBuild, SignAndSend, McpFails, GiveUp, WaitFails, PollOutcome,
     Imported, McpAnswers, OddAnswer, WaitEnds, ReadCustody, Arrive, Execute, vars
<1> QED
  BY <1>1, <1>2, <1>3, <1>4, <1>5

LEMMA InitInv == Init => CallsInv /\ ReadsAreCovered /\ ConnectInv
<1>. SUFFICES ASSUME Init PROVE CallsInv /\ ReadsAreCovered /\ ConnectInv
  OBVIOUS
<1>1. Typed
  BY DEF Init, Typed, Idle, States, TxStates
<1>2. ASSUME NEW c \in Calls PROVE CallInv(c)
  BY DEF Init, Idle, CallInv, NothingBehind, HashIsEarned, EndIsEarned, BookIsEarned, At, Failed
<1>3. ReadsAreCovered
  <2>1. Custody \in Nat
    BY CustodyIsNat
  <2> QED
    BY <2>1 DEF Init, ReadsAreCovered
<1>4. ConnectInv
  BY DEF Init, ConnectInv
<1> QED
  BY <1>1, <1>2, <1>3, <1>4 DEF CallsInv

LEMMA Inductive == Spec => [](CallsInv /\ ReadsAreCovered /\ ConnectInv)
  BY InitInv, CallsStep, ReadsStep, ConnectStep, PTL DEF Spec

\* What a caller is told, and what it books, agrees with what the node and the
\* chain know, whichever requests were lost, late or answered oddly.
THEOREM VerdictsStayHonest == Spec => []VerdictsAreHonest
<1>1. CallsInv /\ ReadsAreCovered /\ ConnectInv => VerdictsAreHonest
  <2>. SUFFICES ASSUME CallsInv, ReadsAreCovered, ConnectInv PROVE VerdictsAreHonest
    OBVIOUS
  <2>1. TypeOK
    <3>1. seen \in [Calls -> 0..Cardinality(Calls)]
      BY CustodyIsNat DEF ReadsAreCovered
    <3> QED
      BY <3>1 DEF TypeOK, CallsInv, Typed, CallInv, ConnectInv, TxStates
  <2>2. ASSUME NEW c \in Calls
        PROVE  /\ At(c, "success") /\ call[c].hash => tx[c] # "unknown"
               /\ At(c, "success") /\ kind[c] \in {"depositToVault", "demoCycle"} => tx[c] = "executed"
               /\ At(c, "success") /\ kind[c] = "swap" => tx[c] = "executed" \/ c \in excused
               /\ At(c, "returned") => tx[c] \in {"executed", "reverted"}
               /\ call[c].at \in {"reverted", "failed", "thrown"} =>
                    tx[c] \in {"unknown", "reverted"} \/ c \in excused
               /\ seen[c] <= Custody
    BY DEF CallsInv, CallInv, NothingBehind, HashIsEarned, EndIsEarned, ReadsAreCovered,
       At, Failed, Ran
  <2>3. ASSUME NEW c \in booked
        PROVE  /\ tx[c] # "unknown" \/ (c \in excused /\ ~call[c].hash)
               /\ kind[c] = "emitRevenue" => tx[c] \in {"executed", "reverted"}
    BY DEF CallsInv, Typed, CallInv, BookIsEarned, Ran
  <2> QED
    BY <2>1, <2>2, <2>3 DEF VerdictsAreHonest
<1> QED
  BY <1>1, Inductive, PTL

\* However many calls ask for it at once, a process connects to a server once.
THEOREM ServersAreConnectedOnce == Spec => []ConnectsOnce
<1>1. ConnectInv => ConnectsOnce
  BY DEF ConnectInv, ConnectsOnce
<1> QED
  BY <1>1, Inductive, PTL
=============================================================================
