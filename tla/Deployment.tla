----------------------------- MODULE Deployment -----------------------------
(***************************************************************************)
(* The scripts that put the contracts on the chain and their hashes into   *)
(* the environment files: agent/scripts/deploy.ts, setup.ts,               *)
(* deploy-cep18.ts and record-deployment.ts, and verify-setup.ts, which     *)
(* looks at the result.                                                    *)
(*                                                                         *)
(* Three files are involved: agent/.env, which the agent's configuration   *)
(* is read from, .env.local in the repository's root, which deploy.ts      *)
(* writes and reads, and .env.local one directory above, which             *)
(* record-deployment.ts appends to.  A file is the sequence of its lines.  *)
(* The operator runs one script at a time, on the test network, and may    *)
(* stop it.  The account's balance is only reported, never acted on.       *)
(***************************************************************************)
EXTENDS Naturals, Sequences, SequencesExt

CONSTANTS
  Order,      \* the contracts deploy.ts deploys, in its order
  MaxRuns,    \* bound: how many runs of a script that writes there are
  MaxDeploys  \* bound: how many deploys the node is sent

\* What setup.ts deploys, and what verify-setup.ts looks for.
SetupOrder == <<"revenue_emitter", "agent_vault">>
Checked    == {"revenue_emitter", "agent_vault"}

Contracts == {Order[i] : i \in 1..Len(Order)}

\* Every contract once, and among them the two that all scripts know.
ASSUME OrderAssumption ==
  /\ Order \in Seq({"revenue_emitter", "agent_vault", "stakeholder_deposit"})
  /\ IsInjective(Order) /\ Checked \subseteq Contracts
ASSUME BoundsAssumption == MaxRuns \in Nat /\ MaxDeploys \in Nat

VARIABLES
  deploys,    \* the deploys the node accepted: a hash is a place in it
  named,      \* the account's named keys: the deploy each was set by, or 0
  run,        \* the script that runs, see Runs
  wasm,       \* the contracts whose artifact is in contracts/odra/wasm
  keyFiles,   \* the files in agent/keys that hold a key
  hasEnv,     \* whether there is an agent/.env, which may be empty
  localEnv, agentEnv, outerEnv,   \* the lines of the environment files
  verified,   \* history: the hashes a strict verification saw that passed since the last run
  runs        \* history: how many runs there were

chain == <<deploys, named>>
envs  == <<localEnv, agentEnv, outerEnv>>
disk  == <<wasm, keyFiles, hasEnv>>
deployVars == <<chain, run, disk, envs, verified, runs>>

TokenNames == {"cep18", "cep18_test"}
Names      == Contracts \cup TokenNames

\* A hash in a file: of a contract, or of the deploy that should have installed
\* it.  "prefixed": written with the hash- that some readers insist on.
Hashes == [is : {"contract", "deploy"}, of : 1..MaxDeploys, prefixed : BOOLEAN]
Hash(kind, d, prefixed) == [is |-> kind, of |-> d, prefixed |-> prefixed]
Blank  == [is |-> "blank", of |-> 0, prefixed |-> FALSE]
Text   == [is |-> "text", of |-> 0, prefixed |-> FALSE]
Typed  == [is |-> "text", of |-> 0, prefixed |-> TRUE]

Values == Hashes \cup {Blank, Text, Typed}
Keys   == Names \cup {"AGENT_SECRET_KEY_PATH", "# Generated by", "# by hand"}
Lines  == [key : Keys, value : Values]
Line(key, value) == [key |-> key, value |-> value]

Header   == Line("# Generated by", Text)
HandLine == Line("# by hand", Text)

Idle == [script |-> "none", at |-> "idle", skipDeploy |-> FALSE, todo |-> <<>>,
         deploy |-> 0, results |-> <<>>]
Runs == [script : {"none", "deploy", "setup", "cep18"},
         at : {"idle", "building", "recovering", "submitting", "waiting", "recording"},
         skipDeploy : BOOLEAN, todo : Seq(Names), deploy : 0..MaxDeploys,
         results : UNION {[S -> Hashes] : S \in SUBSET Names}]

-----------------------------------------------------------------------------
(***************************************************************************)
(* The environment files.                                                  *)
(***************************************************************************)
Places(env, key) == {i \in 1..Len(env) : env[i].key = key}

\* dotenv: of several lines with one key the last one counts.
Configured(env, key) ==
  IF Places(env, key) = {} THEN Blank ELSE env[Max(Places(env, key))].value

\* The pattern of --skip-deploy: the first line whose value begins with hash-.
Recoverable(env, c) == {i \in Places(env, c) : env[i].value.prefixed}

\* Mutant: a line is added whether the key has one or not.
AlwaysAppend(env, key, value) == Append(env, Line(key, value))

\* replace of the first line of a key, with a fallback to a new line.
ReplaceOrAppend(env, key, value) ==
  IF Places(env, key) = {} THEN Append(env, Line(key, value))
  ELSE [env EXCEPT ![Min(Places(env, key))].value = value]

\* The block of the run before goes, with all that follows it; but a block on
\* the first line is at index 0, and stays.
StripBlock(env) ==
  LET blocks == Places(env, Header.key)
  IN IF blocks = {} \/ 1 \in blocks THEN env ELSE SubSeq(env, 1, Min(blocks) - 1)

Block(results) ==
  FoldLeft(LAMBDA lines, c : IF c \in DOMAIN results
                             THEN Append(lines, Line(c, results[c])) ELSE lines,
           <<Header>>, Order)

\* writeFileSync empties the file before it writes: cut off in between, it leaves
\* the file empty.
Overwritten(new) == {new, <<>>}

-----------------------------------------------------------------------------
(***************************************************************************)
(* The beginning: a fresh clone or a machine with a key and artifacts; a   *)
(* .env.local, if any, that begins with a line of the operator's, and an   *)
(* agent/.env, if any, that has the hashes blank, as the template has.     *)
(***************************************************************************)
DeployInit ==
  /\ deploys = <<>>
  /\ named = [t \in TokenNames |-> 0]
  /\ run = Idle
  /\ \/ wasm = {} /\ keyFiles = {}
     \/ wasm = Names /\ keyFiles = {"agent.pem"}
  /\ localEnv \in {<<>>, <<HandLine>>}
  /\ \/ hasEnv = FALSE /\ agentEnv = <<>>
     \/ hasEnv = TRUE /\ agentEnv = <<HandLine, Line(Order[1], Blank), Line("cep18", Blank)>>
  /\ outerEnv = <<>>
  /\ verified = {}
  /\ runs = 0

-----------------------------------------------------------------------------
(***************************************************************************)
(* What all scripts have in common.                                        *)
(***************************************************************************)
Start(script, at, skipDeploy, todo) ==
  /\ run = Idle /\ runs < MaxRuns
  /\ runs' = runs + 1 /\ verified' = {}
  /\ run' = [Idle EXCEPT !.script = script, !.at = at,
                         !.skipDeploy = skipDeploy, !.todo = todo]

\* It throws, exits or is stopped: what it holds in memory is gone.
Stop ==
  /\ run # Idle
  /\ run' = Idle
  /\ UNCHANGED <<chain, disk, envs, verified, runs>>

\* putDeploy of the next contract's artifact; when the node took it and the
\* answer is lost or holds no hash, the script ends.
Submit ==
  /\ run.at = "submitting" /\ run.todo # <<>>
  /\ Head(run.todo) \in wasm
  /\ Len(deploys) < MaxDeploys
  /\ deploys' = Append(deploys, [of |-> Head(run.todo), status |-> "pending"])
  /\ \/ run' = [run EXCEPT !.at = "waiting", !.deploy = Len(deploys')]
     \/ run' = Idle
  /\ UNCHANGED <<named, disk, envs, verified, runs>>

\* The contract waited for is done with.
Resolved(kept) ==
  run' = [run EXCEPT !.at = "submitting", !.deploy = 0, !.todo = Tail(@),
                     !.results = kept]

Keep(kind, prefixed) ==
  LET c == Head(run.todo)
  IN [x \in DOMAIN run.results \cup {c} |->
        IF x = c THEN Hash(kind, run.deploy, prefixed) ELSE run.results[x]]

Finished == run.at = "submitting" /\ run.todo = <<>>

\* External: the chain executes a deploy, perhaps long after the scripts gave
\* up on it; an installed token sets the account's named key.
Execute(d) ==
  /\ deploys[d].status = "pending"
  /\ \E status \in {"installed", "reverted"} :
       /\ deploys' = [deploys EXCEPT ![d].status = status]
       /\ named' = [t \in TokenNames |-> IF t = deploys[d].of /\ status = "installed"
                                     THEN d ELSE named[t]]
  /\ UNCHANGED <<run, disk, envs, verified, runs>>

-----------------------------------------------------------------------------
(***************************************************************************)
(* deploy.ts.                                                              *)
(***************************************************************************)
StartDeploy(todo, skipBuild, skipDeploy) ==
  /\ "agent.pem" \in keyFiles
  /\ Start("deploy", IF ~skipBuild THEN "building"
                     ELSE IF skipDeploy THEN "recovering" ELSE "submitting",
           skipDeploy, todo)
  /\ UNCHANGED <<chain, disk, envs>>

\* A failed build is good enough when the first two artifacts are there, of
\* this build or of an earlier one.
BuildContracts ==
  /\ run.script = "deploy" /\ run.at = "building"
  /\ \E built \in SUBSET Contracts :
       /\ wasm' = wasm \cup built
       /\ run' = IF built = Contracts \/ Checked \subseteq wasm'
                 THEN [run EXCEPT !.at = IF run.skipDeploy THEN "recovering"
                                         ELSE "submitting"]
                 ELSE Idle
  /\ UNCHANGED <<chain, keyFiles, hasEnv, envs, verified, runs>>

\* --skip-deploy, which takes no notice of --only.
RecoverHashes ==
  LET found == {c \in Contracts : Recoverable(localEnv, c) # {}}
  IN /\ run.at = "recovering" /\ found # {}
     /\ run' = [run EXCEPT !.at = "recording",
                  !.results = [c \in found |-> localEnv[Min(Recoverable(localEnv, c))].value]]
     /\ UNCHANGED <<chain, disk, envs, verified, runs>>

Waits(script) == run.script = script /\ run.at = "waiting"
StatusNow     == deploys[run.deploy].status

\* Mutant: the wait takes any executed deploy for an installed contract.
FoundAnyway ==
  /\ Waits("deploy") /\ StatusNow # "pending"
  /\ \E prefixed \in BOOLEAN : Resolved(Keep("contract", prefixed))
  /\ UNCHANGED <<chain, disk, envs, verified, runs>>

\* An effect of the deploy names the contract.
PollFinds ==
  /\ Waits("deploy") /\ StatusNow = "installed"
  /\ \E prefixed \in BOOLEAN : Resolved(Keep("contract", prefixed))
  /\ UNCHANGED <<chain, disk, envs, verified, runs>>

\* The deploy failed, no effect names a contract, or 60 polls found nothing:
\* the hash of the deploy is recorded, with or without hash-.
PollFallsBack ==
  /\ Waits("deploy")
  /\ \E prefixed \in BOOLEAN : Resolved(Keep("deploy", prefixed))
  /\ UNCHANGED <<chain, disk, envs, verified, runs>>

RecordHashes ==
  /\ run.script = "deploy"
  /\ run.at = "recording" \/ Finished
  /\ localEnv' \in Overwritten(StripBlock(localEnv) \o Block(run.results))
  /\ run' = Idle
  /\ UNCHANGED <<chain, disk, agentEnv, outerEnv, verified, runs>>

-----------------------------------------------------------------------------
(***************************************************************************)
(* setup.ts.                                                               *)
(***************************************************************************)
StartSetup ==
  /\ Start("setup", "building", FALSE, SetupOrder)
  /\ UNCHANGED <<chain, disk, envs>>

\* casper-client writes a key of another name, with which signAndSubmitDeploy
\* does not find one; where it fails, for its file is there, the SDK's key does.
FindOrGenerateKey ==
  /\ run.script = "setup" /\ run.at = "building"
  /\ \/ /\ "agent.pem" \in keyFiles
        /\ UNCHANGED keyFiles
     \/ /\ keyFiles = {}
        /\ keyFiles' = {"secret_key.pem"}
     \/ /\ "agent.pem" \notin keyFiles
        /\ keyFiles' = keyFiles \cup {"agent.pem"}
  /\ run' = IF "agent.pem" \in keyFiles' THEN [run EXCEPT !.at = "submitting"] ELSE Idle
  /\ UNCHANGED <<chain, wasm, hasEnv, envs, verified, runs>>

\* It waits until the deploy is executed, well or not, and keeps its hash.
SetupWaited ==
  /\ Waits("setup") /\ StatusNow # "pending"
  /\ Resolved(Keep("deploy", FALSE))
  /\ UNCHANGED <<chain, disk, envs, verified, runs>>

UpdateEnv ==
  LET AddResult(env, c) == ReplaceOrAppend(env, c, run.results[c])
      hashed == AddResult(AddResult(agentEnv, SetupOrder[1]), SetupOrder[2])
  IN /\ run.script = "setup" /\ Finished
     /\ agentEnv' \in Overwritten(ReplaceOrAppend(hashed, "AGENT_SECRET_KEY_PATH", Text))
     /\ hasEnv' = TRUE
     /\ run' = Idle
     /\ UNCHANGED <<chain, wasm, keyFiles, localEnv, outerEnv, verified, runs>>

-----------------------------------------------------------------------------
(***************************************************************************)
(* deploy-cep18.ts, with --skip-test-contract and --only-test-contract.    *)
(***************************************************************************)
StartCep18(todo) ==
  /\ "agent.pem" \in keyFiles
  /\ Start("cep18", "submitting", FALSE, todo)
  /\ UNCHANGED <<chain, disk, envs>>

\* After the wait the node is asked for the deploy's error.  No answer counts
\* as no error; an answer without an error_message counts as one.  A token
\* that seems reverted ends the script, the helper is done without.
DeployQueried ==
  /\ Waits("cep18") /\ StatusNow # "pending"
  /\ \E answer \in {"null", "message", "absent", "none"} :
       /\ (answer = "null") => StatusNow = "installed"
       /\ (answer = "message") => StatusNow = "reverted"
       /\ IF answer \in {"null", "none"} \/ Head(run.todo) = "cep18_test"
          THEN Resolved(run.results) ELSE run' = Idle
  /\ UNCHANGED <<chain, disk, envs, verified, runs>>

\* The named keys, which an earlier run may have set; none when nobody answers.
QueryNamedKeys ==
  LET set == {t \in TokenNames : named[t] # 0}
  IN /\ run.script = "cep18" /\ Finished
     /\ \E seen \in {{}, set} :
          run' = [run EXCEPT !.at = "recording",
                    !.results = [t \in seen |-> Hash("contract", named[t], TRUE)]]
     /\ UNCHANGED <<chain, disk, envs, verified, runs>>

\* X402_CEP18_PACKAGE_HASH is replaced where there is such a line; the helper's
\* line is added where there is none.  A file that is not there is not made.
WriteEnv ==
  LET has == DOMAIN run.results
      tokened == IF "cep18" \in has /\ Places(agentEnv, "cep18") # {}
                 THEN ReplaceOrAppend(agentEnv, "cep18", run.results["cep18"])
                 ELSE agentEnv
  IN /\ run.script = "cep18" /\ run.at = "recording"
     /\ IF ~hasEnv \/ has = {} THEN UNCHANGED agentEnv
        ELSE agentEnv' \in Overwritten(
               IF "cep18_test" \notin has THEN tokened
               ELSE ReplaceOrAppend(tokened, "cep18_test", run.results["cep18_test"]))
     /\ run' = Idle
     /\ UNCHANGED <<chain, disk, localEnv, outerEnv, verified, runs>>

-----------------------------------------------------------------------------
(***************************************************************************)
(* record-deployment.ts: what the operator types, or has in a JSON file,   *)
(* for one contract or both, is appended with hash-; nothing looks at it.  *)
(***************************************************************************)
RecordByHand(typed) ==
  /\ run = Idle /\ runs < MaxRuns /\ runs' = runs + 1 /\ verified' = {}
  /\ outerEnv' = outerEnv \o <<HandLine>> \o [i \in 1..Len(typed) |-> Line(typed[i], Typed)]
  /\ UNCHANGED <<chain, run, disk, localEnv, agentEnv>>

-----------------------------------------------------------------------------
(***************************************************************************)
(* verify-setup.ts, which looks at agent/.env only.                        *)
(***************************************************************************)
IsSet(env, key) == Configured(env, key) # Blank

checkEnv(strict) ==
  {IF IsSet(agentEnv, c) THEN "ok" ELSE "warn" : c \in Checked} \cup
  {IF "agent.pem" \in keyFiles THEN "ok" ELSE IF strict THEN "fail" ELSE "warn"}

\* The bytes of an artifact are taken to be those of a module.
checkWasmArtifacts(strict) ==
  {IF c \in wasm THEN "ok" ELSE IF strict THEN "fail" ELSE "warn" : c \in Checked}

\* External: what the machine and the services answer to the probes.
checkNode               == {"ok", "fail"}
checkNpmPackages        == {"ok", "fail"}
checkCasparRpc          == {"ok", "warn", "fail"}
checkCsprCloudMcp       == {"ok", "fail"}
checkCsprCloudStreaming == {"ok", "fail"}
checkX402Facilitator    == {"ok", "warn", "fail"}

Passes(strict, statuses) == "fail" \notin statuses /\ (strict => "warn" \notin statuses)

\* No check fails and none warns, neither of the files nor of the services.
VerifyStrict ==
  /\ run = Idle
  /\ Passes(TRUE, checkEnv(TRUE) \cup checkWasmArtifacts(TRUE))
  /\ \E node \in checkNode, npm \in checkNpmPackages, rpc \in checkCasparRpc,
        mcp \in checkCsprCloudMcp, streaming \in checkCsprCloudStreaming,
        facilitator \in checkX402Facilitator :
       Passes(TRUE, {node, npm, rpc, mcp, streaming, facilitator})
  /\ verified' = {Configured(agentEnv, c) : c \in Checked}
  /\ UNCHANGED <<chain, run, disk, envs, runs>>

-----------------------------------------------------------------------------
DeployNext ==
  \/ \E todo \in {Order} \cup {<<c>> : c \in Contracts}, skipBuild, skipDeploy \in BOOLEAN :
       StartDeploy(todo, skipBuild, skipDeploy)
  \/ BuildContracts \/ RecoverHashes \/ PollFinds \/ PollFallsBack \/ RecordHashes
  \/ StartSetup \/ FindOrGenerateKey \/ SetupWaited \/ UpdateEnv
  \/ \E todo \in {<<"cep18", "cep18_test">>, <<"cep18">>, <<"cep18_test">>, <<>>} :
       StartCep18(todo)
  \/ DeployQueried \/ QueryNamedKeys \/ WriteEnv
  \/ Submit \/ Stop
  \/ \E d \in 1..Len(deploys) : Execute(d)
  \/ \E typed \in {<<SetupOrder[1]>>, <<SetupOrder[2]>>, SetupOrder} : RecordByHand(typed)
  \/ VerifyStrict

DeploySpec == DeployInit /\ [][DeployNext]_deployVars

-----------------------------------------------------------------------------
(***************************************************************************)
(* Properties.                                                             *)
(***************************************************************************)
DeployTypeOK ==
  /\ deploys \in Seq([of : Names, status : {"pending", "installed", "reverted"}])
  /\ named \in [TokenNames -> 0..MaxDeploys]
  /\ run \in Runs
  /\ wasm \subseteq Names /\ keyFiles \subseteq {"agent.pem", "secret_key.pem"}
  /\ \A env \in {localEnv, agentEnv, outerEnv} : env \in Seq(Lines)
  /\ hasEnv \in BOOLEAN
  /\ verified \in SUBSET Values /\ runs \in 0..MaxRuns

\* Whatever the scripts wrote, and whichever of them died on the way: a line of
\* a contract names a deploy of that contract which the node accepted, and one
\* that claims a contract's hash names an installed one.  What a strict
\* verification passed on were such hashes, and neither blanks nor lines gone with
\* a write that was cut off.  (With the types.)
RecordedIsReal ==
  /\ DeployTypeOK
  /\ \A env \in {localEnv, agentEnv} : \A i \in 1..Len(env) :
       LET v == env[i].value
       IN v.is \in {"contract", "deploy"} =>
            /\ v.of \in 1..Len(deploys) /\ deploys[v.of].of = env[i].key
            /\ v.is = "contract" => deploys[v.of].status = "installed"
  /\ \A v \in verified : v.is \in {"contract", "deploy"} /\ v.of \in 1..Len(deploys)

\* agent/.env moves forward.  Whichever script changes it leaves one line per
\* contract, keeps set what is set, and of the emitter and the vault never goes
\* back to an earlier deploy, however many runs were stopped before; or else the
\* write was cut off, and the whole file is gone.
EnvMovesForward ==
  [][ \/ agentEnv' = <<>>
      \/ \A c \in Names :
           /\ Cardinality(Places(agentEnv', c)) <= 1
           /\ IsSet(agentEnv, c) => IsSet(agentEnv', c)
           /\ c \in Checked =>
                Configured(agentEnv', c).of >= Configured(agentEnv, c).of ]_agentEnv

\* deploy.ts:255 and :271-272: the block of the run before is overwritten, so that
\* the file does not grow.  It is not where the file begins with it, as the file
\* does that deploy.ts made itself; --skip-deploy then recovers the oldest hashes.
OneBlock == Cardinality(Places(localEnv, Header.key)) <= 1

=============================================================================
