------------------------- MODULE Preparation_proofs -------------------------
(***************************************************************************)
(* What comes before a decision: the contracts the scripts deploy and the  *)
(* hashes they write, the pair the selector takes, and the signal that is  *)
(* paid for; for any contracts, tokens, runs and payments.                 *)
(*                                                                         *)
(* Part 1 proves DeployInv of Deployment: lemmas about the lines of an     *)
(* environment file, one per action, then the two theorems.  Part 2        *)
(* proves PairInv of PairSelector: the fold of the comparison is the first *)
(* of the order it sorts by.  Part 3 proves of X402Payment three           *)
(* invariants, each about one of the ways in which a payment could go      *)
(* wrong: EnteredFirst, HashesAreAsked and AskedOnce.                      *)
(***************************************************************************)
EXTENDS Deployment, PairSelector, X402Payment, DataLemmas

-----------------------------------------------------------------------------
(***************************************************************************)
(* Part 1: the files of the deployment scripts.                            *)
(***************************************************************************)

\* No key has two lines.
Unique(env) == \A i, j \in 1 .. Len(env) : env[i].key = env[j].key => i = j

LEMMA ConfiguredIs ==
  ASSUME NEW env \in Seq(Lines), Unique(env), NEW i \in 1 .. Len(env)
  PROVE  Places(env, env[i].key) = {i} /\ Configured(env, env[i].key) = env[i].value
<1>. DEFINE S == Places(env, env[i].key)
<1>1. S = {i}
  BY DEF Places, Unique
<1>2. Max(S) = i
  <2>1. S \subseteq Nat /\ i \in S /\ \A x \in S : x <= i
    BY <1>1
  <2>. HIDE DEF S
  <2> QED
    BY <2>1, MaxIs
<1> QED
  BY <1>1, <1>2 DEF Configured

LEMMA NotConfigured ==
  ASSUME NEW env, NEW key, \A i \in 1 .. Len(env) : env[i].key # key
  PROVE  Places(env, key) = {} /\ Configured(env, key) = Blank
  BY DEF Configured, Places

LEMMA MinOfOne == ASSUME NEW i \in Nat PROVE Min({i}) = i
  BY DEF Min

\* What replacing or appending the line of a key does to a file.
LEMMA ReplaceIs ==
  ASSUME NEW env \in Seq(Lines), Unique(env), NEW key \in Keys, NEW value \in Values,
         NEW new, new = ReplaceOrAppend(env, key, value)
  PROVE  /\ new \in Seq(Lines) /\ Unique(new)
         /\ \E i \in 1 .. Len(new) : new[i] = Line(key, value)
         /\ \A i \in 1 .. Len(new) : new[i] = Line(key, value) \/ \E j \in 1 .. Len(env) : new[i] = env[j]
         /\ \A j \in 1 .. Len(env) : env[j].key # key => \E i \in 1 .. Len(new) : new[i] = env[j]
         /\ \A i \in 1 .. Len(new) : new[i].key = key => new[i] = Line(key, value)
<1>. DEFINE l == Line(key, value)
            n == Len(env)
<1>1. l \in Lines /\ l.key = key /\ l.value = value
  BY DEF Line, Lines, Values
<1>2. n \in Nat /\ DOMAIN env = 1 .. n /\ \A i \in 1 .. n : env[i] \in Lines
  BY LenProperties, ElementOfSeq
<1>3. CASE Places(env, key) = {}
  <2>. DEFINE m == Append(env, l)
  <2>1. new = m
    BY <1>3 DEF ReplaceOrAppend
  <2>2. m \in Seq(Lines) /\ Len(m) = n + 1 /\ m[n + 1] = l /\ \A i \in 1 .. n : m[i] = env[i]
    BY <1>1, AppendProperties
  <2>3. \A i \in 1 .. n : env[i].key # key
    BY <1>3 DEF Places
  <2>. HIDE DEF l, n, m
  <2>4. \A i \in 1 .. n + 1 : (i \in 1 .. n /\ i # n + 1) \/ i = n + 1
    BY <1>2
  <2>5. n + 1 \in 1 .. n + 1 /\ \A i \in 1 .. n : i \in 1 .. n + 1
    BY <1>2
  <2>6. \A i, j \in 1 .. n : env[i].key = env[j].key => i = j
    BY DEF Unique, n
  <2>7. \A i, j \in 1 .. n + 1 : m[i].key = m[j].key => i = j
    BY <1>1, <2>2, <2>3, <2>4, <2>6
  <2>8. \A i \in 1 .. n + 1 : m[i] = l \/ \E j \in 1 .. n : m[i] = env[j]
    BY <2>2, <2>4
  <2>9. \A j \in 1 .. n : \E i \in 1 .. n + 1 : m[i] = env[j]
    BY <2>2, <2>5
  <2>10. \A i \in 1 .. n + 1 : m[i].key = key => m[i] = l
    BY <2>2, <2>3, <2>4
  <2>11. Unique(m)
    BY <2>2, <2>7 DEF Unique
  <2>12. \E i \in 1 .. Len(m) : m[i] = l
    BY <2>2, <2>5
  <2>13. /\ \A i \in 1 .. Len(m) : m[i] = l \/ \E j \in 1 .. n : m[i] = env[j]
         /\ \A j \in 1 .. n : \E i \in 1 .. Len(m) : m[i] = env[j]
         /\ \A i \in 1 .. Len(m) : m[i].key = key => m[i] = l
    BY <2>2, <2>8, <2>9, <2>10
  <2>14. m \in Seq(Lines)
    BY <2>2
  <2> QED
    BY <2>1, <2>11, <2>12, <2>13, <2>14 DEF l, n
<1>4. CASE Places(env, key) # {}
  <2>1. PICK p \in 1 .. n : env[p].key = key
    BY <1>4 DEF Places
  <2>2. Min(Places(env, key)) = p
    <3>1. Places(env, key) = {p} /\ p \in Nat
      <4>1. Places(env, env[p].key) = {p}
        BY ConfiguredIs
      <4> QED
        BY <2>1, <4>1
    <3> QED
      BY <3>1, MinOfOne
  <2>. DEFINE m == [env EXCEPT ![p] = l]
  <2>3. new = m
    <3>1. new = [env EXCEPT ![p].value = value]
      BY <1>4, <2>2 DEF ReplaceOrAppend
    <3>2. [env[p] EXCEPT !.value = value] = l
      <4>1. env[p] \in [key : Keys, value : Values]
        BY <1>2, <2>1 DEF Lines, Values
      <4> QED
        BY <2>1, <4>1 DEF Line
    <3> QED
      BY <3>1, <3>2
  <2>4. /\ m \in Seq(Lines) /\ Len(m) = n /\ m[p] = l
        /\ \A i \in 1 .. n : i # p => m[i] = env[i]
    BY <1>1, <1>2, <2>1
  <2>. HIDE DEF l, n, m
  <2>5. \A i \in 1 .. n : i # p => env[i].key # key
    BY <2>1 DEF Unique, n
  <2>6. \A i, j \in 1 .. n : m[i].key = m[j].key => i = j
    <3>1. \A i, j \in 1 .. n : env[i].key = env[j].key => i = j
      BY DEF Unique, n
    <3> QED
      BY <1>1, <2>1, <2>4, <2>5, <3>1
  <2> QED
    BY <1>1, <2>1, <2>3, <2>4, <2>5, <2>6 DEF Unique, l, n
<1> QED
  BY <1>3, <1>4

\* In a file without doubles it sets that key, and no other.
LEMMA ReplaceConfigures ==
  ASSUME NEW env \in Seq(Lines), Unique(env), NEW key \in Keys, NEW value \in Values,
         NEW new, new = ReplaceOrAppend(env, key, value)
  PROVE  /\ new \in Seq(Lines) /\ Unique(new)
         /\ Configured(new, key) = value
         /\ \A k : k # key => Configured(new, k) = Configured(env, k)
         /\ \A i \in 1 .. Len(new) : new[i] = Line(key, value) \/ \E j \in 1 .. Len(env) : new[i] = env[j]
<1>1. new \in Seq(Lines) /\ Unique(new)
  BY ReplaceIs
<1>2. Configured(new, key) = value
  <2>1. PICK i \in 1 .. Len(new) : new[i] = Line(key, value)
    BY ReplaceIs
  <2>2. new[i].key = key /\ new[i].value = value
    BY <2>1 DEF Line
  <2> QED
    BY <1>1, <2>2, ConfiguredIs
<1>3. ASSUME NEW k, k # key
      PROVE  Configured(new, k) = Configured(env, k)
  <2>1. CASE \E j \in 1 .. Len(env) : env[j].key = k
    <3>1. PICK j \in 1 .. Len(env) : env[j].key = k
      BY <2>1
    <3>2. PICK i \in 1 .. Len(new) : new[i] = env[j]
      <4>1. \A m \in 1 .. Len(env) : env[m].key # key => \E i \in 1 .. Len(new) : new[i] = env[m]
        BY ReplaceIs
      <4> QED
        BY <1>3, <3>1, <4>1
    <3> QED
      BY <1>1, <3>1, <3>2, ConfiguredIs
  <2>2. CASE \A j \in 1 .. Len(env) : env[j].key # k
    <3>1. Line(key, value).key # k
      BY <1>3 DEF Line
    <3>2. ASSUME NEW i \in 1 .. Len(new)
          PROVE  new[i].key # k
      <4>1. new[i] = Line(key, value) \/ \E j \in 1 .. Len(env) : new[i] = env[j]
        BY ReplaceIs
      <4> QED
        BY <2>2, <3>1, <4>1
    <3> QED
      BY <2>2, <3>2, NotConfigured
  <2> QED
    BY <2>1, <2>2
<1> QED
  BY <1>1, <1>2, <1>3, ReplaceIs

-----------------------------------------------------------------------------
\* Every line is the header or has the result of one of the first k contracts.
IsBlock(lines, results, k) ==
  /\ lines \in Seq(Lines)
  /\ \A i \in 1 .. Len(lines) : \/ lines[i] = Header
                              \/ \E j \in 1 .. k : /\ Order[j] \in DOMAIN results
                                                 /\ lines[i] = Line(Order[j], results[Order[j]])

Listed(lines, results, c) ==
  IF c \in DOMAIN results THEN Append(lines, Line(c, results[c])) ELSE lines

LEMMA ContractsAre ==
  /\ \A j \in 1 .. Len(Order) : Order[j] \in Contracts
  /\ \A i, j \in 1 .. Len(Order) : Order[i] = Order[j] => i = j
  /\ Contracts \subseteq {"revenue_emitter", "agent_vault", "stakeholder_deposit"}
  /\ Contracts \subseteq Names /\ Names \subseteq Keys
  /\ Len(Order) \in Nat /\ DOMAIN Order = 1 .. Len(Order)
<1>1. /\ Order \in Seq({"revenue_emitter", "agent_vault", "stakeholder_deposit"})
      /\ IsInjective(Order)
  BY OrderAssumption
<1>2. Len(Order) \in Nat /\ DOMAIN Order = 1 .. Len(Order)
  BY <1>1, LenProperties
<1>3. \A j \in 1 .. Len(Order) : Order[j] \in {"revenue_emitter", "agent_vault", "stakeholder_deposit"}
  BY <1>1, ElementOfSeq
<1> QED
  BY <1>1, <1>2, <1>3 DEF Contracts, Names, Keys, IsInjective

LEMMA ListedIsBlock ==
  ASSUME NEW results, \A c \in DOMAIN results : results[c] \in Hashes,
         NEW k \in 1 .. Len(Order), NEW lines, IsBlock(lines, results, k - 1)
  PROVE  IsBlock(Listed(lines, results, Order[k]), results, k)
<1>. DEFINE c == Order[k]
            l == Line(c, results[c])
            n == Len(lines)
            new == Append(lines, l)
<1>0. k \in Nat /\ k \in 1 .. k /\ \A j \in 1 .. k - 1 : j \in 1 .. k
  BY ContractsAre
<1>1. CASE c \notin DOMAIN results
  <2>1. Listed(lines, results, c) = lines
    BY <1>1 DEF Listed
  <2> QED
    BY <1>0, <1>1, <2>1 DEF IsBlock
<1>2. CASE c \in DOMAIN results
  <2>1. Listed(lines, results, c) = new
    BY <1>2 DEF Listed
  <2>2. l \in Lines
    BY <1>2, ContractsAre DEF Line, Lines, Values
  <2>3. lines \in Seq(Lines) /\ n \in Nat
    BY LenProperties DEF IsBlock
  <2>4. new \in Seq(Lines) /\ Len(new) = n + 1 /\ new[n + 1] = l /\ \A i \in 1 .. n : new[i] = lines[i]
    BY <2>2, <2>3, AppendProperties
  <2>. HIDE DEF l, n, new, c
  <2>5. \A i \in 1 .. n + 1 : i \in 1 .. n \/ i = n + 1
    BY <2>3
  <2>6. ASSUME NEW i \in 1 .. n + 1
        PROVE  \/ new[i] = Header
               \/ \E j \in 1 .. k : /\ Order[j] \in DOMAIN results
                                  /\ new[i] = Line(Order[j], results[Order[j]])
    BY <1>0, <1>2, <2>4, <2>5 DEF l, c, n, IsBlock
  <2>7. IsBlock(new, results, k)
    BY <2>4, <2>6 DEF IsBlock
  <2> QED
    BY <2>1, <2>7 DEF c
<1> QED
  BY <1>1, <1>2

\* What g has for a set of places if it carries out the fold of Block.
Writes(g, results) ==
  g = [s \in SUBSET DOMAIN Order |->
         IF s = {} THEN <<Header>> ELSE Listed(g[s \ {Max(s)}], results, Order[Max(s)])]

LEMMA BlockWrites ==
  ASSUME NEW results, \E g : Writes(g, results)
  PROVE  \E g : Writes(g, results) /\ Block(results) = g[DOMAIN Order]
  BY DEF Block, FoldLeft, MapThenFoldSet, Writes, Listed

LEMMA WriteExists ==
  ASSUME NEW results, \A c \in DOMAIN results : results[c] \in Hashes
  PROVE  \E g : Writes(g, results)
<1>. DEFINE B == Seq(Lines)
            step == [p \in Contracts \X B |-> Listed(p[2], results, p[1])]
            n == Len(Order)
<1>1. step \in [Contracts \X B -> B]
  <2>1. ASSUME NEW c \in Contracts, NEW lines \in B
        PROVE  Listed(lines, results, c) \in B
    <3>1. c \in DOMAIN results => Line(c, results[c]) \in Lines
      BY ContractsAre DEF Line, Lines, Values
    <3> QED
      BY <3>1, AppendProperties DEF Listed
  <2> QED
    BY <2>1
<1>2. /\ n \in Nat /\ DOMAIN Order = 1 .. n /\ Order \in [1 .. n -> Contracts]
      /\ <<Header>> \in B
  <2>1. Order \in [1 .. n -> Contracts]
    BY OrderAssumption, ContractsAre
  <2>2. Header \in Lines
    BY DEF Header, Line, Lines, Keys, Values
  <2> QED
    BY <2>1, <2>2, ContractsAre
<1>3. PICK g : g \in [SUBSET (1 .. n) -> B] /\ Folds(g, step, <<Header>>, Order, SUBSET (1 .. n))
  <2>. HIDE DEF step, B, n
  <2> QED
    BY <1>1, <1>2, FoldExists
<1>4. \A s \in SUBSET (1 .. n) : s # {} => Max(s) \in 1 .. n /\ s \ {Max(s)} \in SUBSET (1 .. n)
  BY <1>2, MaxWithin
<1>5. \A c \in Contracts, lines \in B : step[<<c, lines>>] = Listed(lines, results, c)
  OBVIOUS
<1>6. \A s \in SUBSET (1 .. n) : s # {} =>
        step[<<Order[Max(s)], g[s \ {Max(s)}]>>] = Listed(g[s \ {Max(s)}], results, Order[Max(s)])
  <2>. HIDE DEF step, B, n
  <2> QED
    BY <1>2, <1>3, <1>4, <1>5
<1>7. Writes(g, results)
  <2>. HIDE DEF step, B, n
  <2> QED
    BY <1>2, <1>3, <1>6 DEF Writes, Folds
<1> QED
  BY <1>7

\* The block has a header and lines of the results.
LEMMA BlockIs ==
  ASSUME NEW results, \A c \in DOMAIN results : results[c] \in Hashes
  PROVE  IsBlock(Block(results), results, Len(Order))
<1>1. PICK g : Writes(g, results) /\ Block(results) = g[DOMAIN Order]
  BY WriteExists, BlockWrites
<1>. DEFINE n == Len(Order)
            T == {k \in Nat : k <= n => IsBlock(g[1 .. k], results, k)}
<1>2. n \in Nat /\ DOMAIN Order = 1 .. n
  BY ContractsAre
<1>3. 0 \in T
  <2>1. 1 .. 0 = {} /\ {} \in SUBSET DOMAIN Order
    OBVIOUS
  <2>2. g[{}] = <<Header>>
    BY <1>1, <2>1 DEF Writes
  <2>3. Header \in Lines
    BY DEF Header, Line, Lines, Keys, Values
  <2>. DEFINE b == <<Header>>
  <2>4. b \in Seq(Lines) /\ Len(b) = 1 /\ b[1] = Header
    BY <2>3
  <2>. HIDE DEF b
  <2>5. IsBlock(b, results, 0)
    BY <2>4 DEF IsBlock
  <2> QED
    BY <2>1, <2>2, <2>5 DEF b
<1>4. ASSUME NEW k \in T
      PROVE  k + 1 \in T
  <2>. SUFFICES ASSUME k + 1 <= n
                PROVE  IsBlock(g[1 .. k + 1], results, k + 1)
    OBVIOUS
  <2>1. k \in Nat /\ IsBlock(g[1 .. k], results, k)
    BY <1>2
  <2>. DEFINE m == k + 1
  <2>2. m \in 1 .. n /\ m - 1 = k
    BY <1>2, <2>1
  <2>. HIDE DEF m, n
  <2>3. /\ 1 .. m \in SUBSET DOMAIN Order /\ 1 .. m # {}
        /\ Max(1 .. m) = m /\ (1 .. m) \ {m} = 1 .. k
    BY <1>2, <2>2, Intervals
  <2>4. g[1 .. m] = Listed(g[1 .. k], results, Order[m])
    BY <1>1, <2>3 DEF Writes
  <2>5. IsBlock(g[1 .. m], results, m)
    BY <2>1, <2>2, <2>4, ListedIsBlock DEF n
  <2> QED
    BY <2>5 DEF m
<1>5. T = Nat
  <2>1. T \subseteq Nat
    OBVIOUS
  <2>. HIDE DEF T
  <2> QED
    BY <1>3, <1>4, <2>1, SetInduction
<1>6. n \in T
  BY <1>2, <1>5
<1> QED
  BY <1>1, <1>2, <1>6

-----------------------------------------------------------------------------
\* The hash of a deploy of key, of an executed one if it claims a contract.
Real(key, v) ==
  /\ v \in Hashes /\ v.of \in 1 .. Len(deploys) /\ deploys[v.of].of = key
  /\ v.is = "contract" => deploys[v.of].status = "installed"

Good(line) ==
  /\ line.value.is \in {"contract", "deploy"} => Real(line.key, line.value)
  /\ line.key \in Names => line.value.is # "text"

FilesGood ==
  /\ Len(deploys) <= MaxDeploys
  /\ \A i \in 1 .. Len(localEnv) : Good(localEnv[i])
  /\ \A i \in 1 .. Len(agentEnv) : Good(agentEnv[i])
  /\ \A t \in TokenNames : named[t] # 0 => Real(t, Hash("contract", named[t], TRUE))
  /\ Unique(agentEnv)

\* What setup.ts has deployed is at least as new as what agent/.env has.
SetupInOrder == run.script = "setup" =>
  /\ run.at \in {"building", "submitting", "waiting"}
  /\ \/ run.todo = SetupOrder /\ DOMAIN run.results = {}
     \/ run.todo = <<"agent_vault">> /\ DOMAIN run.results = {"revenue_emitter"}
     \/ run.todo = <<>> /\ DOMAIN run.results = Checked
  /\ \A c \in DOMAIN run.results : run.results[c].of >= Configured(agentEnv, c).of
  /\ run.at = "waiting" => run.deploy >= Configured(agentEnv, Head(run.todo)).of

ResultsReal == \A c \in DOMAIN run.results : Real(c, run.results[c])

RunGood ==
  /\ ResultsReal
  /\ run.at = "waiting" =>
       run.todo # <<>> /\ Real(Head(run.todo), Hash("deploy", run.deploy, TRUE))
  /\ SetupInOrder

DeployInv == DeployTypeOK /\ FilesGood /\ RunGood

-----------------------------------------------------------------------------
Scripts == {"none", "deploy", "setup", "cep18"}
Stages  == {"idle", "building", "recovering", "submitting", "waiting", "recording"}

\* The type of what a run holds, without the quantifier over domains.
LEMMA RunIs ==
  ASSUME NEW r \in Runs
  PROVE  /\ r.script \in Scripts /\ r.at \in Stages /\ r.skipDeploy \in BOOLEAN
         /\ r.todo \in Seq(Names) /\ r.deploy \in 0 .. MaxDeploys
         /\ DOMAIN r.results \subseteq Names
         /\ \A c \in DOMAIN r.results : r.results[c] \in Hashes
<1>1. r.results \in UNION {[S -> Hashes] : S \in SUBSET Names}
  BY DEF Runs
<1>2. PICK S \in SUBSET Names : r.results \in [S -> Hashes]
  BY <1>1
<1> QED
  BY <1>2 DEF Runs, Scripts, Stages

LEMMA RunType ==
  ASSUME NEW script \in Scripts, NEW at \in Stages, NEW skipDeploy \in BOOLEAN,
         NEW todo \in Seq(Names), NEW deploy \in 0 .. MaxDeploys,
         NEW S \in SUBSET Names, NEW results \in [S -> Hashes]
  PROVE  [script |-> script, at |-> at, skipDeploy |-> skipDeploy, todo |-> todo,
          deploy |-> deploy, results |-> results] \in Runs
<1>1. results \in UNION {[U -> Hashes] : U \in SUBSET Names}
  OBVIOUS
<1> QED
  BY <1>1 DEF Runs, Scripts, Stages

LEMMA IdleIs ==
  /\ Idle \in Runs /\ DOMAIN Idle.results = {} /\ Idle.at = "idle" /\ Idle.script = "none"
  /\ Idle.skipDeploy = FALSE /\ <<>> \in [{} -> Hashes] /\ Idle.deploy = 0
<1>1. <<>> \in Seq(Hashes) /\ Len(<<>>) = 0 /\ <<>> \in Seq(Names)
  BY EmptySeq
<1>2. <<>> \in [{} -> Hashes]
  <2>1. <<>> \in [1 .. Len(<<>>) -> Hashes]
    BY <1>1, LenProperties
  <2>2. 1 .. Len(<<>>) = {}
    BY <1>1
  <2> QED
    BY <2>1, <2>2
<1>3. Idle \in Runs
  <2>1. "none" \in Scripts /\ "idle" \in Stages /\ FALSE \in BOOLEAN /\ 0 \in 0 .. MaxDeploys
        /\ {} \in SUBSET Names
    BY BoundsAssumption DEF Scripts, Stages
  <2> QED
    BY <1>1, <1>2, <2>1, RunType DEF Idle
<1> QED
  BY <1>2, <1>3, NothingInEmpty DEF Idle

\* A script that ends holds nothing.
LEMMA IdleRun ==
  ASSUME run' = Idle
  PROVE  run' \in Runs /\ RunGood'
<1>1. /\ run' \in Runs /\ DOMAIN run'.results = {} /\ run'.at = "idle"
      /\ run'.script = "none" /\ run'.skipDeploy = FALSE
  BY IdleIs
<1> QED
  BY <1>1 DEF RunGood, ResultsReal, SetupInOrder

\* A step that leaves chain and files alone.
LEMMA QuietStep ==
  ASSUME DeployInv, UNCHANGED <<chain, localEnv, agentEnv>>, run' \in Runs, RunGood',
         wasm' \subseteq Names, keyFiles' \subseteq {"agent.pem", "secret_key.pem"},
         hasEnv' \in BOOLEAN, outerEnv' \in Seq(Lines),
         verified' \in SUBSET Values, runs' \in 0 .. MaxRuns
  PROVE  DeployInv'
<1>1. UNCHANGED <<deploys, named, localEnv, agentEnv>>
  BY DEF chain
<1>2. DeployTypeOK'
  BY <1>1 DEF DeployInv, DeployTypeOK
<1>3. FilesGood'
  <2>1. /\ Len(deploys) <= MaxDeploys /\ Unique(agentEnv)
        /\ \A i \in 1 .. Len(localEnv) : Good(localEnv[i])
        /\ \A i \in 1 .. Len(agentEnv) : Good(agentEnv[i])
        /\ \A t \in TokenNames : named[t] # 0 => Real(t, Hash("contract", named[t], TRUE))
    BY DEF DeployInv, FilesGood
  <2>2. (\A i \in 1 .. Len(localEnv) : Good(localEnv[i]))' /\ (\A i \in 1 .. Len(agentEnv) : Good(agentEnv[i]))'
    BY <1>1, <2>1 DEF Good, Real
  <2>3. (\A t \in TokenNames : named[t] # 0 => Real(t, Hash("contract", named[t], TRUE)))'
    BY <1>1, <2>1 DEF Real
  <2> QED
    BY <1>1, <2>1, <2>2, <2>3 DEF FilesGood
<1> QED
  BY <1>2, <1>3 DEF DeployInv

LEMMA StopStep ==
  ASSUME DeployInv, Stop
  PROVE  DeployInv'
<1>1. run' = Idle /\ UNCHANGED <<chain, disk, envs, verified, runs>>
  BY DEF Stop
<1> QED
  BY <1>1, IdleRun, QuietStep DEF disk, envs, DeployInv, DeployTypeOK

\* A script begins with its list and without results.
LEMMA StartEffect ==
  ASSUME DeployInv, NEW script \in Scripts \ {"none"}, NEW at \in Stages, NEW skipDeploy \in BOOLEAN,
         NEW todo \in Seq(Names), Start(script, at, skipDeploy, todo)
  PROVE  /\ run' \in Runs /\ runs' \in 0 .. MaxRuns /\ verified' \in SUBSET Values
         /\ run'.script = script /\ run'.at = at /\ run'.skipDeploy = skipDeploy
         /\ run'.todo = todo /\ DOMAIN run'.results = {}
<1>1. run' = [script |-> script, at |-> at, skipDeploy |-> skipDeploy, todo |-> todo,
              deploy |-> 0, results |-> <<>>]
  BY DEF Start, Idle
<1>2. run' \in Runs
  <2>1. script \in Scripts /\ 0 \in 0 .. MaxDeploys /\ {} \in SUBSET Names
    BY BoundsAssumption
  <2> QED
    BY <1>1, <2>1, IdleIs, RunType
<1>3. runs' \in 0 .. MaxRuns /\ verified' \in SUBSET Values
  BY BoundsAssumption DEF Start, DeployInv, DeployTypeOK
<1> QED
  BY <1>1, <1>2, <1>3, NothingInEmpty

LEMMA ContractLists ==
  /\ Order \in Seq(Names) /\ SetupOrder \in Seq(Names) /\ Checked \subseteq Names
  /\ \A c \in Contracts : <<c>> \in Seq(Names)
  /\ \A c, d \in TokenNames : <<c>> \in Seq(Names) /\ <<c, d>> \in Seq(Names)
  /\ <<>> \in Seq(Names)
<1>1. Order \in Seq(Names)
  <2>1. Order \in [1 .. Len(Order) -> Names]
    BY OrderAssumption, ContractsAre
  <2> QED
    BY <2>1, ContractsAre
<1>2. Checked \subseteq Names
  BY OrderAssumption, ContractsAre
<1>3. SetupOrder \in Seq(Names)
  BY <1>2 DEF SetupOrder, Checked
<1> QED
  BY <1>1, <1>2, <1>3, ContractsAre, EmptySeq DEF Names

LEMMA StartDeployStep ==
  ASSUME DeployInv, NEW todo \in {Order} \cup {<<c>> : c \in Contracts},
         NEW skipBuild \in BOOLEAN, NEW skipDeploy \in BOOLEAN,
         StartDeploy(todo, skipBuild, skipDeploy)
  PROVE  DeployInv'
<1>. DEFINE at == IF ~skipBuild THEN "building"
                  ELSE IF skipDeploy THEN "recovering" ELSE "submitting"
<1>1. Start("deploy", at, skipDeploy, todo) /\ UNCHANGED <<chain, disk, envs>>
  BY DEF StartDeploy
<1>2. /\ at \in Stages /\ "deploy" \in Scripts \ {"none"} /\ at \notin {"waiting", "recording"}
      /\ skipDeploy => at \in {"building", "recovering"}
  BY DEF Stages, Scripts
<1>3. todo \in Seq(Names)
  BY ContractLists
<1>4. /\ run' \in Runs /\ runs' \in 0 .. MaxRuns /\ verified' \in SUBSET Values
      /\ run'.script = "deploy" /\ run'.at = at /\ run'.skipDeploy = skipDeploy
      /\ run'.todo = todo /\ DOMAIN run'.results = {}
  <2>. HIDE DEF at
  <2> QED
    BY <1>1, <1>2, <1>3, StartEffect
<1>5. RunGood'
  <2>. HIDE DEF at
  <2> QED
    BY <1>2, <1>4 DEF RunGood, ResultsReal, SetupInOrder
<1> QED
  BY <1>1, <1>4, <1>5, QuietStep DEF disk, envs, DeployInv, DeployTypeOK

LEMMA StartSetupStep ==
  ASSUME DeployInv, StartSetup
  PROVE  DeployInv'
<1>1. Start("setup", "building", FALSE, SetupOrder) /\ UNCHANGED <<chain, disk, envs>>
  BY DEF StartSetup
<1>2. /\ run' \in Runs /\ runs' \in 0 .. MaxRuns /\ verified' \in SUBSET Values
      /\ run'.script = "setup" /\ run'.at = "building" /\ run'.skipDeploy = FALSE
      /\ run'.todo = SetupOrder /\ DOMAIN run'.results = {}
  BY <1>1, ContractLists, StartEffect DEF Scripts, Stages
<1>3. RunGood'
  BY <1>2 DEF RunGood, ResultsReal, SetupInOrder
<1> QED
  BY <1>1, <1>2, <1>3, QuietStep DEF disk, envs, DeployInv, DeployTypeOK

LEMMA StartCep18Step ==
  ASSUME DeployInv, StartCep18(<<"cep18", "cep18_test">>) \/ StartCep18(<<"cep18">>)
                    \/ StartCep18(<<"cep18_test">>) \/ StartCep18(<<>>)
  PROVE  DeployInv'
<1>1. PICK todo \in Seq(Names) : StartCep18(todo)
  BY ContractLists DEF TokenNames
<1>2. Start("cep18", "submitting", FALSE, todo) /\ UNCHANGED <<chain, disk, envs>>
  BY <1>1 DEF StartCep18
<1>3. /\ run' \in Runs /\ runs' \in 0 .. MaxRuns /\ verified' \in SUBSET Values
      /\ run'.script = "cep18" /\ run'.at = "submitting" /\ run'.skipDeploy = FALSE
      /\ run'.todo = todo /\ DOMAIN run'.results = {}
  BY <1>2, StartEffect DEF Scripts, Stages
<1>4. RunGood'
  BY <1>3 DEF RunGood, ResultsReal, SetupInOrder
<1> QED
  BY <1>2, <1>3, <1>4, QuietStep DEF disk, envs, DeployInv, DeployTypeOK

-----------------------------------------------------------------------------
LEMMA RunResults ==
  ASSUME NEW r \in Runs
  PROVE  r.results \in [DOMAIN r.results -> Hashes] /\ DOMAIN r.results \in SUBSET Names
<1>1. r.results \in UNION {[S -> Hashes] : S \in SUBSET Names}
  BY DEF Runs
<1>2. PICK S \in SUBSET Names : r.results \in [S -> Hashes]
  BY <1>1
<1> QED
  BY <1>2

LEMMA Types ==
  ASSUME DeployInv
  PROVE  /\ run \in Runs /\ Len(deploys) \in Nat /\ Len(deploys) <= MaxDeploys /\ MaxDeploys \in Nat
         /\ deploys \in Seq([of : Names, status : {"pending", "installed", "reverted"}])
         /\ \A d \in 1 .. Len(deploys) :
              deploys[d] \in [of : Names, status : {"pending", "installed", "reverted"}]
         /\ localEnv \in Seq(Lines) /\ agentEnv \in Seq(Lines) /\ outerEnv \in Seq(Lines)
         /\ \A i \in 1 .. Len(localEnv) : localEnv[i] \in Lines
         /\ \A i \in 1 .. Len(agentEnv) : agentEnv[i] \in Lines
         /\ named \in [TokenNames -> 0 .. MaxDeploys]
         /\ wasm \subseteq Names /\ keyFiles \subseteq {"agent.pem", "secret_key.pem"}
         /\ hasEnv \in BOOLEAN /\ verified \in SUBSET Values /\ runs \in 0 .. MaxRuns
<1>1. DeployTypeOK /\ Len(deploys) <= MaxDeploys
  BY DEF DeployInv, FilesGood
<1>2. /\ deploys \in Seq([of : Names, status : {"pending", "installed", "reverted"}])
      /\ localEnv \in Seq(Lines) /\ agentEnv \in Seq(Lines) /\ outerEnv \in Seq(Lines)
  BY <1>1 DEF DeployTypeOK
<1>3. /\ Len(deploys) \in Nat
      /\ \A d \in 1 .. Len(deploys) :
           deploys[d] \in [of : Names, status : {"pending", "installed", "reverted"}]
      /\ \A i \in 1 .. Len(localEnv) : localEnv[i] \in Lines
      /\ \A i \in 1 .. Len(agentEnv) : agentEnv[i] \in Lines
  BY <1>2, LenProperties, ElementOfSeq
<1> QED
  BY <1>1, <1>2, <1>3, BoundsAssumption DEF DeployTypeOK

\* A line of a contract or token is blank, or has the hash of a deploy of it.
LEMMA LineIs ==
  ASSUME NEW l \in Lines, Good(l), l.key \in Names
  PROVE  l.value = Blank \/ Real(l.key, l.value)
<1>1. l.value \in Hashes \/ l.value = Blank \/ l.value = Text \/ l.value = Typed
  BY DEF Lines, Values
<1>2. l.value.is # "text"
  BY DEF Good
<1>3. l.value # Text /\ l.value # Typed
  BY <1>2 DEF Text, Typed
<1>4. l.value \in Hashes => l.value.is \in {"contract", "deploy"}
  BY DEF Hashes
<1> QED
  BY <1>1, <1>3, <1>4 DEF Good

LEMMA ConfiguredOf ==
  ASSUME DeployInv, NEW c \in Names
  PROVE  /\ Configured(agentEnv, c) = Blank \/ Real(c, Configured(agentEnv, c))
         /\ Configured(agentEnv, c).of \in 0 .. Len(deploys)
<1>1. Configured(agentEnv, c) = Blank \/ Real(c, Configured(agentEnv, c))
  <2>1. CASE \E i \in 1 .. Len(agentEnv) : agentEnv[i].key = c
    <3>1. PICK i \in 1 .. Len(agentEnv) : agentEnv[i].key = c
      BY <2>1
    <3>2. Configured(agentEnv, c) = agentEnv[i].value
      <4>1. Configured(agentEnv, agentEnv[i].key) = agentEnv[i].value
        BY Types, ConfiguredIs DEF DeployInv, FilesGood
      <4> QED
        BY <3>1, <4>1
    <3>3. Good(agentEnv[i]) /\ agentEnv[i] \in Lines
      BY Types DEF DeployInv, FilesGood
    <3> QED
      BY <3>1, <3>2, <3>3, LineIs
  <2>2. CASE \A i \in 1 .. Len(agentEnv) : agentEnv[i].key # c
    BY <2>2, NotConfigured
  <2> QED
    BY <2>1, <2>2
<1>2. Len(deploys) \in Nat
  BY Types
<1>. DEFINE v == Configured(agentEnv, c)
<1>. HIDE DEF v
<1>3. v = Blank \/ v.of \in 1 .. Len(deploys)
  BY <1>1 DEF v, Real
<1>4. v.of \in 0 .. Len(deploys)
  BY <1>2, <1>3 DEF Blank
<1> QED
  BY <1>1, <1>4 DEF v

-----------------------------------------------------------------------------
LEMMA BuildStep ==
  ASSUME DeployInv, BuildContracts
  PROVE  DeployInv'
<1>1. PICK built \in SUBSET Contracts :
        /\ wasm' = wasm \cup built
        /\ run' = IF built = Contracts \/ Checked \subseteq wasm'
                  THEN [run EXCEPT !.at = IF run.skipDeploy THEN "recovering" ELSE "submitting"]
                  ELSE Idle
  BY DEF BuildContracts
<1>2. run.script = "deploy" /\ UNCHANGED <<chain, keyFiles, hasEnv, envs, verified, runs>>
  BY DEF BuildContracts
<1>3. wasm' \subseteq Names
  BY <1>1, Types, ContractsAre
<1>4. run' \in Runs /\ RunGood'
  <2>1. CASE run' = Idle
    BY <2>1, IdleRun
  <2>2. CASE run' = [run EXCEPT !.at = IF run.skipDeploy THEN "recovering" ELSE "submitting"]
    <3>. DEFINE at == IF run.skipDeploy THEN "recovering" ELSE "submitting"
    <3>1. run' = [script |-> run.script, at |-> at, skipDeploy |-> run.skipDeploy,
                  todo |-> run.todo, deploy |-> run.deploy, results |-> run.results]
      BY <2>2, Types DEF Runs
    <3>2. at \in Stages /\ at \notin {"waiting", "recording"} /\ (run.skipDeploy => at = "recovering")
      BY DEF Stages
    <3>. HIDE DEF at
    <3>3. /\ run' \in Runs /\ run'.script = run.script /\ run'.skipDeploy = run.skipDeploy
          /\ run'.at = at /\ run'.results = run.results
      <4>1. run.todo \in Seq(Names) /\ run.deploy \in 0 .. MaxDeploys
        BY Types, RunIs
      <4>2. /\ run \in Runs /\ run.results \in [DOMAIN run.results -> Hashes]
            /\ DOMAIN run.results \in SUBSET Names
        BY Types, RunResults
      <4> QED
        <5>1. run.script \in Scripts /\ run.skipDeploy \in BOOLEAN
          BY Types, RunIs
        <5>2. [script |-> run.script, at |-> at, skipDeploy |-> run.skipDeploy,
               todo |-> run.todo, deploy |-> run.deploy, results |-> run.results] \in Runs
          BY <3>2, <4>1, <4>2, <5>1, RunType
        <5> QED
          BY <3>1, <5>2
    <3>4. UNCHANGED <<deploys, agentEnv, localEnv>>
      BY <1>2 DEF chain, envs
    <3>5. ResultsReal
      BY DEF DeployInv, RunGood
    <3>6. ResultsReal'
      BY <3>3, <3>4, <3>5 DEF ResultsReal, Real
    <3>7. SetupInOrder'
      BY <1>2, <3>3 DEF SetupInOrder
    <3> QED
      BY <3>2, <3>3, <3>6, <3>7 DEF RunGood
  <2> QED
    BY <1>1, <2>1, <2>2
<1> QED
  BY <1>2, <1>3, <1>4, Types, QuietStep DEF disk, envs

LEMMA KeyStep ==
  ASSUME DeployInv, FindOrGenerateKey
  PROVE  DeployInv'
<1>1. /\ run.script = "setup" /\ run.at = "building"
      /\ UNCHANGED <<chain, wasm, hasEnv, envs, verified, runs>>
      /\ run' = IF "agent.pem" \in keyFiles' THEN [run EXCEPT !.at = "submitting"] ELSE Idle
  BY DEF FindOrGenerateKey
<1>2. keyFiles' \subseteq {"agent.pem", "secret_key.pem"}
  BY Types DEF FindOrGenerateKey
<1>3. run' \in Runs /\ RunGood'
  <2>1. CASE run' = Idle
    BY <2>1, IdleRun
  <2>2. CASE run' = [run EXCEPT !.at = "submitting"]
    <3>1. run' = [script |-> run.script, at |-> "submitting", skipDeploy |-> run.skipDeploy,
                  todo |-> run.todo, deploy |-> run.deploy, results |-> run.results]
      BY <2>2, Types DEF Runs
    <3>2. /\ run' \in Runs /\ run'.script = run.script /\ run'.skipDeploy = run.skipDeploy
          /\ run'.at = "submitting" /\ run'.results = run.results /\ run'.todo = run.todo
      <4>1. run.todo \in Seq(Names) /\ run.deploy \in 0 .. MaxDeploys /\ "submitting" \in Stages
        BY Types, RunIs DEF Stages
      <4>2. /\ run \in Runs /\ run.results \in [DOMAIN run.results -> Hashes]
            /\ DOMAIN run.results \in SUBSET Names
        BY Types, RunResults
      <4> QED
        <5>1. run.script \in Scripts /\ run.skipDeploy \in BOOLEAN
          BY Types, RunIs
        <5>2. [script |-> run.script, at |-> "submitting", skipDeploy |-> run.skipDeploy,
               todo |-> run.todo, deploy |-> run.deploy, results |-> run.results] \in Runs
          BY <4>1, <4>2, <5>1, RunType
        <5> QED
          BY <3>1, <5>2
    <3>4. UNCHANGED <<deploys, agentEnv, localEnv>>
      BY <1>1 DEF chain, envs
    <3>5. ResultsReal /\ SetupInOrder
      BY DEF DeployInv, RunGood
    <3>6. ResultsReal'
      BY <3>2, <3>4, <3>5 DEF ResultsReal, Real
    <3>7. SetupInOrder'
      BY <1>1, <3>2, <3>4, <3>5 DEF SetupInOrder
    <3> QED
      BY <3>2, <3>6, <3>7 DEF RunGood
  <2> QED
    BY <1>1, <2>1, <2>2
<1> QED
  BY <1>1, <1>2, <1>3, Types, QuietStep DEF disk, envs

\* The contract waited for gets its hash.
LEMMA ResolvedStep ==
  ASSUME DeployInv, run.at = "waiting", NEW kind \in {"contract", "deploy"}, NEW prefixed \in BOOLEAN,
         kind = "contract" => StatusNow = "installed",
         Resolved(Keep(kind, prefixed)), UNCHANGED <<chain, disk, envs, verified, runs>>
  PROVE  DeployInv'
<1>. DEFINE c == Head(run.todo)
            kept == Keep(kind, prefixed)
            D == DOMAIN run.results
            h == Hash(kind, run.deploy, prefixed)
<1>1. /\ run.todo # <<>> /\ Real(c, Hash("deploy", run.deploy, TRUE))
      /\ run.todo \in Seq(Names) /\ run.deploy \in 0 .. MaxDeploys
  BY Types, RunIs DEF DeployInv, RunGood
<1>2. c \in Names /\ Tail(run.todo) \in Seq(Names)
  BY <1>1, HeadTailProperties
<1>3. h \in Hashes /\ h.of = run.deploy /\ Real(c, h)
  BY <1>1, Types DEF Real, Hash, Hashes, StatusNow
<1>4. /\ kept \in [D \cup {c} -> Hashes] /\ D \cup {c} \in SUBSET Names /\ kept[c] = h
      /\ \A x \in D : x # c => kept[x] = run.results[x]
  <2>1. kept = [x \in D \cup {c} |-> IF x = c THEN h ELSE run.results[x]]
    BY DEF Keep
  <2>2. run.results \in [D -> Hashes] /\ D \in SUBSET Names
    BY Types, RunResults
  <2>. HIDE DEF kept, h, c
  <2> QED
    BY <1>2, <1>3, <2>1, <2>2
<1>5. /\ run' \in Runs /\ run'.script = run.script /\ run'.skipDeploy = run.skipDeploy
      /\ run'.at = "submitting" /\ run'.results = kept /\ run'.todo = Tail(run.todo)
  <2>. DEFINE todo == Tail(run.todo)
  <2>1. run' = [script |-> run.script, at |-> "submitting", skipDeploy |-> run.skipDeploy,
                todo |-> todo, deploy |-> 0, results |-> kept]
    BY Types DEF Resolved, Runs
  <2>2. "submitting" \in Stages /\ 0 \in 0 .. MaxDeploys /\ run \in Runs /\ todo \in Seq(Names)
    BY <1>2, Types DEF Stages
  <2>. HIDE DEF kept, h, c, todo
  <2>3. /\ run' \in Runs /\ run'.script = run.script /\ run'.skipDeploy = run.skipDeploy
        /\ run'.at = "submitting" /\ run'.results = kept /\ run'.todo = todo
    <3>1. run.script \in Scripts /\ run.skipDeploy \in BOOLEAN
      BY Types, RunIs
    <3>2. [script |-> run.script, at |-> "submitting", skipDeploy |-> run.skipDeploy,
           todo |-> todo, deploy |-> 0, results |-> kept] \in Runs
      BY <1>4, <2>2, <3>1, RunType
    <3> QED
      BY <2>1, <3>2
  <2> QED
    BY <2>3 DEF todo
<1>6. UNCHANGED <<deploys, agentEnv, wasm, keyFiles>>
  BY DEF chain, envs, disk
<1>. HIDE DEF kept, h, c
<1>7. \A x \in DOMAIN kept : Real(x, kept[x])
  BY <1>3, <1>4 DEF DeployInv, RunGood, ResultsReal
<1>9. SetupInOrder'
  <2>. SUFFICES ASSUME run.script = "setup"
                PROVE  SetupInOrder'
    BY <1>5 DEF SetupInOrder
  <2>1. /\ \/ run.todo = SetupOrder /\ D = {}
           \/ run.todo = <<"agent_vault">> /\ D = {"revenue_emitter"}
        /\ \A x \in D : run.results[x].of >= Configured(agentEnv, x).of
        /\ run.deploy >= Configured(agentEnv, c).of
    BY <1>1 DEF DeployInv, RunGood, SetupInOrder, c
  <2>2. \/ Tail(run.todo) = <<"agent_vault">> /\ DOMAIN kept = {"revenue_emitter"}
        \/ Tail(run.todo) = <<>> /\ DOMAIN kept = Checked
    <3>1. CASE run.todo = SetupOrder /\ D = {}
      <4>1. c = "revenue_emitter" /\ Tail(run.todo) = <<"agent_vault">>
        BY <3>1 DEF SetupOrder, c
      <4> QED
        BY <1>4, <3>1, <4>1
    <3>2. CASE run.todo = <<"agent_vault">> /\ D = {"revenue_emitter"}
      <4>1. c = "agent_vault" /\ Tail(run.todo) = <<>>
        BY <3>2 DEF c
      <4> QED
        BY <1>4, <3>2, <4>1 DEF Checked
    <3> QED
      BY <2>1, <3>1, <3>2
  <2>3. \A x \in DOMAIN kept : kept[x].of >= Configured(agentEnv, x).of
    BY <1>3, <1>4, <2>1
  <2> QED
    BY <1>5, <1>6, <2>2, <2>3 DEF SetupInOrder
<1>10. RunGood'
  BY <1>5, <1>6, <1>7, <1>9 DEF RunGood, ResultsReal, Real
<1> QED
  BY <1>5, <1>6, <1>10, Types, QuietStep DEF disk, envs

LEMMA PollStep ==
  ASSUME DeployInv, PollFinds \/ PollFallsBack \/ SetupWaited
  PROVE  DeployInv'
<1>1. CASE PollFinds
  <2>1. PICK prefixed \in BOOLEAN : Resolved(Keep("contract", prefixed))
    BY <1>1 DEF PollFinds
  <2> QED
    BY <1>1, <2>1, ResolvedStep DEF PollFinds, Waits
<1>2. CASE PollFallsBack
  <2>1. PICK prefixed \in BOOLEAN : Resolved(Keep("deploy", prefixed))
    BY <1>2 DEF PollFallsBack
  <2> QED
    BY <1>2, <2>1, ResolvedStep DEF PollFallsBack, Waits
<1>3. CASE SetupWaited
  BY <1>3, ResolvedStep DEF SetupWaited, Waits
<1> QED
  BY <1>1, <1>2, <1>3

\* --skip-deploy takes the first hash- line of a contract.
LEMMA RecoverStep ==
  ASSUME DeployInv, RecoverHashes
  PROVE  DeployInv'
<1>. DEFINE found == {c \in Contracts : Recoverable(localEnv, c) # {}}
            line(c) == Min(Recoverable(localEnv, c))
            kept == [c \in found |-> localEnv[line(c)].value]
<1>1. /\ run.at = "recovering" /\ run' = [run EXCEPT !.at = "recording", !.results = kept]
      /\ UNCHANGED <<chain, disk, envs, verified, runs>>
  BY DEF RecoverHashes
<1>2. UNCHANGED <<deploys, localEnv, agentEnv, wasm, keyFiles>>
  BY <1>1 DEF chain, envs, disk
<1>3. ASSUME NEW c \in found
      PROVE  /\ line(c) \in 1 .. Len(localEnv) /\ localEnv[line(c)].key = c
             /\ Real(c, localEnv[line(c)].value)
  <2>1. Recoverable(localEnv, c) \subseteq Nat /\ Recoverable(localEnv, c) # {}
    BY DEF Recoverable, Places
  <2>2. line(c) \in Recoverable(localEnv, c)
    BY <2>1, MinWithin
  <2>. DEFINE l == localEnv[line(c)]
  <2>3. line(c) \in 1 .. Len(localEnv) /\ l.key = c /\ l.value.prefixed
    BY <2>2 DEF Recoverable, Places
  <2>. HIDE DEF line
  <2>4. l \in Lines /\ Good(l) /\ c \in Names
    BY <2>3, Types, ContractsAre DEF DeployInv, FilesGood
  <2>. HIDE DEF l
  <2>5. l.value = Blank \/ Real(c, l.value)
    BY <2>3, <2>4, LineIs
  <2>6. l.value # Blank
    BY <2>3 DEF Blank
  <2> QED
    BY <2>3, <2>5, <2>6 DEF l
<1>4. /\ kept \in [found -> Hashes] /\ DOMAIN kept = found /\ found \in SUBSET Names
      /\ \A c \in found : kept[c] = localEnv[line(c)].value
  BY <1>3, ContractsAre DEF Real
<1>. HIDE DEF found, line, kept
<1>5. /\ run' \in Runs /\ run'.script = run.script /\ run'.skipDeploy = run.skipDeploy
      /\ run'.at = "recording" /\ run'.results = kept
  <2>1. run' = [script |-> run.script, at |-> "recording", skipDeploy |-> run.skipDeploy,
                todo |-> run.todo, deploy |-> run.deploy, results |-> kept]
    BY <1>1, Types DEF Runs
  <2>2. /\ run.script \in Scripts /\ run.skipDeploy \in BOOLEAN /\ "recording" \in Stages
        /\ run.todo \in Seq(Names) /\ run.deploy \in 0 .. MaxDeploys
    BY Types, RunIs DEF Stages
  <2>3. [script |-> run.script, at |-> "recording", skipDeploy |-> run.skipDeploy,
         todo |-> run.todo, deploy |-> run.deploy, results |-> kept] \in Runs
    BY <1>4, <2>2, RunType
  <2> QED
    BY <2>1, <2>3
<1>6. SetupInOrder
  BY DEF DeployInv, RunGood
<1>7. ResultsReal'
  BY <1>2, <1>3, <1>4, <1>5 DEF ResultsReal, Real
<1>8. SetupInOrder'
  BY <1>1, <1>5, <1>6 DEF SetupInOrder
<1>9. RunGood'
  BY <1>5, <1>7, <1>8 DEF RunGood
<1> QED
  BY <1>1, <1>5, <1>9, Types, QuietStep DEF disk, envs

LEMMA DeployQueriedStep ==
  ASSUME DeployInv, DeployQueried
  PROVE  DeployInv'
<1>1. /\ run.script = "cep18" /\ run.at = "waiting"
      /\ run' = Idle \/ Resolved(run.results)
      /\ UNCHANGED <<chain, disk, envs, verified, runs>>
  BY DEF DeployQueried, Waits
<1>2. UNCHANGED <<deploys, wasm, keyFiles>>
  BY <1>1 DEF chain, disk
<1>3. run' \in Runs /\ RunGood'
  <2>1. CASE run' = Idle
    BY <2>1, IdleRun
  <2>2. CASE Resolved(run.results)
    <3>. DEFINE todo == Tail(run.todo)
    <3>1. todo \in Seq(Names)
      <4>1. run.todo \in Seq(Names) /\ run.todo # <<>>
        BY <1>1, Types, RunIs DEF DeployInv, RunGood
      <4> QED
        BY <4>1, HeadTailProperties
    <3>2. run' = [script |-> run.script, at |-> "submitting", skipDeploy |-> run.skipDeploy,
                  todo |-> todo, deploy |-> 0, results |-> run.results]
      BY <2>2, Types DEF Resolved, Runs
    <3>. HIDE DEF todo
    <3>3. /\ run.script \in Scripts /\ run.skipDeploy \in BOOLEAN /\ "submitting" \in Stages
          /\ 0 \in 0 .. MaxDeploys
      BY Types, RunIs DEF Stages
    <3>4. /\ run.results \in [DOMAIN run.results -> Hashes]
          /\ DOMAIN run.results \in SUBSET Names
      BY Types, RunResults
    <3>5. [script |-> run.script, at |-> "submitting", skipDeploy |-> run.skipDeploy,
           todo |-> todo, deploy |-> 0, results |-> run.results] \in Runs
      BY <3>1, <3>3, <3>4, RunType
    <3>6. /\ run' \in Runs /\ run'.script = "cep18" /\ run'.skipDeploy = run.skipDeploy
          /\ run'.at = "submitting" /\ run'.results = run.results
      BY <1>1, <3>2, <3>5
    <3>7. ResultsReal
      BY DEF DeployInv, RunGood
    <3>8. ResultsReal'
      BY <1>2, <3>6, <3>7 DEF ResultsReal, Real
    <3> QED
      BY <3>6, <3>7, <3>8 DEF RunGood, SetupInOrder
  <2> QED
    BY <1>1, <2>1, <2>2
<1> QED
  BY <1>1, <1>2, <1>3, Types, QuietStep DEF disk, envs

LEMMA QueryStep ==
  ASSUME DeployInv, QueryNamedKeys
  PROVE  DeployInv'
<1>1. PICK seen \in {{}, {t \in TokenNames : named[t] # 0}} :
        run' = [run EXCEPT !.at = "recording",
                  !.results = [t \in seen |-> Hash("contract", named[t], TRUE)]]
  BY DEF QueryNamedKeys
<1>. DEFINE kept == [t \in seen |-> Hash("contract", named[t], TRUE)]
<1>2. run.script = "cep18" /\ UNCHANGED <<chain, disk, envs, verified, runs>>
  BY DEF QueryNamedKeys
<1>3. UNCHANGED <<deploys, wasm, keyFiles>>
  BY <1>2 DEF chain, disk
<1>4. seen \in SUBSET Names /\ \A t \in seen : t \in TokenNames /\ named[t] # 0
  BY DEF Names
<1>5. \A t \in seen : Real(t, kept[t])
  BY <1>4 DEF DeployInv, FilesGood
<1>6. kept \in [seen -> Hashes] /\ DOMAIN kept = seen
  BY <1>5 DEF Real
<1>. HIDE DEF kept
<1>7. /\ run' \in Runs /\ run'.script = "cep18" /\ run'.skipDeploy = run.skipDeploy
      /\ run'.at = "recording" /\ run'.results = kept
  <2>1. run' = [script |-> run.script, at |-> "recording", skipDeploy |-> run.skipDeploy,
                todo |-> run.todo, deploy |-> run.deploy, results |-> kept]
    BY <1>1, Types DEF Runs, kept
  <2>2. /\ run.script \in Scripts /\ run.skipDeploy \in BOOLEAN /\ "recording" \in Stages
        /\ run.todo \in Seq(Names) /\ run.deploy \in 0 .. MaxDeploys
    BY Types, RunIs DEF Stages
  <2>3. [script |-> run.script, at |-> "recording", skipDeploy |-> run.skipDeploy,
         todo |-> run.todo, deploy |-> run.deploy, results |-> kept] \in Runs
    BY <1>4, <1>6, <2>2, RunType
  <2> QED
    BY <1>2, <2>1, <2>3
<1>9. ResultsReal'
  BY <1>3, <1>5, <1>6, <1>7 DEF ResultsReal, Real
<1>10. RunGood'
  BY <1>7, <1>9 DEF RunGood, SetupInOrder
<1> QED
  BY <1>2, <1>3, <1>7, <1>10, Types, QuietStep DEF disk, envs

-----------------------------------------------------------------------------
\* The node forgets no deploy, and an executed one stays so.
Grows ==
  /\ Len(deploys) <= Len(deploys') /\ Len(deploys') \in Nat /\ Len(deploys') <= MaxDeploys
  /\ deploys' \in Seq([of : Names, status : {"pending", "installed", "reverted"}])
  /\ \A d \in 1 .. Len(deploys) :
       /\ deploys'[d].of = deploys[d].of
       /\ deploys[d].status = "installed" => deploys'[d].status = "installed"

LEMMA RealStays ==
  ASSUME DeployInv, Grows, NEW key, NEW v, Real(key, v)
  PROVE  /\ v \in Hashes /\ v.of \in 1 .. Len(deploys') /\ deploys'[v.of].of = key
         /\ v.is = "contract" => deploys'[v.of].status = "installed"
<1>1. v \in Hashes /\ v.of \in 1 .. Len(deploys) /\ deploys[v.of].of = key
      /\ (v.is = "contract" => deploys[v.of].status = "installed")
  BY DEF Real
<1>2. v.of \in 1 .. Len(deploys')
  BY <1>1, Types DEF Grows
<1> QED
  BY <1>1, <1>2 DEF Grows

LEMMA ChainStep ==
  ASSUME DeployInv, Grows, UNCHANGED <<disk, envs, verified, runs>>,
         named' \in [TokenNames -> 0 .. MaxDeploys],
         \A t \in TokenNames : named'[t] # 0 =>
            named'[t] = named[t] \/ /\ named'[t] \in 1 .. Len(deploys')
                                    /\ deploys'[named'[t]].of = t
                                    /\ deploys'[named'[t]].status = "installed",
         run' \in Runs, RunGood'
  PROVE  DeployInv'
<1>1. UNCHANGED <<localEnv, agentEnv, outerEnv, wasm, keyFiles, hasEnv>>
  BY DEF envs, disk
<1>2. DeployTypeOK'
  BY <1>1 DEF DeployInv, DeployTypeOK, Grows
<1>3. \A i \in 1 .. Len(localEnv) : Good(localEnv[i])
  BY DEF DeployInv, FilesGood
<1>4. \A i \in 1 .. Len(agentEnv) : Good(agentEnv[i])
  BY DEF DeployInv, FilesGood
<1>5. (\A i \in 1 .. Len(localEnv) : Good(localEnv[i]))'
  <2>1. ASSUME NEW i \in 1 .. Len(localEnv) PROVE Good(localEnv[i])'
    BY <1>1, <1>3, RealStays DEF Good, Real
  <2> QED
    BY <1>1, <2>1
<1>6. (\A i \in 1 .. Len(agentEnv) : Good(agentEnv[i]))'
  <2>1. ASSUME NEW i \in 1 .. Len(agentEnv) PROVE Good(agentEnv[i])'
    BY <1>1, <1>4, RealStays DEF Good, Real
  <2> QED
    BY <1>1, <2>1
<1>7. ASSUME NEW t \in TokenNames, named'[t] # 0
      PROVE  Real(t, Hash("contract", named[t], TRUE))'
  <2>1. CASE named'[t] = named[t]
    <3>1. Real(t, Hash("contract", named[t], TRUE))
      BY <1>7, <2>1 DEF DeployInv, FilesGood
    <3>2. Real(t, Hash("contract", named[t], TRUE))'
      BY <2>1, <3>1, RealStays DEF Real, Hash
    <3> QED
      BY <3>2
  <2>2. CASE /\ named'[t] \in 1 .. Len(deploys') /\ deploys'[named'[t]].of = t
             /\ deploys'[named'[t]].status = "installed"
    <3>1. named'[t] \in 1 .. MaxDeploys
      BY <2>2, BoundsAssumption DEF Grows
    <3> QED
      BY <2>2, <3>1 DEF Real, Hash, Hashes
  <2> QED
    BY <1>7, <2>1, <2>2
<1>8. FilesGood'
  <2>1. Unique(agentEnv)
    BY DEF DeployInv, FilesGood
  <2>2. Unique(agentEnv)'
    BY <1>1, <2>1
  <2> QED
    BY <1>5, <1>6, <1>7, <2>2 DEF FilesGood, Grows
<1> QED
  BY <1>2, <1>8 DEF DeployInv

LEMMA SubmitStep ==
  ASSUME DeployInv, Submit
  PROVE  DeployInv'
<1>. DEFINE c == Head(run.todo)
            new == [of |-> c, status |-> "pending"]
            n == Len(deploys)
<1>1. /\ run.at = "submitting" /\ run.todo # <<>> /\ n < MaxDeploys
      /\ deploys' = Append(deploys, new)
      /\ run' = [run EXCEPT !.at = "waiting", !.deploy = Len(deploys')] \/ run' = Idle
      /\ UNCHANGED <<named, disk, envs, verified, runs>>
  BY DEF Submit
<1>2. run.todo \in Seq(Names) /\ c \in Names
  BY <1>1, Types, RunIs, HeadTailProperties
<1>. HIDE DEF c
<1>3. /\ Len(deploys') = n + 1 /\ deploys'[n + 1] = new
      /\ \A d \in 1 .. n : deploys'[d] = deploys[d]
      /\ deploys' \in Seq([of : Names, status : {"pending", "installed", "reverted"}])
  <2>1. new \in [of : Names, status : {"pending", "installed", "reverted"}]
    BY <1>2
  <2> QED
    BY <1>1, <2>1, Types, AppendProperties
<1>4. Grows
  BY <1>1, <1>3, Types DEF Grows
<1>5. n + 1 \in 1 .. Len(deploys') /\ n + 1 \in 1 .. MaxDeploys
  BY <1>1, <1>3, Types
<1>6. CASE run' = Idle
  BY <1>1, <1>4, <1>6, IdleRun, Types, ChainStep
<1>7. CASE run' = [run EXCEPT !.at = "waiting", !.deploy = Len(deploys')]
  <2>1. /\ run' \in Runs /\ run'.script = run.script /\ run'.skipDeploy = run.skipDeploy
        /\ run'.at = "waiting" /\ run'.results = run.results /\ run'.todo = run.todo
        /\ run'.deploy = n + 1
    <3>1. run' = [script |-> run.script, at |-> "waiting", skipDeploy |-> run.skipDeploy,
                  todo |-> run.todo, deploy |-> n + 1, results |-> run.results]
      BY <1>3, <1>7, Types DEF Runs
    <3>2. /\ run.script \in Scripts /\ run.skipDeploy \in BOOLEAN /\ "waiting" \in Stages
          /\ n + 1 \in 0 .. MaxDeploys
      BY <1>5, Types, RunIs DEF Stages
    <3>3. /\ run.results \in [DOMAIN run.results -> Hashes]
          /\ DOMAIN run.results \in SUBSET Names
      BY Types, RunResults
    <3>4. [script |-> run.script, at |-> "waiting", skipDeploy |-> run.skipDeploy,
           todo |-> run.todo, deploy |-> n + 1, results |-> run.results] \in Runs
      BY <1>2, <3>2, <3>3, RunType
    <3> QED
      BY <3>1, <3>4
  <2>2. agentEnv' = agentEnv
    BY <1>1 DEF envs
  <2>3. ResultsReal /\ SetupInOrder
    BY DEF DeployInv, RunGood
  <2>4. ResultsReal'
    BY <1>4, <2>1, <2>3, RealStays DEF ResultsReal, Real
  <2>5. /\ Hash("deploy", n + 1, TRUE) \in Hashes
        /\ n + 1 \in 1 .. Len(deploys') /\ deploys'[n + 1].of = c
    BY <1>3, <1>5 DEF Hash, Hashes
  <2>6. run.todo = SetupOrder \/ run.todo = <<"agent_vault">> \/ run.script # "setup"
    BY <1>1, <2>3 DEF SetupInOrder
  <2>7. n + 1 >= Configured(agentEnv, c).of
    <3>1. Configured(agentEnv, c).of \in 0 .. n
      BY <1>2, ConfiguredOf
    <3> QED
      BY <3>1, Types
  <2>8. SetupInOrder'
    BY <2>1, <2>2, <2>3, <2>6, <2>7 DEF SetupInOrder, c
  <2>9. (Real(Head(run.todo), Hash("deploy", run.deploy, TRUE)))'
    BY <2>1, <2>5 DEF Real, Hash, c
  <2>10. RunGood'
    BY <1>1, <2>1, <2>3, <2>4, <2>8, <2>9 DEF RunGood
  <2> QED
    BY <1>1, <1>4, <2>1, <2>10, Types, ChainStep
<1> QED
  BY <1>1, <1>6, <1>7

LEMMA ExecuteStep ==
  ASSUME DeployInv, NEW d \in 1 .. Len(deploys), Execute(d)
  PROVE  DeployInv'
<1>1. PICK status \in {"installed", "reverted"} :
        /\ deploys' = [deploys EXCEPT ![d].status = status]
        /\ named' = [t \in TokenNames |-> IF t = deploys[d].of /\ status = "installed"
                                     THEN d ELSE named[t]]
  BY DEF Execute
<1>2. deploys[d].status = "pending" /\ UNCHANGED <<run, disk, envs, verified, runs>>
  BY DEF Execute
<1>. DEFINE D == [of : Names, status : {"pending", "installed", "reverted"}]
            new == [of |-> deploys[d].of, status |-> status]
<1>3. deploys[d] \in D /\ new \in D
  BY Types
<1>4. [deploys[d] EXCEPT !.status = status] = new
  BY <1>3
<1>5. deploys' = [deploys EXCEPT ![d] = new]
  BY <1>1, <1>4
<1>6. /\ Len(deploys') = Len(deploys) /\ deploys' \in Seq(D) /\ deploys'[d] = new
      /\ \A e \in 1 .. Len(deploys) : e # d => deploys'[e] = deploys[e]
  <2>1. deploys \in Seq(D) /\ DOMAIN deploys = 1 .. Len(deploys)
    BY Types, LenProperties
  <2>. HIDE DEF D, new
  <2> QED
    BY <1>3, <1>5, <2>1
<1>7. Grows
  <2>1. \A e \in 1 .. Len(deploys) :
          /\ deploys'[e].of = deploys[e].of
          /\ deploys[e].status = "installed" => deploys'[e].status = "installed"
    BY <1>2, <1>6
  <2>2. Len(deploys) \in Nat /\ Len(deploys) <= MaxDeploys
    BY Types
  <2>3. Len(deploys) <= Len(deploys') /\ Len(deploys') \in Nat /\ Len(deploys') <= MaxDeploys
    BY <1>6, <2>2
  <2> QED
    BY <1>6, <2>1, <2>3 DEF Grows
<1>8. named' \in [TokenNames -> 0 .. MaxDeploys]
  BY <1>1, Types
<1>9. \A t \in TokenNames : named'[t] # 0 =>
            named'[t] = named[t] \/ /\ named'[t] \in 1 .. Len(deploys')
                                    /\ deploys'[named'[t]].of = t
                                    /\ deploys'[named'[t]].status = "installed"
  BY <1>1, <1>6
<1>10. run' \in Runs /\ RunGood'
  <2>1. ResultsReal /\ SetupInOrder
    BY DEF DeployInv, RunGood
  <2>2. ResultsReal'
    BY <1>2, <1>7, <2>1, RealStays DEF ResultsReal, Real
  <2>3. UNCHANGED <<agentEnv, localEnv>>
    BY <1>2 DEF envs
  <2>4. SetupInOrder'
    BY <1>2, <2>1, <2>3 DEF SetupInOrder
  <2>5. run.at = "waiting" => run.todo # <<>> /\ Real(Head(run.todo), Hash("deploy", run.deploy, TRUE))
    BY DEF DeployInv, RunGood
  <2>6. (run.at = "waiting" => run.todo # <<>> /\ Real(Head(run.todo), Hash("deploy", run.deploy, TRUE)))'
    BY <1>2, <1>7, <2>5, RealStays DEF Real, Hash
  <2> QED
    BY <1>2, <2>2, <2>4, <2>6, Types DEF RunGood
<1> QED
  BY <1>2, <1>7, <1>8, <1>9, <1>10, ChainStep

-----------------------------------------------------------------------------
\* A step that writes environment files, and ends the script that does.
LEMMA WriteStep ==
  ASSUME DeployInv, UNCHANGED <<chain, wasm, keyFiles, verified, runs, outerEnv>>,
         hasEnv' \in BOOLEAN, run' = Idle,
         localEnv' \in Seq(Lines), agentEnv' \in Seq(Lines),
         \A i \in 1 .. Len(localEnv') : Good(localEnv'[i]),
         \A i \in 1 .. Len(agentEnv') : Good(agentEnv'[i]),
         Unique(agentEnv')
  PROVE  DeployInv'
<1>1. UNCHANGED <<deploys, named>>
  BY DEF chain
<1>2. run' \in Runs /\ RunGood'
  BY IdleRun
<1>3. DeployTypeOK'
  BY <1>1, <1>2 DEF DeployInv, DeployTypeOK
<1>4. FilesGood'
  <2>1. Len(deploys) <= MaxDeploys /\ \A t \in TokenNames : named[t] # 0 => Real(t, Hash("contract", named[t], TRUE))
    BY DEF DeployInv, FilesGood
  <2>2. (\A t \in TokenNames : named[t] # 0 => Real(t, Hash("contract", named[t], TRUE)))'
    BY <1>1, <2>1 DEF Real
  <2>3. (\A i \in 1 .. Len(localEnv) : Good(localEnv[i]))' /\ (\A i \in 1 .. Len(agentEnv) : Good(agentEnv[i]))'
    BY <1>1 DEF Good, Real
  <2> QED
    BY <1>1, <2>1, <2>2, <2>3 DEF FilesGood
<1> QED
  BY <1>2, <1>3, <1>4 DEF DeployInv

\* A file that was cut off is empty, and nothing is wrong with its lines.
LEMMA CutOff ==
  ASSUME NEW env, env = <<>>
  PROVE  env \in Seq(Lines) /\ Unique(env) /\ \A i \in 1 .. Len(env) : Good(env[i])
<1>1. env \in Seq(Lines) /\ Len(env) = 0
  BY EmptySeq
<1> QED
  BY <1>1 DEF Unique

\* What is left of a file without the block of the run before was there.
LEMMA StripIs ==
  ASSUME DeployInv
  PROVE  /\ StripBlock(localEnv) \in Seq(Lines)
         /\ \A i \in 1 .. Len(StripBlock(localEnv)) : \E j \in 1 .. Len(localEnv) :
              StripBlock(localEnv)[i] = localEnv[j]
<1>. DEFINE blocks == Places(localEnv, Header.key)
            s == StripBlock(localEnv)
            n == Len(localEnv)
<1>1. localEnv \in Seq(Lines) /\ n \in Nat /\ DOMAIN localEnv = 1 .. n
  BY Types, LenProperties
<1>2. CASE blocks = {} \/ 1 \in blocks
  <2>1. s = localEnv
    BY <1>2 DEF StripBlock
  <2> QED
    BY <1>1, <2>1
<1>3. CASE blocks # {} /\ 1 \notin blocks
  <2>. DEFINE m == Min(blocks) - 1
  <2>1. s = SubSeq(localEnv, 1, m)
    BY <1>3 DEF StripBlock
  <2>2. blocks \subseteq Nat /\ blocks # {}
    BY <1>3 DEF Places
  <2>3. Min(blocks) \in blocks
    <3>. HIDE DEF blocks
    <3> QED
      BY <2>2, MinWithin
  <2>4. m \in 1 .. n
    <3>1. Min(blocks) \in 1 .. n /\ Min(blocks) # 1
      BY <1>3, <2>3 DEF Places
    <3> QED
      BY <3>1
  <2>. HIDE DEF m
  <2>5. s \in Seq(Lines) /\ Len(s) = m /\ \A i \in 1 .. m : s[i] = localEnv[i]
    BY <1>1, <2>1, <2>4, SubSeqProperties
  <2> QED
    BY <1>1, <2>4, <2>5
<1> QED
  BY <1>2, <1>3

LEMMA MarksAre ==
  /\ HandLine.key = "# by hand" /\ Header.value.is = "text"
  /\ HandLine.key \notin Names /\ Header.key \notin Names
  /\ HandLine \in Lines /\ Header \in Lines
<1>1. /\ HandLine.key = "# by hand" /\ Header.key = "# Generated by" /\ Header.value.is = "text"
      /\ HandLine \in Lines /\ Header \in Lines
  BY DEF HandLine, Header, Line, Lines, Keys, Values, Text
<1>2. \A c \in Names : c # "# by hand" /\ c # "# Generated by"
  BY ContractsAre DEF Names, TokenNames
<1> QED
  BY <1>1, <1>2

LEMMA BlockGood ==
  ASSUME DeployInv, NEW b, b = Block(run.results)
  PROVE  b \in Seq(Lines) /\ \A i \in 1 .. Len(b) : Good(b[i])
<1>1. ResultsReal
  BY DEF DeployInv, RunGood
<1>2. IsBlock(b, run.results, Len(Order))
  BY <1>1, BlockIs DEF ResultsReal, Real
<1>3. ASSUME NEW i \in 1 .. Len(b)
      PROVE  Good(b[i])
  <2>1. CASE b[i] = Header
    BY <2>1, MarksAre DEF Good
  <2>2. CASE b[i] # Header
    <3>1. PICK j \in 1 .. Len(Order) :
            Order[j] \in DOMAIN run.results /\ b[i] = Line(Order[j], run.results[Order[j]])
      BY <1>2, <2>2 DEF IsBlock
    <3>. DEFINE c == Order[j]
                h == run.results[c]
    <3>2. Real(c, h)
      BY <1>1, <3>1 DEF ResultsReal
    <3>. HIDE DEF c, h
    <3>3. b[i].key = c /\ b[i].value = h
      BY <3>1 DEF Line, c, h
    <3>4. h.is # "text"
      BY <3>2 DEF Real, Hashes
    <3> QED
      BY <3>2, <3>3, <3>4 DEF Good
  <2> QED
    BY <2>1, <2>2
<1> QED
  BY <1>2, <1>3 DEF IsBlock

\* deploy.ts leaves what was before the block, the block, or an empty file.
LEMMA RecordStep ==
  ASSUME DeployInv, RecordHashes
  PROVE  DeployInv'
<1>. DEFINE s == StripBlock(localEnv)
            b == Block(run.results)
            new == s \o b
<1>1. /\ localEnv' = new \/ localEnv' = <<>>
      /\ run' = Idle /\ UNCHANGED <<chain, disk, agentEnv, outerEnv, verified, runs>>
  BY DEF RecordHashes, Overwritten
<1>2. /\ s \in Seq(Lines) /\ b \in Seq(Lines)
      /\ \A i \in 1 .. Len(s) : Good(s[i])
      /\ \A i \in 1 .. Len(b) : Good(b[i])
  <2>1. \A i \in 1 .. Len(localEnv) : Good(localEnv[i])
    BY DEF DeployInv, FilesGood
  <2>. HIDE DEF s, b
  <2>2. \A i \in 1 .. Len(s) : Good(s[i])
    <3>1. \A i \in 1 .. Len(s) : \E j \in 1 .. Len(localEnv) : s[i] = localEnv[j]
      BY StripIs DEF s
    <3> QED
      BY <2>1, <3>1
  <2> QED
    BY <2>2, StripIs, BlockGood DEF s, b
<1>. HIDE DEF s, b
<1>3. new \in Seq(Lines) /\ \A i \in 1 .. Len(new) : Good(new[i])
  <2>. DEFINE p == Len(s)
              q == Len(b)
  <2>1. p \in Nat /\ q \in Nat
    BY <1>2, LenProperties
  <2>2. new \in Seq(Lines) /\ Len(new) = p + q
        /\ \A i \in 1 .. p + q : new[i] = IF i <= p THEN s[i] ELSE b[i - p]
    BY <1>2, ConcatProperties
  <2>3. /\ \A i \in 1 .. p : Good(s[i])
        /\ \A i \in 1 .. q : Good(b[i])
    BY <1>2
  <2>. HIDE DEF p, q, new
  <2>4. \A i \in 1 .. p + q : (i <= p /\ i \in 1 .. p) \/ (~(i <= p) /\ i - p \in 1 .. q)
    BY <2>1
  <2>5. ASSUME NEW i \in 1 .. p + q PROVE Good(new[i])
    <3>1. CASE i <= p
      BY <2>2, <2>3, <2>4, <3>1
    <3>2. CASE ~(i <= p)
      BY <2>2, <2>3, <2>4, <3>2
    <3> QED
      BY <3>1, <3>2
  <2> QED
    BY <2>2, <2>5
<1>. HIDE DEF new
<1>4. localEnv' \in Seq(Lines) /\ \A i \in 1 .. Len(localEnv') : Good(localEnv'[i])
  BY <1>1, <1>3, CutOff
<1>5. Unique(agentEnv) /\ \A i \in 1 .. Len(agentEnv) : Good(agentEnv[i])
  BY DEF DeployInv, FilesGood
<1> QED
  BY <1>1, <1>4, <1>5, Types, WriteStep DEF disk

-----------------------------------------------------------------------------
\* A file of good lines without doubles that gets a real hash for a key.
LEMMA GoodReplace ==
  ASSUME NEW env \in Seq(Lines), Unique(env), \A i \in 1 .. Len(env) : Good(env[i]),
         NEW key \in Keys, NEW value \in Values, Good(Line(key, value)),
         NEW new, new = ReplaceOrAppend(env, key, value)
  PROVE  /\ new \in Seq(Lines) /\ Unique(new) /\ \A i \in 1 .. Len(new) : Good(new[i])
         /\ Configured(new, key) = value
         /\ \A k : k # key => Configured(new, k) = Configured(env, k)
<1>1. /\ new \in Seq(Lines) /\ Unique(new) /\ Configured(new, key) = value
      /\ \A k : k # key => Configured(new, k) = Configured(env, k)
      /\ \A i \in 1 .. Len(new) : new[i] = Line(key, value) \/ \E j \in 1 .. Len(env) : new[i] = env[j]
  BY ReplaceConfigures
<1> QED
  BY <1>1

LEMMA RealIsGood ==
  ASSUME NEW key, NEW v, Real(key, v)
  PROVE  Good(Line(key, v)) /\ v \in Values /\ v # Blank
<1>1. v \in Hashes /\ v.is # "text" /\ v.is # "blank"
  BY DEF Real, Hashes
<1> QED
  BY <1>1 DEF Good, Line, Values, Blank

\* A file that a script may leave behind.
Sound(env) == env \in Seq(Lines) /\ Unique(env) /\ \A i \in 1 .. Len(env) : Good(env[i])

\* setup.ts gives the emitter and the vault the hashes the run holds, and
\* leaves all other contracts and tokens as they were; or the file is cut off.
LEMMA UpdateEffect ==
  ASSUME DeployInv, UpdateEnv
  PROVE  \E new : /\ agentEnv' \in Overwritten(new) /\ Sound(new)
                  /\ \A c \in Names : Configured(new, c) =
                       IF c \in Checked THEN run.results[c] ELSE Configured(agentEnv, c)
                  /\ \A c \in Checked : /\ Real(c, run.results[c])
                                        /\ run.results[c].of >= Configured(agentEnv, c).of
<1>. DEFINE r1 == run.results["revenue_emitter"]
            r2 == run.results["agent_vault"]
            e1 == ReplaceOrAppend(agentEnv, "revenue_emitter", r1)
            e2 == ReplaceOrAppend(e1, "agent_vault", r2)
            e3 == ReplaceOrAppend(e2, "AGENT_SECRET_KEY_PATH", Text)
<1>1. run.script = "setup" /\ run.at = "submitting" /\ run.todo = <<>> /\ agentEnv' \in Overwritten(e3)
  BY DEF UpdateEnv, Finished, SetupOrder
<1>2. ResultsReal /\ SetupInOrder
  BY DEF DeployInv, RunGood
<1>3. /\ DOMAIN run.results = Checked
      /\ \A c \in DOMAIN run.results : run.results[c].of >= Configured(agentEnv, c).of
  BY <1>1, <1>2 DEF SetupInOrder, SetupOrder
<1>4. /\ Real("revenue_emitter", r1) /\ Real("agent_vault", r2)
      /\ \A c \in Checked : Real(c, run.results[c])
  BY <1>2, <1>3 DEF ResultsReal, Checked
<1>5. /\ "revenue_emitter" \in Keys /\ "agent_vault" \in Keys /\ "AGENT_SECRET_KEY_PATH" \in Keys
  BY OrderAssumption, ContractsAre DEF Keys, Checked
<1>. HIDE DEF r1, r2
<1>6. /\ agentEnv \in Seq(Lines) /\ Unique(agentEnv)
      /\ \A i \in 1 .. Len(agentEnv) : Good(agentEnv[i])
  BY Types DEF DeployInv, FilesGood
<1>. HIDE DEF e1, e2, e3
<1>7. /\ e1 \in Seq(Lines) /\ Unique(e1) /\ \A i \in 1 .. Len(e1) : Good(e1[i])
      /\ Configured(e1, "revenue_emitter") = r1
      /\ \A k : k # "revenue_emitter" => Configured(e1, k) = Configured(agentEnv, k)
  <2>1. Good(Line("revenue_emitter", r1)) /\ r1 \in Values
    BY <1>4, RealIsGood
  <2> QED
    BY <1>5, <1>6, <2>1, GoodReplace DEF e1
<1>8. /\ e2 \in Seq(Lines) /\ Unique(e2) /\ \A i \in 1 .. Len(e2) : Good(e2[i])
      /\ Configured(e2, "agent_vault") = r2
      /\ \A k : k # "agent_vault" => Configured(e2, k) = Configured(e1, k)
  <2>1. Good(Line("agent_vault", r2)) /\ r2 \in Values
    BY <1>4, RealIsGood
  <2> QED
    BY <1>5, <1>7, <2>1, GoodReplace DEF e2
<1>9. "AGENT_SECRET_KEY_PATH" \notin Names
  BY ContractsAre DEF Names, TokenNames
<1>10. /\ e3 \in Seq(Lines) /\ Unique(e3) /\ \A i \in 1 .. Len(e3) : Good(e3[i])
       /\ \A k : k # "AGENT_SECRET_KEY_PATH" => Configured(e3, k) = Configured(e2, k)
  <2>1. Good(Line("AGENT_SECRET_KEY_PATH", Text)) /\ Text \in Values
    BY <1>9 DEF Good, Line, Text, Values
  <2> QED
    BY <1>5, <1>8, <2>1, GoodReplace DEF e3
<1>11. ASSUME NEW c \in Names
       PROVE  Configured(e3, c) =
                IF c \in Checked THEN run.results[c] ELSE Configured(agentEnv, c)
  <2>1. Configured(e3, c) = Configured(e2, c)
    BY <1>9, <1>10
  <2>2. CASE c = "agent_vault"
    BY <1>8, <2>1, <2>2 DEF Checked, r2
  <2>3. CASE c = "revenue_emitter"
    <3>1. Configured(e2, c) = Configured(e1, c)
      BY <1>8, <2>3
    <3> QED
      BY <1>7, <2>1, <2>3, <3>1 DEF Checked, r1
  <2>4. CASE c \notin Checked
    <3>1. c # "agent_vault" /\ c # "revenue_emitter"
      BY <2>4 DEF Checked
    <3> QED
      BY <1>7, <1>8, <2>1, <2>4, <3>1
  <2> QED
    BY <2>2, <2>3, <2>4 DEF Checked
<1>12. /\ agentEnv' \in Overwritten(e3) /\ Sound(e3)
       /\ \A c \in Names : Configured(e3, c) =
            IF c \in Checked THEN run.results[c] ELSE Configured(agentEnv, c)
       /\ \A c \in Checked : /\ Real(c, run.results[c])
                             /\ run.results[c].of >= Configured(agentEnv, c).of
  BY <1>1, <1>3, <1>4, <1>10, <1>11 DEF Sound
<1> QED
  BY <1>12

LEMMA UpdateStep ==
  ASSUME DeployInv, UpdateEnv
  PROVE  DeployInv'
<1>1. PICK new : agentEnv' \in Overwritten(new) /\ Sound(new)
  BY UpdateEffect
<1>2. /\ agentEnv' \in Seq(Lines) /\ Unique(agentEnv')
      /\ \A i \in 1 .. Len(agentEnv') : Good(agentEnv'[i])
  BY <1>1, CutOff DEF Overwritten, Sound
<1>3. /\ run' = Idle /\ hasEnv' \in BOOLEAN
      /\ UNCHANGED <<chain, wasm, keyFiles, localEnv, outerEnv, verified, runs>>
  BY DEF UpdateEnv
<1>4. localEnv' \in Seq(Lines) /\ \A i \in 1 .. Len(localEnv') : Good(localEnv'[i])
  BY <1>3, Types DEF DeployInv, FilesGood
<1> QED
  BY <1>2, <1>3, <1>4, WriteStep

\* deploy-cep18.ts writes the lines of the two tokens only; or the file is cut off.
LEMMA WriteEffect ==
  ASSUME DeployInv, WriteEnv
  PROVE  \E new : /\ agentEnv' \in Overwritten(new) /\ Sound(new)
                  /\ \A c \in Names :
                       /\ c \in Checked => Configured(new, c) = Configured(agentEnv, c)
                       /\ IsSet(agentEnv, c) => IsSet(new, c)
<1>. DEFINE has == DOMAIN run.results
            r1 == run.results["cep18"]
            r2 == run.results["cep18_test"]
            tokened == IF "cep18" \in has /\ Places(agentEnv, "cep18") # {}
                       THEN ReplaceOrAppend(agentEnv, "cep18", r1) ELSE agentEnv
            new == IF "cep18_test" \notin has THEN tokened
                   ELSE ReplaceOrAppend(tokened, "cep18_test", r2)
<1>1. agentEnv' = agentEnv \/ agentEnv' \in Overwritten(new)
  BY DEF WriteEnv
<1>2. Sound(agentEnv)
  BY Types DEF DeployInv, FilesGood, Sound
<1>3. /\ "cep18" \in has => Real("cep18", r1)
      /\ "cep18_test" \in has => Real("cep18_test", r2)
  BY DEF DeployInv, RunGood, ResultsReal
<1>4. "cep18" \in Keys /\ "cep18_test" \in Keys
  BY DEF Keys, Names, TokenNames
<1>. HIDE DEF new
<1>. DEFINE Kept(old, later) ==
              /\ Sound(later)
              /\ \A c \in Names :
                   /\ c \in Checked => Configured(later, c) = Configured(old, c)
                   /\ IsSet(old, c) => IsSet(later, c)
<1>5. ASSUME NEW old, Sound(old), NEW key \in {"cep18", "cep18_test"}, NEW v, Real(key, v)
      PROVE  Kept(old, ReplaceOrAppend(old, key, v))
  <2>. DEFINE later == ReplaceOrAppend(old, key, v)
  <2>1. Good(Line(key, v)) /\ v \in Values /\ v # Blank
    BY <1>5, RealIsGood
  <2>2. key \in Keys /\ key \notin Checked
    BY <1>4 DEF Checked
  <2>. HIDE DEF later
  <2>3. /\ later \in Seq(Lines) /\ Unique(later) /\ \A i \in 1 .. Len(later) : Good(later[i])
        /\ Configured(later, key) = v
        /\ \A k : k # key => Configured(later, k) = Configured(old, k)
    <3>1. old \in Seq(Lines) /\ Unique(old) /\ \A i \in 1 .. Len(old) : Good(old[i])
      BY <1>5 DEF Sound
    <3> QED
      BY <2>1, <2>2, <3>1, GoodReplace DEF later
  <2>4. Kept(old, later)
    BY <2>1, <2>2, <2>3 DEF IsSet, Sound
  <2> QED
    BY <2>4 DEF later
<1>. HIDE DEF r1, r2
<1>6. Kept(agentEnv, tokened)
  <2>1. CASE "cep18" \in has /\ Places(agentEnv, "cep18") # {}
    <3>1. tokened = ReplaceOrAppend(agentEnv, "cep18", r1)
      BY <2>1
    <3>2. Kept(agentEnv, ReplaceOrAppend(agentEnv, "cep18", r1))
      <4>. HIDE DEF Kept
      <4> QED
        BY <1>2, <1>3, <1>5, <2>1
    <3> QED
      BY <3>1, <3>2
  <2>2. CASE ~("cep18" \in has /\ Places(agentEnv, "cep18") # {})
    <3>1. tokened = agentEnv
      BY <2>2
    <3> QED
      BY <1>2, <3>1
  <2> QED
    BY <2>1, <2>2
<1>. HIDE DEF tokened, has
<1>7. Kept(agentEnv, new)
  <2>1. CASE "cep18_test" \notin has
    BY <1>6, <2>1 DEF new
  <2>2. CASE "cep18_test" \in has
    <3>1. new = ReplaceOrAppend(tokened, "cep18_test", r2)
      BY <2>2 DEF new
    <3>2. Kept(tokened, ReplaceOrAppend(tokened, "cep18_test", r2))
      <4>1. Sound(tokened)
        BY <1>6
      <4>. HIDE DEF Kept
      <4> QED
        BY <1>3, <1>5, <2>2, <4>1
    <3> QED
      BY <1>6, <3>1, <3>2
  <2> QED
    BY <2>1, <2>2
<1>8. CASE agentEnv' = agentEnv
  <2>1. Kept(agentEnv, agentEnv)
    BY <1>2
  <2> QED
    BY <1>8, <2>1 DEF Overwritten
<1>9. CASE agentEnv' \in Overwritten(new)
  BY <1>7, <1>9
<1> QED
  BY <1>1, <1>8, <1>9

LEMMA WriteEnvStep ==
  ASSUME DeployInv, WriteEnv
  PROVE  DeployInv'
<1>1. PICK new : agentEnv' \in Overwritten(new) /\ Sound(new)
  BY WriteEffect
<1>2. /\ agentEnv' \in Seq(Lines) /\ Unique(agentEnv')
      /\ \A i \in 1 .. Len(agentEnv') : Good(agentEnv'[i])
  BY <1>1, CutOff DEF Overwritten, Sound
<1>3. run' = Idle /\ UNCHANGED <<chain, disk, localEnv, outerEnv, verified, runs>>
  BY DEF WriteEnv
<1>4. localEnv' \in Seq(Lines) /\ \A i \in 1 .. Len(localEnv') : Good(localEnv'[i])
  BY <1>3, Types DEF DeployInv, FilesGood
<1> QED
  BY <1>2, <1>3, <1>4, Types, WriteStep DEF disk

LEMMA RunStays ==
  ASSUME DeployInv, UNCHANGED <<deploys, run, agentEnv>>
  PROVE  RunGood'
<1>1. /\ ResultsReal /\ SetupInOrder
      /\ run.at = "waiting" =>
           run.todo # <<>> /\ Real(Head(run.todo), Hash("deploy", run.deploy, TRUE))
  BY DEF DeployInv, RunGood
<1> QED
  BY <1>1 DEF RunGood, ResultsReal, Real, SetupInOrder

LEMMA RecordByHandStep ==
  ASSUME DeployInv, NEW typed \in {<<SetupOrder[1]>>, <<SetupOrder[2]>>, SetupOrder},
         RecordByHand(typed)
  PROVE  DeployInv'
<1>. DEFINE lines == [i \in 1 .. Len(typed) |-> Line(typed[i], Typed)]
            hand == <<HandLine>>
<1>1. /\ outerEnv' = outerEnv \o hand \o lines /\ runs < MaxRuns /\ runs' = runs + 1
      /\ verified' = {} /\ UNCHANGED <<chain, run, disk, localEnv, agentEnv>>
  BY DEF RecordByHand
<1>2. typed \in Seq(Names)
  <2>1. SetupOrder[1] \in Names /\ SetupOrder[2] \in Names
    BY ContractLists DEF SetupOrder, Checked
  <2>2. <<SetupOrder[1]>> \in Seq(Names) /\ <<SetupOrder[2]>> \in Seq(Names)
    BY <2>1
  <2>3. SetupOrder \in Seq(Names)
    BY ContractLists
  <2> QED
    BY <2>2, <2>3, Zenon
<1>3. lines \in Seq(Lines)
  <2>1. Len(typed) \in Nat /\ \A i \in 1 .. Len(typed) : typed[i] \in Names
    BY <1>2, LenProperties, ElementOfSeq
  <2>2. \A i \in 1 .. Len(typed) : Line(typed[i], Typed) \in Lines
    BY <2>1, ContractsAre DEF Line, Lines, Values
  <2>3. lines \in [1 .. Len(typed) -> Lines]
    BY <2>2
  <2>. HIDE DEF lines
  <2> QED
    BY <2>1, <2>3
<1>4. outerEnv' \in Seq(Lines)
  <2>1. hand \in Seq(Lines)
    <3>1. HandLine \in Lines
      BY MarksAre
    <3> QED
      BY <3>1
  <2>. HIDE DEF lines, hand
  <2>2. outerEnv \o hand \in Seq(Lines)
    BY <2>1, Types, ConcatProperties
  <2> QED
    BY <1>1, <1>3, <2>2, ConcatProperties
<1>5. runs' \in 0 .. MaxRuns
  BY <1>1, Types, BoundsAssumption
<1>6. RunGood'
  BY <1>1, RunStays DEF chain
<1> QED
  BY <1>1, <1>4, <1>5, <1>6, Types, QuietStep DEF disk

\* What it saw are values of the file's lines.
LEMMA VerifyStep ==
  ASSUME DeployInv, VerifyStrict
  PROVE  DeployInv'
<1>1. verified' = {Configured(agentEnv, c) : c \in Checked} /\ UNCHANGED <<chain, run, disk, envs, runs>>
  BY DEF VerifyStrict
<1>2. verified' \in SUBSET Values
  <2>1. ASSUME NEW c \in Checked PROVE Configured(agentEnv, c) \in Values
    <3>1. Configured(agentEnv, c) = Blank \/ Real(c, Configured(agentEnv, c))
      BY ContractLists, ConfiguredOf
    <3> QED
      BY <3>1, RealIsGood DEF Values
  <2> QED
    BY <1>1, <2>1
<1>3. RunGood'
  BY <1>1, RunStays DEF chain, envs
<1> QED
  BY <1>1, <1>2, <1>3, Types, QuietStep DEF disk, envs

LEMMA DeployInitially ==
  ASSUME DeployInit
  PROVE  DeployInv
<1>1. /\ deploys = <<>> /\ Len(deploys) = 0 /\ outerEnv = <<>> /\ verified = {} /\ runs = 0
      /\ named = [t \in TokenNames |-> 0] /\ run = Idle /\ hasEnv \in BOOLEAN
      /\ \/ wasm = {} /\ keyFiles = {}
         \/ wasm = Names /\ keyFiles = {"agent.pem"}
  BY EmptySeq DEF DeployInit
<1>. DEFINE l1 == Line(Order[1], Blank)
            l2 == Line("cep18", Blank)
            template == <<HandLine, l1, l2>>
            hand == <<HandLine>>
<1>2. (localEnv = <<>> \/ localEnv = hand) /\ (agentEnv = <<>> \/ agentEnv = template)
  BY DEF DeployInit
<1>3. Order[1] \in Contracts
  <2>1. \E i \in 1 .. Len(Order) : Order[i] = "agent_vault"
    BY OrderAssumption DEF Checked, Contracts
  <2> QED
    BY <2>1, ContractsAre
<1>4. /\ l1 \in Lines /\ l2 \in Lines /\ HandLine \in Lines
      /\ Good(l1) /\ Good(l2) /\ Good(HandLine)
  <2>1. l1 \in Lines /\ l2 \in Lines
    BY <1>3, ContractsAre DEF Line, Lines, Keys, Names, TokenNames, Values
  <2>2. Good(l1) /\ Good(l2)
    BY DEF Good, Line, Blank
  <2>3. Good(HandLine)
    BY MarksAre DEF Good, HandLine, Line, Text
  <2> QED
    BY <2>1, <2>2, <2>3, MarksAre
<1>5. /\ l1.key = Order[1] /\ l2.key = "cep18" /\ HandLine.key = "# by hand"
      /\ Order[1] \in {"revenue_emitter", "agent_vault", "stakeholder_deposit"}
  BY <1>3, ContractsAre, MarksAre DEF Line
<1>. HIDE DEF l1, l2
<1>6. Sound(template)
  <2>1. template \in Seq(Lines) /\ Len(template) = 3
    BY <1>4
  <2>2. \A i \in 1 .. 3 : i = 1 \/ i = 2 \/ i = 3
    OBVIOUS
  <2>3. template[1] = HandLine /\ template[2] = l1 /\ template[3] = l2
    OBVIOUS
  <2>. HIDE DEF template
  <2>4. \A i \in 1 .. 3 : Good(template[i])
    BY <1>4, <2>2, <2>3
  <2>5. \A i, j \in 1 .. 3 : template[i].key = template[j].key => i = j
    BY <1>5, <2>2, <2>3
  <2> QED
    BY <2>1, <2>4, <2>5 DEF Unique, Sound
<1>7. Sound(hand)
  <2>1. hand \in Seq(Lines) /\ Len(hand) = 1 /\ hand[1] = HandLine
    BY <1>4
  <2>. HIDE DEF hand
  <2>2. \A i \in 1 .. Len(hand) : i = 1
    BY <2>1
  <2> QED
    BY <1>4, <2>1, <2>2 DEF Sound, Unique
<1>. HIDE DEF template, hand
<1>8. Sound(localEnv) /\ Sound(agentEnv)
  BY <1>2, <1>6, <1>7, CutOff DEF Sound
<1>9. FilesGood
  BY <1>1, <1>8, BoundsAssumption DEF FilesGood, Sound
<1>10. DeployTypeOK
  <2>1. deploys \in Seq([of : Names, status : {"pending", "installed", "reverted"}])
        /\ outerEnv \in Seq(Lines)
    BY <1>1, EmptySeq
  <2>2. named \in [TokenNames -> 0 .. MaxDeploys] /\ runs \in 0 .. MaxRuns
    BY <1>1, BoundsAssumption
  <2> QED
    BY <1>1, <1>8, <2>1, <2>2, IdleIs DEF DeployTypeOK, Sound
<1>11. RunGood
  <2>1. run \in Runs /\ DOMAIN run.results = {} /\ run.at = "idle" /\ run.script = "none"
    BY <1>1, IdleIs
  <2> QED
    BY <2>1 DEF RunGood, ResultsReal, SetupInOrder
<1> QED
  BY <1>9, <1>10, <1>11 DEF DeployInv

\* The invariant is inductive: a case for every action.
LEMMA DeployInductive ==
  ASSUME DeployInv, [DeployNext]_deployVars
  PROVE  DeployInv'
<1>1. CASE UNCHANGED deployVars
  <2>1. /\ UNCHANGED <<chain, run, wasm, keyFiles, hasEnv, localEnv, agentEnv, outerEnv, verified, runs>>
        /\ UNCHANGED deploys
    BY <1>1 DEF deployVars, chain, disk, envs
  <2>2. RunGood'
    BY <2>1, RunStays
  <2> QED
    BY <2>1, <2>2, Types, QuietStep
<1>2. CASE DeployNext
  <2>1. CASE \E todo \in {Order} \cup {<<c>> : c \in Contracts}, skipBuild, skipDeploy \in BOOLEAN :
               StartDeploy(todo, skipBuild, skipDeploy)
    <3>1. PICK todo \in {Order} \cup {<<c>> : c \in Contracts}, skipBuild \in BOOLEAN, skipDeploy \in BOOLEAN :
            StartDeploy(todo, skipBuild, skipDeploy)
      BY <2>1
    <3> QED
      BY <3>1, StartDeployStep
  <2>2. CASE \E todo \in {<<"cep18", "cep18_test">>, <<"cep18">>, <<"cep18_test">>, <<>>} : StartCep18(todo)
    BY <2>2, StartCep18Step
  <2>3. CASE \E d \in 1 .. Len(deploys) : Execute(d)
    BY <2>3, ExecuteStep
  <2>4. CASE \E typed \in {<<SetupOrder[1]>>, <<SetupOrder[2]>>, SetupOrder} : RecordByHand(typed)
    BY <2>4, RecordByHandStep
  <2>5. CASE BuildContracts \/ RecoverHashes \/ PollFinds \/ PollFallsBack \/ RecordHashes
    BY <2>5, BuildStep, RecoverStep, PollStep, RecordStep
  <2>6. CASE StartSetup \/ FindOrGenerateKey \/ SetupWaited \/ UpdateEnv
    BY <2>6, StartSetupStep, KeyStep, PollStep, UpdateStep
  <2>7. CASE DeployQueried \/ QueryNamedKeys \/ WriteEnv \/ Submit \/ Stop \/ VerifyStrict
    BY <2>7, DeployQueriedStep, QueryStep, WriteEnvStep, SubmitStep, StopStep, VerifyStep
  <2> QED
    BY <1>2, <2>1, <2>2, <2>3, <2>4, <2>5, <2>6, <2>7 DEF DeployNext
<1> QED
  BY <1>1, <1>2

LEMMA DeployInvariant == DeploySpec => []DeployInv
  BY DeployInitially, DeployInductive, PTL DEF DeploySpec

\* What a strict verification saw are hashes of deploys that the node took.
VerifiedGood == \A v \in verified : v.is \in {"contract", "deploy"} /\ v.of \in 1 .. Len(deploys)

LEMMA VerifiedStep ==
  ASSUME DeployInv, VerifiedGood, [DeployNext]_deployVars
  PROVE  VerifiedGood'
<1>1. CASE UNCHANGED <<deploys, verified>>
  BY <1>1 DEF VerifiedGood
<1>2. CASE verified' = {}
  BY <1>2 DEF VerifiedGood
<1>3. CASE Submit \/ \E d \in 1 .. Len(deploys) : Execute(d)
  <2>1. verified' = verified /\ Len(deploys') \in Nat /\ Len(deploys) <= Len(deploys')
    <3>1. CASE Submit
      <4>. DEFINE new == [of |-> Head(run.todo), status |-> "pending"]
      <4>1. deploys' = Append(deploys, new) /\ verified' = verified
        BY <3>1 DEF Submit
      <4>2. new \in [of : Names, status : {"pending", "installed", "reverted"}]
        <5>1. run.todo \in Seq(Names) /\ run.todo # <<>>
          BY <3>1, Types, RunIs DEF Submit
        <5> QED
          BY <5>1
      <4>. HIDE DEF new
      <4>3. Len(deploys') = Len(deploys) + 1
        BY <4>1, <4>2, Types, AppendProperties
      <4> QED
        BY <4>1, <4>3, Types
    <3>2. CASE \E d \in 1 .. Len(deploys) : Execute(d)
      <4>1. PICK d \in 1 .. Len(deploys) : Execute(d)
        BY <3>2
      <4>2. PICK status \in {"installed", "reverted"} : deploys' = [deploys EXCEPT ![d].status = status]
        BY <4>1 DEF Execute
      <4>3. Len(deploys') = Len(deploys)
        BY <4>2, Types
      <4> QED
        BY <4>1, <4>3, Types DEF Execute
    <3> QED
      BY <1>3, <3>1, <3>2
  <2>2. \A v \in verified : v.of \in 1 .. Len(deploys) => v.of \in 1 .. Len(deploys')
    BY <2>1, Types
  <2> QED
    BY <2>1, <2>2 DEF VerifiedGood
<1>4. CASE VerifyStrict
  <2>1. /\ verified' = {Configured(agentEnv, c) : c \in Checked} /\ deploys' = deploys
        /\ "warn" \notin checkEnv(TRUE)
    BY <1>4 DEF VerifyStrict, Passes, chain
  <2>2. ASSUME NEW c \in Checked
        PROVE  /\ Configured(agentEnv, c).is \in {"contract", "deploy"}
               /\ Configured(agentEnv, c).of \in 1 .. Len(deploys)
    <3>1. IsSet(agentEnv, c)
      BY <2>1 DEF checkEnv
    <3>2. Real(c, Configured(agentEnv, c))
      BY <3>1, ContractLists, ConfiguredOf DEF IsSet
    <3> QED
      BY <3>2 DEF Real, Hashes
  <2> QED
    BY <2>1, <2>2 DEF VerifiedGood
<1>5. CASE \/ \E todo \in {Order} \cup {<<c>> : c \in Contracts}, skipBuild, skipDeploy \in BOOLEAN :
               StartDeploy(todo, skipBuild, skipDeploy)
           \/ StartSetup
           \/ \E todo \in {<<"cep18", "cep18_test">>, <<"cep18">>, <<"cep18_test">>, <<>>} : StartCep18(todo)
           \/ \E typed \in {<<SetupOrder[1]>>, <<SetupOrder[2]>>, SetupOrder} : RecordByHand(typed)
  <2>1. verified' = {}
    BY <1>5 DEF StartDeploy, StartSetup, StartCep18, RecordByHand, Start
  <2> QED
    BY <1>2, <2>1
<1>6. CASE \/ BuildContracts \/ RecoverHashes \/ PollFinds \/ PollFallsBack \/ RecordHashes
           \/ FindOrGenerateKey \/ SetupWaited \/ UpdateEnv \/ DeployQueried \/ QueryNamedKeys
           \/ WriteEnv \/ Stop
  <2>1. UNCHANGED <<deploys, verified>>
    BY <1>6 DEF BuildContracts, RecoverHashes, PollFinds, PollFallsBack, RecordHashes,
       FindOrGenerateKey, SetupWaited, UpdateEnv, DeployQueried, QueryNamedKeys, WriteEnv, Stop, chain
  <2> QED
    BY <1>1, <2>1
<1>7. CASE UNCHANGED deployVars
  BY <1>1, <1>7 DEF deployVars, chain
<1> QED
  BY <1>3, <1>4, <1>5, <1>6, <1>7 DEF DeployNext

LEMMA VerifiedStaysGood == DeploySpec => []VerifiedGood
<1>1. DeployInit => VerifiedGood
  BY DEF DeployInit, VerifiedGood
<1>2. DeployInv /\ VerifiedGood /\ [DeployNext]_deployVars => VerifiedGood'
  BY VerifiedStep
<1> QED
  BY <1>1, <1>2, DeployInvariant, PTL DEF DeploySpec

-----------------------------------------------------------------------------
(***************************************************************************)
(* What the invariant says of the files.                                   *)
(***************************************************************************)

\* Whatever deploy.ts, setup.ts, deploy-cep18.ts and record-deployment.ts wrote,
\* and whichever of them died on the way: a line of a contract names a deploy of
\* it which the node accepted, and a contract's hash is of an installed one.  A
\* strict verification passes on such hashes only.
THEOREM RecordedStaysReal == DeploySpec => []RecordedIsReal
<1>1. DeployInv /\ VerifiedGood => RecordedIsReal
  <2>. SUFFICES ASSUME DeployInv, VerifiedGood
                PROVE  RecordedIsReal
    OBVIOUS
  <2>1. DeployTypeOK
    BY DEF DeployInv
  <2>2. /\ \A i \in 1 .. Len(localEnv) : Good(localEnv[i])
        /\ \A i \in 1 .. Len(agentEnv) : Good(agentEnv[i])
    BY DEF DeployInv, FilesGood
  <2> QED
    BY <2>1, <2>2 DEF RecordedIsReal, Good, Real, VerifiedGood
<1> QED
  BY <1>1, DeployInvariant, VerifiedStaysGood, PTL

Forward ==
  \/ agentEnv' = <<>>
  \/ \A c \in Names :
       /\ Cardinality(Places(agentEnv', c)) <= 1
       /\ IsSet(agentEnv, c) => IsSet(agentEnv', c)
       /\ c \in Checked =>
            Configured(agentEnv', c).of >= Configured(agentEnv, c).of

LEMMA AgentForward ==
  ASSUME DeployInv, [DeployNext]_deployVars, NEW c \in Names, agentEnv' # <<>>
  PROVE  /\ IsSet(agentEnv, c) => IsSet(agentEnv', c)
         /\ c \in Checked => Configured(agentEnv', c).of >= Configured(agentEnv, c).of
<1>1. Configured(agentEnv, c).of \in Int
  BY ConfiguredOf, Types
<1>2. CASE UpdateEnv
  <2>1. /\ Configured(agentEnv', c) =
             IF c \in Checked THEN run.results[c] ELSE Configured(agentEnv, c)
        /\ c \in Checked => /\ Real(c, run.results[c])
                            /\ run.results[c].of >= Configured(agentEnv, c).of
    BY <1>2, UpdateEffect DEF Overwritten
  <2>2. CASE c \in Checked
    <3>1. run.results[c] # Blank
      BY <2>1, <2>2, RealIsGood
    <3> QED
      BY <2>1, <2>2, <3>1 DEF IsSet
  <2>3. CASE c \notin Checked
    BY <2>1, <2>3 DEF IsSet
  <2> QED
    BY <2>2, <2>3
<1>3. CASE WriteEnv
  <2>1. /\ c \in Checked => Configured(agentEnv', c) = Configured(agentEnv, c)
        /\ IsSet(agentEnv, c) => IsSet(agentEnv', c)
    BY <1>3, WriteEffect DEF Overwritten
  <2> QED
    BY <1>1, <2>1
<1>4. CASE ~UpdateEnv /\ ~WriteEnv
  <2>1. agentEnv' = agentEnv
    BY <1>4 DEF DeployNext, deployVars, envs, StartDeploy, StartSetup, StartCep18, BuildContracts,
                RecoverHashes, PollFinds, PollFallsBack, FindOrGenerateKey, SetupWaited, RecordHashes,
                DeployQueried, QueryNamedKeys, Submit, Stop, Execute, RecordByHand, VerifyStrict
  <2> QED
    BY <1>1, <2>1 DEF IsSet
<1> QED
  BY <1>2, <1>3, <1>4

\* agent/.env moves forward: whichever script changes it leaves one line per contract,
\* keeps set what is set and never goes back to an earlier deploy of the emitter or the
\* vault; or else the write was cut off and the whole file is gone.
THEOREM EnvStaysForward == DeploySpec => EnvMovesForward
<1>1. ASSUME DeployInv, DeployInv', [DeployNext]_deployVars
      PROVE  Forward
  <2>. SUFFICES ASSUME agentEnv' # <<>>, NEW c \in Names
                PROVE  /\ Cardinality(Places(agentEnv', c)) <= 1
                       /\ IsSet(agentEnv, c) => IsSet(agentEnv', c)
                       /\ c \in Checked =>
                            Configured(agentEnv', c).of >= Configured(agentEnv, c).of
    BY DEF Forward
  <2>1. Cardinality(Places(agentEnv', c)) <= 1
    <3>1. agentEnv' \in Seq(Lines) /\ Unique(agentEnv')
      BY <1>1 DEF DeployInv, DeployTypeOK, FilesGood
    <3>2. CASE \E i \in 1 .. Len(agentEnv') : agentEnv'[i].key = c
      <4>1. PICK i \in 1 .. Len(agentEnv') : agentEnv'[i].key = c
        BY <3>2
      <4>2. Places(agentEnv', agentEnv'[i].key) = {i}
        BY <3>1, ConfiguredIs
      <4>3. Places(agentEnv', c) = {i}
        BY <4>1, <4>2
      <4>4. Cardinality({i}) = 1
        BY FS_Singleton
      <4>5. 1 <= 1
        OBVIOUS
      <4> QED
        BY <4>3, <4>4, <4>5
    <3>3. CASE \A i \in 1 .. Len(agentEnv') : agentEnv'[i].key # c
      <4>1. Places(agentEnv', c) = {}
        BY <3>3 DEF Places
      <4> QED
        BY <4>1, FS_EmptySet
    <3> QED
      BY <3>2, <3>3
  <2> QED
    BY <1>1, <2>1, AgentForward
<1>2. DeployInv /\ DeployInv' /\ [DeployNext]_deployVars => [Forward]_agentEnv
  BY <1>1
<1>3. DeploySpec => [][Forward]_agentEnv
  BY <1>2, DeployInvariant, PTL DEF DeploySpec
<1> QED
  BY <1>3 DEF EnvMovesForward, Forward

-----------------------------------------------------------------------------
(***************************************************************************)
(* Part 2: the pair selector.                                              *)
(***************************************************************************)

\* A candidate as Evaluate makes it.
Candidate == [token : Tokens, impact : Nat \ {0}, recommendation : Recommendations,
              yieldApy : Nat]

\* b is what the selection should be after the candidates up to the k-th.
IsBest(b, found, k) ==
  \/ b = NoPair /\ \A i \in 1 .. k : ~Safe(found[i])
  \/ \E i \in 1 .. k : /\ b = found[i] /\ Safe(found[i])
                       /\ \A j \in 1 .. k : Safe(found[j]) => ~Before(found[j], found[i])

LEMMA CandidateIsPair ==
  ASSUME NEW c \in Candidate
  PROVE  c # NoPair /\ c.token \in Tokens /\ c.yieldApy \in Nat
<1>1. c.token # "none" /\ NoPair.token = "none"
  BY NamesAssumption DEF Candidate, NoPair
<1> QED
  BY <1>1 DEF Candidate

\* The comparison of the sort is an order, so that a fold of it finds the first.
LEMMA BeforeIsOrder ==
  ASSUME NEW a \in Candidate, NEW b \in Candidate, NEW c \in Candidate
  PROVE  ~Before(a, a) /\ (Before(a, b) /\ Before(b, c) => Before(a, c))
  BY CandidateIsPair DEF Before

LEMMA BetterIsBest ==
  ASSUME NEW found \in Seq(Candidate), NEW k \in 1 .. Len(found), NEW b,
         IsBest(b, found, k - 1)
  PROVE  IsBest(Better(b, found[k]), found, k)
<1>. DEFINE c == found[k]
<1>0. k \in Nat /\ k - 1 \in Nat /\ \A i \in 1 .. k : i \in 1 .. k - 1 \/ i = k
  OBVIOUS
<1>1. \A i \in 1 .. k : found[i] \in Candidate
  OBVIOUS
<1>2. k \in 1 .. k /\ \A i \in 1 .. k - 1 : i \in 1 .. k
  OBVIOUS
<1>3. CASE ~Safe(c)
  <2>1. Better(b, c) = b
    BY <1>3 DEF Better
  <2> QED
    BY <1>0, <1>2, <1>3, <2>1 DEF IsBest
<1>4. CASE Safe(c) /\ b = NoPair
  <2>1. Better(b, c) = c
    BY <1>4 DEF Better
  <2>2. \A i \in 1 .. k - 1 : ~Safe(found[i])
    <3>1. \A i \in 1 .. k - 1 : b # found[i]
      BY <1>1, <1>2, <1>4, CandidateIsPair
    <3> QED
      BY <3>1 DEF IsBest
  <2>3. ~Before(c, c)
    BY <1>1, <1>2, BeforeIsOrder
  <2> QED
    BY <1>0, <1>2, <1>4, <2>1, <2>2, <2>3 DEF IsBest
<1>5. CASE Safe(c) /\ b # NoPair
  <2>1. PICK i \in 1 .. k - 1 :
          /\ b = found[i] /\ Safe(found[i])
          /\ \A j \in 1 .. k - 1 : Safe(found[j]) => ~Before(found[j], found[i])
    BY <1>5 DEF IsBest
  <2>2. CASE Before(c, b)
    <3>1. Better(b, c) = c
      BY <1>5, <2>2 DEF Better
    <3>2. ASSUME NEW j \in 1 .. k, Safe(found[j])
          PROVE  ~Before(found[j], c)
      <4>1. ~Before(c, c)
        BY <1>1, <1>2, BeforeIsOrder
      <4>2. Before(found[j], c) => Before(found[j], b)
        BY <1>1, <1>2, <2>1, <2>2, BeforeIsOrder
      <4> QED
        BY <1>0, <2>1, <3>2, <4>1, <4>2
    <3> QED
      BY <1>2, <1>5, <3>1, <3>2 DEF IsBest
  <2>3. CASE ~Before(c, b)
    <3>1. Better(b, c) = b
      BY <1>5, <2>3 DEF Better
    <3>2. \A j \in 1 .. k : Safe(found[j]) => ~Before(found[j], found[i])
      BY <1>0, <2>1, <2>3
    <3> QED
      BY <1>2, <2>1, <3>1, <3>2 DEF IsBest
  <2> QED
    BY <2>2, <2>3
<1> QED
  BY <1>3, <1>4, <1>5

\* What g has for a set of places if it carries out the fold of Best.
Sorts(g, found) ==
  g = [s \in SUBSET DOMAIN found |->
         IF s = {} THEN NoPair ELSE Better(g[s \ {Max(s)}], found[Max(s)])]

LEMMA BestSorts ==
  ASSUME NEW found, \E g : Sorts(g, found)
  PROVE  \E g : Sorts(g, found) /\ Best(found) = g[DOMAIN found]
  BY DEF Best, FoldLeft, MapThenFoldSet, Sorts

LEMMA SortExists ==
  ASSUME NEW found \in Seq(Candidate)
  PROVE  \E g : Sorts(g, found)
<1>. DEFINE B == Candidate \cup {NoPair}
            step == [p \in Candidate \X B |-> Better(p[2], p[1])]
            n == Len(found)
<1>1. step \in [Candidate \X B -> B]
  BY DEF Better
<1>2. n \in Nat /\ DOMAIN found = 1 .. n /\ found \in [1 .. n -> Candidate] /\ NoPair \in B
  OBVIOUS
<1>3. PICK g : g \in [SUBSET (1 .. n) -> B] /\ Folds(g, step, NoPair, found, SUBSET (1 .. n))
  <2>. HIDE DEF step, B, n
  <2> QED
    BY <1>1, <1>2, FoldExists
<1>4. \A s \in SUBSET (1 .. n) : s # {} => Max(s) \in 1 .. n /\ s \ {Max(s)} \in SUBSET (1 .. n)
  BY <1>2, MaxWithin
<1>5. \A c \in Candidate, b \in B : step[<<c, b>>] = Better(b, c)
  OBVIOUS
<1>6. \A s \in SUBSET (1 .. n) : s # {} =>
        step[<<found[Max(s)], g[s \ {Max(s)}]>>] = Better(g[s \ {Max(s)}], found[Max(s)])
  <2>. HIDE DEF step, B, n
  <2> QED
    BY <1>2, <1>3, <1>4, <1>5
<1>7. Sorts(g, found)
  <2>. HIDE DEF step, B, n
  <2> QED
    BY <1>2, <1>3, <1>6 DEF Sorts, Folds
<1> QED
  BY <1>7

\* The fold finds the first of the sort among the safe candidates, if any.
LEMMA BestIsFirst ==
  ASSUME NEW found \in Seq(Candidate)
  PROVE  IsBest(Best(found), found, Len(found))
<1>1. PICK g : Sorts(g, found) /\ Best(found) = g[DOMAIN found]
  BY SortExists, BestSorts
<1>. DEFINE n == Len(found)
            T == {k \in Nat : k <= n => IsBest(g[1 .. k], found, k)}
<1>2. n \in Nat /\ DOMAIN found = 1 .. n
  OBVIOUS
<1>3. 0 \in T
  <2>1. 1 .. 0 = {} /\ {} \in SUBSET DOMAIN found
    OBVIOUS
  <2>2. g[{}] = NoPair
    BY <1>1, <2>1 DEF Sorts
  <2> QED
    BY <2>1, <2>2 DEF IsBest
<1>4. ASSUME NEW k \in T
      PROVE  k + 1 \in T
  <2>. SUFFICES ASSUME k + 1 <= n
                PROVE  IsBest(g[1 .. k + 1], found, k + 1)
    OBVIOUS
  <2>1. k \in Nat /\ IsBest(g[1 .. k], found, k)
    BY <1>2
  <2>. DEFINE m == k + 1
  <2>2. m \in 1 .. n /\ m - 1 = k
    BY <1>2, <2>1
  <2>. HIDE DEF m, n
  <2>3. /\ 1 .. m \in SUBSET DOMAIN found /\ 1 .. m # {}
        /\ Max(1 .. m) = m /\ (1 .. m) \ {m} = 1 .. k
    BY <1>2, <2>2, Intervals
  <2>4. g[1 .. m] = Better(g[1 .. k], found[m])
    BY <1>1, <2>3 DEF Sorts
  <2>5. IsBest(g[1 .. m], found, m)
    BY <2>1, <2>2, <2>4, BetterIsBest DEF n
  <2> QED
    BY <2>5 DEF m
<1>5. T = Nat
  <2>1. T \subseteq Nat
    OBVIOUS
  <2>. HIDE DEF T
  <2> QED
    BY <1>3, <1>4, <2>1, SetInduction
<1>6. n \in T
  BY <1>2, <1>5
<1> QED
  BY <1>1, <1>2, <1>6

-----------------------------------------------------------------------------
\* While pairs are looked at, each token is listed or a candidate, once.
Distinct ==
  /\ listed # Unreachable =>
       /\ \A i, j \in DOMAIN listed : listed[i] = listed[j] => i = j
       /\ \A i \in DOMAIN listed, j \in DOMAIN candidates : listed[i] # candidates[j].token
  /\ \A i, j \in DOMAIN candidates : candidates[i].token = candidates[j].token => i = j

\* What the analyst makes of the selection, once there is one.
TradeFollows ==
  trade # Undecided => selection # "running" /\ trade \in Proposable[Quoted]

PairInv ==
  /\ ChoiceIsBest
  /\ candidates \in Seq(Candidate)
  /\ listed = Unreachable => candidates = <<>>
  /\ Distinct
  /\ TradeFollows

\* What is proposed for a token: a trade for it, except that the LLM names a token
\* of its own and the fallback sCSPR.
LEMMA ProposableIs ==
  ASSUME NEW t \in Tokens, NEW x \in Proposable[t]
  PROVE  \/ x = Nothing
         \/ /\ x \in [by : {"user", "heuristic", "fallback", "llm"}, token : Tokens]
            /\ \/ x.by = "llm" \/ x.token = t
               \/ x.by = "fallback" /\ x.token = "sCSPR"
<1>1. CASE x = Nothing
  BY <1>1
<1>2. ASSUME x # Nothing
      PROVE  /\ x \in [by : {"user", "heuristic", "fallback", "llm"}, token : Tokens]
             /\ \/ x.by = "llm" \/ x.token = t
                \/ x.by = "fallback" /\ x.token = "sCSPR"
  <2>1. PICK i \in Inputs : i.selected = t /\ Kind(i) = "dex" /\ x = Trade(i)
    BY <1>2 DEF Proposable
  <2>2. /\ i.llm.kind \in {"unused", "failed", "answered"} /\ i.llm.token \in Tokens
        /\ i.selected \in Tokens
    BY DEF Inputs, LLMAnswers
  <2>3. x.by = Author(i) /\ x.token = Final(i).token /\ x = [by |-> x.by, token |-> x.token]
    BY <2>1 DEF Trade
  <2>4. CASE i.forced = "none"
    <3>1. Final(i) = Reasoned(i)
      BY <2>4 DEF Final
    <3>2. CASE i.llm.kind = "unused"
      <4>1. Final(i).token = i.selected /\ Author(i) = "heuristic"
        BY <2>4, <3>1, <3>2 DEF Reasoned, Heuristic, Decision, Author
      <4> QED
        BY <2>1, <2>2, <2>3, <4>1
    <3>3. CASE i.llm.kind = "failed"
      <4>1. Final(i).token = "sCSPR" /\ Author(i) = "fallback"
        BY <2>4, <3>1, <3>3 DEF Reasoned, Fallback, Decision, Author
      <4> QED
        BY <2>3, <4>1, TokensAssumption
    <3>4. CASE i.llm.kind = "answered"
      <4>1. Final(i).token = i.llm.token /\ Author(i) = "llm"
        BY <2>4, <3>1, <3>4 DEF Reasoned, LLMDecision, Decision, Author
      <4> QED
        BY <2>2, <2>3, <4>1
    <3> QED
      BY <2>2, <3>2, <3>3, <3>4
  <2>5. CASE i.forced # "none"
    <3>1. Author(i) = "user" /\ Final(i).token = ForcedToken(i) /\ Final(i).action = ForcedAction(i)
      BY <2>5 DEF Author, Final, Decision
    <3>2. i.forced # "hold" /\ ForcedAction(i) # "stake"
      BY <2>1, <3>1 DEF Kind, AmountIn
    <3>3. ForcedToken(i) = i.selected
      BY <3>2 DEF ForcedToken
    <3> QED
      BY <2>1, <2>2, <2>3, <3>1, <3>3
  <2> QED
    BY <2>4, <2>5
<1> QED
  BY <1>1, <1>2

LEMMA ListedIs ==
  ASSUME PairTypeOK, listed # <<>>, Head(listed) \in Tokens \cup {Foreign}
  PROVE  /\ listed # Unreachable /\ listed \in Seq(Tokens \cup {Foreign})
         /\ Tail(listed) \in Seq(Tokens \cup {Foreign}) /\ Tail(listed) # Unreachable
         /\ DOMAIN Tail(listed) = 1 .. Len(listed) - 1 /\ Len(listed) \in Nat
         /\ Head(listed) = listed[1] /\ DOMAIN listed = 1 .. Len(listed) /\ 1 \in DOMAIN listed
         /\ \A i \in 1 .. Len(listed) - 1 : Tail(listed)[i] = listed[i + 1]
<1>1. "unreachable" \notin Tokens \cup {Foreign}
  BY NamesAssumption DEF Foreign
<1>2. Head(Unreachable) = "unreachable" /\ Unreachable[1] = "unreachable" /\ Len(Unreachable) = 1
  BY DEF Unreachable
<1>3. listed # Unreachable /\ listed \in Seq(Tokens \cup {Foreign})
  BY <1>1, <1>2 DEF PairTypeOK
<1>4. /\ Tail(listed) \in Seq(Tokens \cup {Foreign}) /\ Len(Tail(listed)) = Len(listed) - 1
      /\ Head(listed) = listed[1] /\ \A i \in 1 .. Len(listed) - 1 : Tail(listed)[i] = listed[i + 1]
  BY <1>3, HeadTailProperties
<1>5. Tail(listed) # Unreachable
  <2>. SUFFICES ASSUME Tail(listed) = Unreachable
                PROVE  FALSE
    OBVIOUS
  <2>1. Tail(listed)[1] \in Tokens \cup {Foreign}
    BY <1>2, <1>4, ElementOfSeq
  <2> QED
    BY <1>1, <1>2, <2>1
<1>6. Len(listed) \in Nat /\ Len(listed) # 0 /\ DOMAIN listed = 1 .. Len(listed)
      /\ DOMAIN Tail(listed) = 1 .. Len(Tail(listed))
  BY <1>3, <1>4, EmptySeq, LenProperties
<1> QED
  BY <1>3, <1>4, <1>5, <1>6

LEMMA FeesAreNat ==
  ASSUME NEW reserve \in Nat, NEW feeBps \in Nat
  PROVE  estimateFeeApy(reserve, feeBps) \in Nat
<1>. DEFINE fees == reserve * feeBps
            daily == fees \div 10000
            yearly == daily * 365 * 10000
<1>1. fees \in Nat
  BY Z3
<1>2. daily \in Nat
  <2>. HIDE DEF fees
  <2> QED
    BY <1>1
<1>3. yearly \in Nat
  <2>. HIDE DEF daily
  <2> QED
    BY <1>2
<1>4. reserve # 0 => yearly \div reserve \in Nat
  <2>. HIDE DEF yearly
  <2> QED
    BY <1>3
<1>5. estimateFeeApy(reserve, feeBps) = IF reserve = 0 THEN 0 ELSE yearly \div reserve
  BY DEF estimateFeeApy
<1> QED
  <2>. HIDE DEF yearly
  <2> QED
    BY <1>4, <1>5

\* A step of the loop over the listed pairs keeps the tokens apart.
LEMMA SkipStep ==
  ASSUME PairInv, Skip
  PROVE  PairInv'
<1>1. listed # <<>> /\ Head(listed) \in Tokens \cup {Foreign} /\ PairTypeOK
  BY DEF Skip, PairInv, ChoiceIsBest
<1>2. listed' = Tail(listed) /\ UNCHANGED <<candidates, selection, trade>>
  BY DEF Skip
<1>3. PairTypeOK'
  BY <1>1, <1>2, ListedIs DEF PairTypeOK
<1>4. Distinct'
  BY <1>1, <1>2, ListedIs DEF Distinct, PairInv
<1>5. ChoiceIsBest' /\ TradeFollows'
  BY <1>2, <1>3 DEF PairInv, ChoiceIsBest, Acceptable, TradeFollows, Quoted
<1> QED
  BY <1>1, <1>2, <1>4, <1>5, ListedIs DEF PairInv

LEMMA EvaluateStep ==
  ASSUME PairInv, Evaluate
  PROVE  PairInv'
<1>1. listed # <<>> /\ Head(listed) \in Tokens /\ PairTypeOK /\ selection = "running"
  BY DEF Evaluate, PairInv, ChoiceIsBest
<1>2. PICK c \in Candidate :
        c.token = Head(listed) /\ candidates' = Append(candidates, c)
  <2>1. PICK quoted \in Impacts \cup {0}, recommendation \in Recommendations,
              pool \in Pools \cup {NoDetails} :
          candidates' = Append(candidates,
            [token |-> Head(listed), impact |-> Impact(quoted),
             recommendation |-> recommendation,
             yieldApy |-> estimateFeeApy(pool.reserve, pool.feeBps)])
    BY DEF Evaluate
  <2>2. Impact(quoted) \in Nat \ {0}
    BY PoolsAssumption DEF Impact
  <2>3. pool.reserve \in Nat /\ pool.feeBps \in Nat
    BY PoolsAssumption DEF NoDetails
  <2>4. estimateFeeApy(pool.reserve, pool.feeBps) \in Nat
    BY <2>3, FeesAreNat
  <2> QED
    BY <1>1, <2>1, <2>2, <2>4 DEF Candidate
<1>3. listed' = Tail(listed) /\ UNCHANGED <<selection, trade>>
  BY DEF Evaluate
<1>. DEFINE n == Len(candidates)
<1>4. /\ candidates \in Seq(Candidate) /\ n \in Nat /\ DOMAIN candidates = 1 .. n
      /\ candidates' \in Seq(Candidate) /\ DOMAIN candidates' = 1 .. n + 1
      /\ candidates'[n + 1] = c /\ \A i \in 1 .. n : candidates'[i] = candidates[i]
  <2>1. candidates \in Seq(Candidate) /\ n \in Nat /\ DOMAIN candidates = 1 .. n
    BY LenProperties DEF PairInv
  <2> QED
    BY <1>2, <2>1, AppendProperties, LenProperties
<1>5. PairTypeOK'
  <2>1. candidates' \in Seq([token : Tokens, impact : Nat,
                              recommendation : Recommendations, yieldApy : Nat])
    <3>1. \A x \in Candidate : x \in [token : Tokens, impact : Nat,
                                       recommendation : Recommendations, yieldApy : Nat]
      BY DEF Candidate
    <3> QED
      BY <1>4, <3>1, SeqMonotonic
  <2> QED
    BY <1>1, <1>3, <2>1, ListedIs DEF PairTypeOK
<1>6. Distinct'
  <2>1. listed # Unreachable /\ Tail(listed) # Unreachable
    BY <1>1, ListedIs
  <2>2. /\ \A i, j \in DOMAIN listed' : listed'[i] = listed'[j] => i = j
        /\ \A i \in DOMAIN listed' : listed'[i] # c.token
        /\ \A i \in DOMAIN listed', j \in 1 .. n : listed'[i] # candidates[j].token
        /\ \A j \in 1 .. n : c.token # candidates[j].token
    <3>1. /\ \A i, j \in DOMAIN listed : listed[i] = listed[j] => i = j
          /\ \A i \in DOMAIN listed, j \in 1 .. n : listed[i] # candidates[j].token
      BY <1>4, <2>1 DEF PairInv, Distinct
    <3>. HIDE DEF n
    <3>2. \A i \in DOMAIN listed' : i + 1 \in DOMAIN listed /\ listed'[i] = listed[i + 1] /\ i \in Nat
      BY <1>1, <1>3, ListedIs
    <3>3. c.token = listed[1] /\ 1 \in DOMAIN listed /\ \A i \in DOMAIN listed' : i + 1 # 1
      BY <1>1, <1>2, <1>3, <3>2, ListedIs
    <3> QED
      BY <3>1, <3>2, <3>3
  <2>3. \A i, j \in 1 .. n : candidates[i].token = candidates[j].token => i = j
    BY <1>4 DEF PairInv, Distinct
  <2>. HIDE DEF n
  <2>4. \A i \in 1 .. n + 1 : (i \in 1 .. n /\ i # n + 1) \/ i = n + 1
    BY <1>4
  <2>5. \A i, j \in 1 .. n + 1 : candidates'[i].token = candidates'[j].token => i = j
    BY <1>4, <2>2, <2>3, <2>4
  <2>6. \A i \in DOMAIN listed', j \in 1 .. n + 1 : listed'[i] # candidates'[j].token
    BY <1>4, <2>2, <2>4
  <2> QED
    BY <1>4, <2>2, <2>5, <2>6 DEF Distinct
<1>7. selection \notin Tokens /\ selection # "none"
  BY <1>1, NamesAssumption
<1>8. listed' # Unreachable
  BY <1>1, <1>3, ListedIs
<1>9. TradeFollows'
  BY <1>3 DEF PairInv, TradeFollows, Quoted
<1> QED
  BY <1>3, <1>4, <1>5, <1>6, <1>7, <1>8, <1>9 DEF PairInv, ChoiceIsBest

\* The selection: the first of the sort earns most, or is the one with sCSPR.
LEMMA SelectStep ==
  ASSUME PairInv, Select
  PROVE  PairInv'
<1>. DEFINE n == Len(candidates)
            best == Best(candidates)
<1>1. candidates \in Seq(Candidate) /\ DOMAIN candidates = 1 .. n
  BY LenProperties DEF PairInv
<1>2. /\ selection' = best.token /\ UNCHANGED <<listed, candidates, trade>>
      /\ selection = "running" /\ PairTypeOK
  BY DEF Select, PairInv, ChoiceIsBest
<1>3. IsBest(best, candidates, n)
  BY <1>1, BestIsFirst
<1>4. \A i \in 1 .. n : candidates[i] \in Candidate
  BY <1>1, ElementOfSeq
<1>. HIDE DEF best, n
<1>5. \A i \in 1 .. n : Safe(candidates[i]) <=> Acceptable(i)
  BY <1>4 DEF Safe, Acceptable, Candidate, maxImpact
<1>6. CASE best = NoPair /\ \A i \in 1 .. n : ~Safe(candidates[i])
  <2>1. selection' = "none" /\ selection' \notin Tokens
    BY <1>2, <1>6, NamesAssumption DEF NoPair
  <2>2. PairTypeOK'
    BY <1>2, <2>1 DEF PairTypeOK
  <2>3. \A i \in DOMAIN candidates : ~Acceptable(i)
    BY <1>1, <1>5, <1>6
  <2>4. ChoiceIsBest'
    BY <1>2, <2>1, <2>2, <2>3 DEF ChoiceIsBest, Acceptable
  <2>5. trade = Undecided
    BY <1>2 DEF PairInv, TradeFollows, Quoted
  <2> QED
    BY <1>2, <2>4, <2>5 DEF PairInv, Distinct, TradeFollows, Quoted
<1>7. ASSUME NEW i \in 1 .. n, best = candidates[i], Safe(candidates[i]),
             \A j \in 1 .. n : Safe(candidates[j]) => ~Before(candidates[j], candidates[i])
      PROVE  PairInv'
  <2>1. selection' = candidates[i].token /\ selection' \in Tokens /\ selection' # "none"
    BY <1>2, <1>4, <1>7, NamesAssumption DEF Candidate
  <2>2. PairTypeOK'
    BY <1>2, <2>1 DEF PairTypeOK
  <2>3. ASSUME NEW j \in 1 .. n, Acceptable(j), candidates[i].token # "sCSPR"
        PROVE  candidates[j].token # "sCSPR" /\ candidates[j].yieldApy <= candidates[i].yieldApy
    <3>1. ~Before(candidates[j], candidates[i])
      BY <1>5, <1>7, <2>3
    <3>2. candidates[j].yieldApy \in Nat /\ candidates[i].yieldApy \in Nat
      BY <1>4 DEF Candidate
    <3> QED
      BY <2>3, <3>1, <3>2 DEF Before
  <2>4. Acceptable(i) /\ i \in DOMAIN candidates
    BY <1>1, <1>5, <1>7
  <2>5. ChoiceIsBest'
    BY <1>1, <1>2, <2>1, <2>2, <2>3, <2>4 DEF ChoiceIsBest, Acceptable
  <2>6. trade = Undecided
    BY <1>2 DEF PairInv, TradeFollows, Quoted
  <2> QED
    BY <1>2, <2>5, <2>6 DEF PairInv, Distinct, TradeFollows, Quoted
<1> QED
  BY <1>3, <1>6, <1>7 DEF IsBest

LEMMA EndStep ==
  ASSUME PairInv, NoPairs \/ Malformed \/ Propose \/ UNCHANGED pairVars
  PROVE  PairInv'
<1>1. PairTypeOK
  BY DEF PairInv, ChoiceIsBest
<1>2. CASE NoPairs
  <2>1. selection' = "none" /\ UNCHANGED <<listed, candidates, trade>> /\ candidates = <<>>
        /\ selection = "running"
    BY <1>2 DEF NoPairs, PairInv
  <2>2. trade = Undecided /\ selection' \notin Tokens
    BY <2>1, NamesAssumption DEF PairInv, TradeFollows, Quoted
  <2>2a. DOMAIN candidates = {}
    BY <2>1, NothingInEmpty
  <2>3. PairTypeOK'
    BY <1>1, <2>1 DEF PairTypeOK
  <2> QED
    BY <2>1, <2>2, <2>2a, <2>3 DEF PairInv, ChoiceIsBest, Distinct, TradeFollows, Acceptable
<1>3. CASE Malformed
  <2>1. selection' = "failed" /\ UNCHANGED <<listed, candidates, trade>> /\ selection = "running"
    BY <1>3 DEF Malformed
  <2>2. PairTypeOK' /\ trade = Undecided /\ selection' \notin Tokens
    BY <1>1, <2>1, NamesAssumption DEF PairTypeOK, PairInv, TradeFollows, Quoted
  <2> QED
    BY <2>1, <2>2 DEF PairInv, ChoiceIsBest, Distinct, TradeFollows, Quoted
<1>4. CASE Propose
  <2>1. /\ trade' \in Proposable[Quoted]
        /\ UNCHANGED <<listed, candidates, selection>> /\ selection # "running"
    BY <1>4 DEF Propose
  <2>2. trade' \in Proposable[Quoted] /\ Quoted \in Tokens /\ Quoted' = Quoted
    BY <2>1, TokensAssumption DEF Quoted
  <2>3. PairTypeOK'
    BY <1>1, <2>1, <2>2, ProposableIs DEF PairTypeOK
  <2> QED
    BY <2>1, <2>2, <2>3 DEF PairInv, ChoiceIsBest, Distinct, TradeFollows, Acceptable
<1>5. CASE UNCHANGED pairVars
  BY <1>5 DEF pairVars, PairInv, ChoiceIsBest, PairTypeOK, Distinct, TradeFollows, Quoted, Acceptable
<1> QED
  BY <1>2, <1>3, <1>4, <1>5

LEMMA PairInitInv == PairInit => PairInv
<1>. SUFFICES ASSUME PairInit
              PROVE  PairInv
  OBVIOUS
<1>. DEFINE T == Tokens \cup {Foreign}
<1>1. ASSUME listed # Unreachable
      PROVE  listed \in Seq(T) /\ \A i, j \in DOMAIN listed : listed[i] = listed[j] => i = j
  <2>1. listed \in BoundedSeq(T, MaxPairs) /\ IsInjective(listed)
    BY <1>1 DEF PairInit
  <2>2. PICK m \in 0 .. MaxPairs : listed \in [1 .. m -> T]
    BY <2>1 DEF BoundedSeq, SeqOf
  <2>3. m \in Nat
    BY PoolsAssumption
  <2> QED
    BY <2>1, <2>2, <2>3 DEF IsInjective
<1>2. /\ candidates = <<>> /\ selection = "running" /\ trade = Undecided
      /\ selection \notin Tokens
  BY NamesAssumption DEF PairInit
<1>2a. /\ DOMAIN candidates = {}
       /\ candidates \in Seq(Candidate)
       /\ candidates \in Seq([token : Tokens, impact : Nat,
                              recommendation : Recommendations, yieldApy : Nat])
  BY <1>2, EmptySeq, NothingInEmpty
<1>3. PairTypeOK
  BY <1>1, <1>2, <1>2a DEF PairTypeOK
<1> QED
  BY <1>1, <1>2, <1>2a, <1>3 DEF PairInv, ChoiceIsBest, Distinct, TradeFollows, Quoted

LEMMA PairInductive == PairSpec => []PairInv
<1>1. PairInv /\ [PairNext]_pairVars => PairInv'
  BY SkipStep, EvaluateStep, SelectStep, EndStep DEF PairNext
<1> QED
  BY <1>1, PairInitInv, PTL DEF PairSpec

\* Of the pairs that were found acceptable the one with sCSPR is selected, or
\* the one that earns most, and none only if there is none.
THEOREM ChoiceStaysBest == PairSpec => []ChoiceIsBest
<1>1. PairInv => ChoiceIsBest
  BY DEF PairInv
<1> QED
  BY <1>1, PairInductive, PTL

\* A pair that was found unacceptable is never traded on the word of the selection:
\* only as the default sCSPR, without a selection or for a failing LLM, or because
\* the LLM names it.
THEOREM RejectedOnlyByDefault == PairSpec => []RejectedNotChosen
<1>1. ASSUME PairInv, Asked, Rejected(trade.token)
      PROVE  \/ trade.by = "llm"
             \/ trade.token = "sCSPR" /\ (selection \notin Tokens \/ trade.by = "fallback")
  <2>1. trade \in Proposable[Quoted] /\ Quoted \in Tokens /\ trade # Nothing
    BY <1>1, TokensAssumption DEF PairInv, TradeFollows, Asked, Quoted
  <2>2. \/ trade.by = "llm" \/ trade.token = Quoted
        \/ trade.by = "fallback" /\ trade.token = "sCSPR"
    BY <2>1, ProposableIs
  <2>3. ASSUME trade.token = Quoted, selection \in Tokens
        PROVE  FALSE
    <3>1. trade.token = selection
      BY <2>3 DEF Quoted
    <3>2. PICK i \in DOMAIN candidates : candidates[i].token = selection /\ Acceptable(i)
      BY <1>1, <2>3 DEF PairInv, ChoiceIsBest
    <3>3. PICK j \in DOMAIN candidates :
            /\ candidates[j].token = selection
            /\ candidates[j].impact > maxImpact \/ candidates[j].recommendation = "high_risk"
      BY <1>1, <3>1 DEF Rejected
    <3>4. i = j
      BY <1>1, <3>2, <3>3 DEF PairInv, Distinct
    <3> QED
      BY <3>2, <3>3, <3>4 DEF Acceptable, maxImpact
  <2> QED
    BY <2>2, <2>3 DEF Quoted
<1>2. PairInv => RejectedNotChosen
  BY <1>1 DEF RejectedNotChosen
<1> QED
  BY <1>2, PairInductive, PTL

-----------------------------------------------------------------------------
(***************************************************************************)
(* Part 3: the payment for the signal.                                     *)
(***************************************************************************)

Handles(h, a) == handler[h] # Free /\ handler[h].auth = a
Is(h, place)  == handler[h] # Free /\ handler[h].at = place

\* Who asks for a settlement, or is about to, has entered the nonce.
EnteredFirst ==
  \A a \in Attempts :
    /\ settles[a] # 0 => a \in usedNonces
    /\ \A h \in Handlers : Is(h, "verifying") /\ Handles(h, a) => a \in usedNonces

\* A hash in a handler or with a client is that of a settlement asked for.
HashesAreAsked ==
  /\ \A h \in Handlers :
       /\ Is(h, "settling") => handler[h].auth \in asked
       /\ handler[h] # Free /\ handler[h].tx =>
            handler[h].at = "answering" /\ handler[h].auth \in asked
  /\ \A a \in Attempts : proof[a] => client[a] = "served" /\ a \in asked

Waited(a) == a \notin copied /\ client[a] \notin {"late", "cut"}

\* A payment nobody copied and whose client waits is in one place at a time.
AskedOnce ==
  \A a \in Attempts :
    /\ client[a] \in {"idle", "asking"} =>
         wire[a] = 0 /\ a \notin accepted /\ \A h \in Handlers : ~Handles(h, a)
    /\ Waited(a) =>
         /\ wire[a] # 0 =>
              /\ wire[a] = 1 /\ client[a] = "paying" /\ a \notin accepted
              /\ \A h \in Handlers : ~Handles(h, a)
         /\ \A h \in Handlers : Is(h, "received") \/ Is(h, "checked") =>
              (Handles(h, a) =>
                /\ client[a] = "paying" /\ a \notin accepted
                /\ \A g \in Handlers : Handles(g, a) => g = h)
         /\ a \in accepted => client[a] # "failed"

IInv == TypeOK /\ EnteredFirst /\ HashesAreAsked /\ AskedOnce

-----------------------------------------------------------------------------
\* What a step of a handler leaves.
LEMMA StepEffect ==
  ASSUME TypeOK, NEW h \in Handlers, NEW from \in {"received", "checked", "verifying", "settling"},
         NEW to \in {"checked", "verifying", "settling", "answering"}, NEW tx \in BOOLEAN,
         Step(h, from, to, tx)
  PROVE  /\ handler[h] \in Requests /\ handler[h] # Free /\ handler[h].at = from
         /\ handler[h].auth \in Attempts
         /\ handler' \in [Handlers -> Requests \cup {Free}]
         /\ handler'[h] # Free /\ handler'[h].at = to /\ handler'[h].tx = tx
         /\ handler'[h].auth = handler[h].auth
         /\ \A g \in Handlers : g # h => handler'[g] = handler[g]
<1>1. handler[h] \in Requests \cup {Free} /\ handler[h].at = from
  BY DEF TypeOK, Step
<1>2. Free.at = "free"
  BY DEF Free
<1>3. handler[h] \in Requests /\ handler[h] # Free
  BY <1>1, <1>2
<1>. DEFINE r == [handler[h] EXCEPT !.at = to, !.tx = tx]
<1>4. /\ r \in Requests /\ r.at = to /\ r.tx = tx /\ r.auth = handler[h].auth
      /\ handler[h].auth \in Attempts
  BY <1>3 DEF Requests
<1>5. r # Free
  BY <1>2, <1>4
<1>6. handler' = [handler EXCEPT ![h] = r]
  BY DEF Step
<1>. HIDE DEF r
<1> QED
  BY <1>1, <1>3, <1>4, <1>5, <1>6 DEF TypeOK

\* What an answer that ends a handler leaves.
LEMMA FreeEffect ==
  ASSUME TypeOK, NEW h \in Handlers, handler[h].at \in {"received", "checked", "answering"},
         handler' = [handler EXCEPT ![h] = Free]
  PROVE  /\ handler[h] \in Requests /\ handler[h] # Free
         /\ handler[h].auth \in Attempts /\ handler[h].tx \in BOOLEAN
         /\ handler' \in [Handlers -> Requests \cup {Free}]
         /\ handler'[h] = Free
         /\ \A g \in Handlers : g # h => handler'[g] = handler[g]
<1>1. handler[h] \in Requests \cup {Free}
  BY DEF TypeOK
<1>2. Free.at = "free"
  BY DEF Free
<1>3. handler[h] \in Requests /\ handler[h] # Free
  BY <1>1, <1>2
<1> QED
  BY <1>3 DEF TypeOK, Requests

LEMMA ReceiveEffect ==
  ASSUME TypeOK, NEW h \in Handlers, NEW a \in Attempts, Receive(h, a)
  PROVE  /\ handler' \in [Handlers -> Requests \cup {Free}]
         /\ handler'[h] # Free /\ handler'[h].at = "received" /\ ~handler'[h].tx
         /\ handler'[h].auth = a
         /\ \A g \in Handlers : g # h => handler'[g] = handler[g]
<1>. DEFINE r == [at |-> "received", auth |-> a, tx |-> FALSE]
<1>1. r \in Requests /\ r.at = "received" /\ ~r.tx /\ r.auth = a
  BY DEF Requests
<1>2. r # Free
  BY <1>1 DEF Free
<1>3. handler' = [handler EXCEPT ![h] = r]
  BY DEF Receive
<1>. HIDE DEF r
<1> QED
  BY <1>1, <1>2, <1>3 DEF TypeOK

-----------------------------------------------------------------------------
LEMMA InitIInv == Init => IInv
<1>. SUFFICES ASSUME Init PROVE IInv
  OBVIOUS
<1>1. TypeOK
  BY DEF Init, TypeOK, ClientPlaces
<1>2. EnteredFirst /\ HashesAreAsked /\ AskedOnce
  BY DEF Init, EnteredFirst, HashesAreAsked, AskedOnce, Handles, Is
<1> QED
  BY <1>1, <1>2 DEF IInv

LEMMA TypeStep == TypeOK /\ [Next]_vars => TypeOK'
<1>. SUFFICES ASSUME TypeOK, [Next]_vars PROVE TypeOK'
  OBVIOUS
<1>1. ASSUME NEW a \in Attempts,
             Ask(a) \/ ClientEnds(a) \/ Disconnect(a) \/ Copy(a) \/ Lose(a)
      PROVE  TypeOK'
  <2>. USE DEF TypeOK, ClientPlaces, server
  <2>1. CASE Ask(a) \/ AnsweredWithout402(a) \/ AskFails(a) \/ Pay(a) \/ GiveUp(a)
    BY <2>1 DEF Ask, AnsweredWithout402, AskFails, Pay, GiveUp, Go
  <2>2. CASE Disconnect(a) \/ Copy(a) \/ Lose(a)
    BY <2>2 DEF Disconnect, Go, Copy, Lose
  <2> QED
    BY <1>1, <2>1, <2>2 DEF ClientEnds
<1>2. ASSUME NEW h \in Handlers, NEW a \in Attempts, Receive(h, a)
      PROVE  TypeOK'
  <2>1. handler' \in [Handlers -> Requests \cup {Free}]
    BY <1>2, ReceiveEffect
  <2>2. wire' \in [Attempts -> 0 .. 2]
    BY <1>2 DEF TypeOK, Receive
  <2> QED
    BY <1>2, <2>1, <2>2 DEF TypeOK, Receive
<1>3. ASSUME NEW h \in Handlers, Accept(h)
      PROVE  TypeOK'
  <2>1. handler' \in [Handlers -> Requests \cup {Free}] /\ handler[h].auth \in Attempts
    BY <1>3, StepEffect DEF Accept
  <2>2. usedNonces' \subseteq accepted' /\ accepted' \subseteq Attempts
    BY <1>3, <2>1 DEF TypeOK, Accept
  <2>3. UNCHANGED <<client, proof, wire, settles, asked, copied>>
    BY <1>3 DEF Accept
  <2> QED
    BY <2>1, <2>2, <2>3 DEF TypeOK
<1>4. ASSUME NEW h \in Handlers, Verified(h)
      PROVE  TypeOK'
  <2>1. handler[h].auth \in Attempts /\ handler' \in [Handlers -> Requests \cup {Free}]
    BY <1>4, StepEffect DEF Verified
  <2> QED
    BY <1>4, <2>1 DEF TypeOK, Verified
<1>5. ASSUME NEW h \in Handlers, Check(h) \/ Settled(h) \/ FallBack(h)
      PROVE  TypeOK'
  <2>1. handler' \in [Handlers -> Requests \cup {Free}]
    BY <1>5, StepEffect DEF Check, Settled, FallBack
  <2> QED
    BY <1>5, <2>1 DEF TypeOK, Check, Settled, FallBack
<1>6. ASSUME NEW h \in Handlers, Reject(h) \/ Answer(h)
      PROVE  TypeOK'
  <2>1. /\ handler' \in [Handlers -> Requests \cup {Free}]
        /\ handler[h].auth \in Attempts /\ handler[h].tx \in BOOLEAN
    BY <1>6, FreeEffect DEF Reject, Answer
  <2>2. PICK place \in {"failed", "served"}, tx \in BOOLEAN : ReplyTo(handler[h].auth, place, tx)
    BY <1>6, <2>1 DEF Reject, Answer
  <2>3. client' \in [Attempts -> ClientPlaces] /\ proof' \in [Attempts -> BOOLEAN]
    BY <2>1, <2>2 DEF TypeOK, ReplyTo, ClientPlaces
  <2>4. UNCHANGED <<wire, usedNonces, settles, asked, accepted, copied>>
    BY <1>6 DEF Reject, Answer
  <2> QED
    BY <2>1, <2>3, <2>4 DEF TypeOK
<1>7. CASE Restart
  BY <1>7 DEF TypeOK, Restart
<1>8. CASE UNCHANGED vars
  BY <1>8 DEF TypeOK, vars, server
<1> QED
  BY <1>1, <1>2, <1>3, <1>4, <1>5, <1>6, <1>7, <1>8 DEF Next, HandlerEnds

\* The nonce is entered before the facilitator is called.
LEMMA EnteredStep == TypeOK /\ EnteredFirst /\ [Next]_vars => EnteredFirst'
<1>. SUFFICES ASSUME TypeOK, EnteredFirst, [Next]_vars PROVE EnteredFirst'
  OBVIOUS
<1>. USE DEF EnteredFirst, Handles, Is
<1>1. ASSUME NEW a \in Attempts,
             Ask(a) \/ ClientEnds(a) \/ Disconnect(a) \/ Copy(a) \/ Lose(a)
      PROVE  EnteredFirst'
  BY <1>1 DEF Ask, ClientEnds, AnsweredWithout402, AskFails, Pay, GiveUp, Disconnect, Copy, Lose, server
<1>2. ASSUME NEW h \in Handlers, NEW a \in Attempts, Receive(h, a)
      PROVE  EnteredFirst'
  <2>1. /\ handler'[h].at = "received"
        /\ \A g \in Handlers : g # h => handler'[g] = handler[g]
    BY <1>2, ReceiveEffect
  <2> QED
    BY <1>2, <2>1 DEF Receive
<1>3. ASSUME NEW h \in Handlers, Accept(h)
      PROVE  EnteredFirst'
  <2>1. /\ handler'[h].auth = handler[h].auth
        /\ \A g \in Handlers : g # h => handler'[g] = handler[g]
    BY <1>3, StepEffect DEF Accept
  <2> QED
    BY <1>3, <2>1 DEF Accept
<1>4. ASSUME NEW h \in Handlers, Verified(h)
      PROVE  EnteredFirst'
  <2>1. /\ handler[h] # Free /\ handler[h].at = "verifying" /\ handler[h].auth \in Attempts
        /\ handler'[h].at = "settling"
        /\ \A g \in Handlers : g # h => handler'[g] = handler[g]
    BY <1>4, StepEffect DEF Verified
  <2>2. /\ handler[h].auth \in usedNonces /\ usedNonces' = usedNonces
        /\ \A a \in Attempts : a # handler[h].auth => settles'[a] = settles[a]
    BY <1>4, <2>1 DEF Verified, TypeOK
  <2> QED
    BY <2>1, <2>2
<1>5. ASSUME NEW h \in Handlers, Check(h) \/ Settled(h) \/ FallBack(h)
      PROVE  EnteredFirst'
  <2>1. /\ handler'[h].at \in {"checked", "answering"}
        /\ \A g \in Handlers : g # h => handler'[g] = handler[g]
    BY <1>5, StepEffect DEF Check, Settled, FallBack
  <2>2. UNCHANGED <<usedNonces, settles>>
    BY <1>5 DEF Check, Settled, FallBack
  <2> QED
    BY <2>1, <2>2
<1>6. ASSUME NEW h \in Handlers, Reject(h) \/ Answer(h)
      PROVE  EnteredFirst'
  <2>1. /\ handler'[h] = Free
        /\ \A g \in Handlers : g # h => handler'[g] = handler[g]
    BY <1>6, FreeEffect DEF Reject, Answer
  <2>2. UNCHANGED <<usedNonces, settles>>
    BY <1>6 DEF Reject, Answer
  <2> QED
    BY <2>1, <2>2
<1>7. CASE Restart
  BY <1>7 DEF Restart
<1>8. CASE UNCHANGED vars
  BY <1>8 DEF vars, server
<1> QED
  BY <1>1, <1>2, <1>3, <1>4, <1>5, <1>6, <1>7, <1>8 DEF Next, HandlerEnds

\* A hash comes out of a settlement asked for, and goes to its own client.
LEMMA HashesStep == TypeOK /\ HashesAreAsked /\ [Next]_vars => HashesAreAsked'
<1>. SUFFICES ASSUME TypeOK, HashesAreAsked, [Next]_vars PROVE HashesAreAsked'
  OBVIOUS
<1>. USE DEF HashesAreAsked, Is
<1>1. ASSUME NEW a \in Attempts,
             Ask(a) \/ ClientEnds(a) \/ Disconnect(a) \/ Copy(a) \/ Lose(a)
      PROVE  HashesAreAsked'
  <2>. USE DEF server
  <2>1. CASE Ask(a) \/ AnsweredWithout402(a) \/ AskFails(a) \/ Pay(a) \/ GiveUp(a) \/ Disconnect(a)
    <3>1. /\ handler' = handler /\ asked' = asked /\ proof' = proof
          /\ client[a] # "served"
          /\ \A b \in Attempts : b # a => client'[b] = client[b]
      BY <2>1 DEF Ask, AnsweredWithout402, AskFails, Pay, GiveUp, Disconnect, Go, TypeOK
    <3> QED
      BY <3>1
  <2>2. CASE Copy(a) \/ Lose(a)
    BY <2>2 DEF Copy, Lose
  <2> QED
    BY <1>1, <2>1, <2>2 DEF ClientEnds
<1>2. ASSUME NEW h \in Handlers, NEW a \in Attempts, Receive(h, a)
      PROVE  HashesAreAsked'
  <2>1. /\ ~handler'[h].tx /\ handler'[h].at = "received"
        /\ \A g \in Handlers : g # h => handler'[g] = handler[g]
    BY <1>2, ReceiveEffect
  <2> QED
    BY <1>2, <2>1 DEF Receive
<1>3. ASSUME NEW h \in Handlers, Check(h) \/ Accept(h) \/ FallBack(h)
      PROVE  HashesAreAsked'
  <2>1. /\ ~handler'[h].tx /\ handler'[h].at # "settling"
        /\ \A g \in Handlers : g # h => handler'[g] = handler[g]
    BY <1>3, StepEffect DEF Check, Accept, FallBack
  <2> QED
    BY <1>3, <2>1 DEF Check, Accept, FallBack
<1>4. ASSUME NEW h \in Handlers, Verified(h)
      PROVE  HashesAreAsked'
  <2>1. /\ ~handler'[h].tx /\ handler'[h].auth = handler[h].auth
        /\ \A g \in Handlers : g # h => handler'[g] = handler[g]
    BY <1>4, StepEffect DEF Verified
  <2> QED
    BY <1>4, <2>1 DEF Verified
<1>5. ASSUME NEW h \in Handlers, Settled(h)
      PROVE  HashesAreAsked'
  <2>1. /\ handler[h] # Free /\ handler[h].at = "settling"
        /\ handler'[h].at = "answering" /\ handler'[h].auth = handler[h].auth
        /\ \A g \in Handlers : g # h => handler'[g] = handler[g]
    BY <1>5, StepEffect DEF Settled
  <2> QED
    BY <1>5, <2>1 DEF Settled
<1>6. ASSUME NEW h \in Handlers, Reject(h) \/ Answer(h)
      PROVE  HashesAreAsked'
  <2>1. /\ handler[h] # Free /\ handler[h].auth \in Attempts /\ handler[h].tx \in BOOLEAN
        /\ handler'[h] = Free
        /\ \A g \in Handlers : g # h => handler'[g] = handler[g]
    BY <1>6, FreeEffect DEF Reject, Answer
  <2>0. \E place \in {"failed", "served"}, tx \in BOOLEAN : ReplyTo(handler[h].auth, place, tx)
    BY <1>6, <2>1 DEF Reject, Answer
  <2>2. \A b \in Attempts : b # handler[h].auth =>
          client'[b] = client[b] /\ proof'[b] = proof[b]
    BY <2>0, <2>1 DEF ReplyTo, TypeOK
  <2>3. proof'[handler[h].auth] =>
          client'[handler[h].auth] = "served" /\ handler[h].auth \in asked
    <3>1. CASE client[handler[h].auth] = "paying"
      <4>1. CASE Reject(h)
        BY <2>1, <3>1, <4>1 DEF Reject, ReplyTo, TypeOK
      <4>2. CASE Answer(h)
        <5>1. /\ proof'[handler[h].auth] = handler[h].tx
              /\ client'[handler[h].auth] = "served"
          BY <2>1, <3>1, <4>2 DEF Answer, ReplyTo, TypeOK
        <5> QED
          BY <2>1, <5>1
      <4> QED
        BY <1>6, <4>1, <4>2
    <3>2. CASE client[handler[h].auth] # "paying"
      <4>1. /\ proof'[handler[h].auth] = proof[handler[h].auth]
            /\ client'[handler[h].auth] = client[handler[h].auth]
        BY <1>6, <2>1, <3>2 DEF Reject, Answer, ReplyTo, TypeOK
      <4> QED
        BY <2>1, <4>1
    <3> QED
      BY <3>1, <3>2
  <2>4. asked' = asked
    BY <1>6 DEF Reject, Answer
  <2> QED
    BY <2>1, <2>2, <2>3, <2>4
<1>7. CASE Restart
  BY <1>7 DEF Restart
<1>8. CASE UNCHANGED vars
  BY <1>8 DEF vars, server
<1> QED
  BY <1>1, <1>2, <1>3, <1>4, <1>5, <1>6, <1>7, <1>8 DEF Next, HandlerEnds

\* What is on its way once is handled once, unless it is copied.
LEMMA AskedOnceStep == TypeOK /\ AskedOnce /\ [Next]_vars => AskedOnce'
<1>. SUFFICES ASSUME TypeOK, AskedOnce, [Next]_vars PROVE AskedOnce'
  OBVIOUS
<1>. USE DEF AskedOnce, Waited, Handles, Is
<1>1. ASSUME NEW a \in Attempts, Ask(a) \/ ClientEnds(a) \/ Disconnect(a)
      PROVE  AskedOnce'
  <2>1. /\ handler' = handler /\ accepted' = accepted
        /\ \A b \in Attempts : b # a => client'[b] = client[b]
    BY <1>1 DEF Ask, ClientEnds, AnsweredWithout402, AskFails, Pay, GiveUp, Disconnect, Go, server, TypeOK
  <2>2. CASE Ask(a) \/ AnsweredWithout402(a) \/ AskFails(a)
    BY <2>1, <2>2 DEF Ask, AnsweredWithout402, AskFails, Go, TypeOK
  <2>3. CASE Pay(a)
    <3>1. /\ client[a] = "asking" /\ client'[a] = "paying" /\ wire'[a] = 1
          /\ \A b \in Attempts : b # a => wire'[b] = wire[b]
          /\ copied' = copied
      BY <2>3 DEF Pay, Go, TypeOK
    <3> QED
      BY <2>1, <3>1
  <2>4. CASE GiveUp(a) \/ Disconnect(a)
    BY <2>1, <2>4 DEF GiveUp, Disconnect, Go, TypeOK
  <2> QED
    BY <1>1, <2>2, <2>3, <2>4 DEF ClientEnds
<1>2. ASSUME NEW a \in Attempts, Copy(a) \/ Lose(a)
      PROVE  AskedOnce'
  <2>1. /\ handler' = handler /\ accepted' = accepted /\ client' = client
        /\ wire[a] # 0 /\ copied \subseteq copied'
        /\ \A b \in Attempts : b # a => wire'[b] = wire[b]
        /\ \A b \in Attempts : b # a => (b \in copied' <=> b \in copied)
    BY <1>2 DEF Copy, Lose, server, TypeOK
  <2>2. Waited(a)' => wire'[a] = 0
    <3>1. CASE Copy(a)
      BY <3>1 DEF Copy
    <3>2. CASE Lose(a)
      <4>1. wire'[a] = wire[a] - 1 /\ copied' = copied
        BY <3>2 DEF Lose, TypeOK
      <4>2. Waited(a) => wire[a] = 1
        BY <2>1
      <4>3. Waited(a)' => Waited(a)
        BY <2>1, <4>1
      <4> QED
        BY <4>1, <4>2, <4>3
    <3> QED
      BY <1>2, <3>1, <3>2
  <2>3. client[a] \notin {"idle", "asking"}
    BY <2>1
  <2>4. ASSUME NEW b \in Attempts
        PROVE  /\ client[b] \in {"idle", "asking"} => wire'[b] = wire[b]
               /\ Waited(b)' => Waited(b) /\ (wire'[b] # 0 => wire'[b] = wire[b])
    BY <2>1, <2>2, <2>3
  <2> QED
    BY <2>1, <2>4
<1>3. ASSUME NEW h \in Handlers, NEW a \in Attempts, Receive(h, a)
      PROVE  AskedOnce'
  <2>1. /\ handler'[h].at = "received" /\ handler'[h].auth = a /\ handler[h] = Free
        /\ \A g \in Handlers : g # h => handler'[g] = handler[g]
    BY <1>3, ReceiveEffect DEF Receive
  <2>2. /\ accepted' = accepted /\ client' = client /\ copied' = copied
        /\ wire[a] # 0
        /\ wire[a] = 1 => wire'[a] = 0
        /\ \A b \in Attempts : b # a => wire'[b] = wire[b]
    BY <1>3 DEF Receive, TypeOK
  <2>3. client[a] \notin {"idle", "asking"}
    BY <2>2
  <2>4. Waited(a) =>
          /\ wire'[a] = 0 /\ client[a] = "paying" /\ a \notin accepted
          /\ \A g \in Handlers : ~Handles(g, a)
    BY <2>2
  <2>. SUFFICES ASSUME NEW b \in Attempts
       PROVE /\ client'[b] \in {"idle", "asking"} =>
                  wire'[b] = 0 /\ b \notin accepted' /\ \A g \in Handlers : ~Handles(g, b)'
             /\ Waited(b)' =>
                  /\ wire'[b] # 0 =>
                       /\ wire'[b] = 1 /\ client'[b] = "paying" /\ b \notin accepted'
                       /\ \A g \in Handlers : ~Handles(g, b)'
                  /\ \A g \in Handlers : Is(g, "received")' \/ Is(g, "checked")' =>
                       (Handles(g, b)' =>
                         /\ client'[b] = "paying" /\ b \notin accepted'
                         /\ \A f \in Handlers : Handles(f, b)' => f = g)
                  /\ b \in accepted' => client'[b] # "failed"
    OBVIOUS
  <2>5. CASE b = a
    BY <2>1, <2>2, <2>3, <2>4, <2>5
  <2>6. CASE b # a
    <3>1. \A g \in Handlers : Handles(g, b)' => g # h /\ Handles(g, b) /\ handler'[g] = handler[g]
      BY <2>1, <2>6
    <3>2. /\ client'[b] = client[b] /\ wire'[b] = wire[b]
          /\ b \in accepted' <=> b \in accepted
          /\ Waited(b)' <=> Waited(b)
      BY <2>2, <2>6
    <3>3. client[b] \in {"idle", "asking"} =>
            wire[b] = 0 /\ b \notin accepted /\ \A g \in Handlers : ~Handles(g, b)'
      BY <3>1
    <3>4. Waited(b) /\ wire[b] # 0 =>
            /\ wire[b] = 1 /\ client[b] = "paying" /\ b \notin accepted
            /\ \A g \in Handlers : ~Handles(g, b)'
      BY <3>1
    <3>5. ASSUME Waited(b), NEW g \in Handlers, Is(g, "received")' \/ Is(g, "checked")', Handles(g, b)'
          PROVE  /\ client[b] = "paying" /\ b \notin accepted
                 /\ \A f \in Handlers : Handles(f, b)' => f = g
      <4>1. (Is(g, "received") \/ Is(g, "checked")) /\ Handles(g, b)
        BY <3>1, <3>5
      <4> QED
        BY <3>1, <3>5, <4>1
    <3>6. Waited(b) /\ b \in accepted => client[b] # "failed"
      OBVIOUS
    <3>. HIDE DEF AskedOnce, Waited, Handles, Is
    <3> QED
      BY <3>2, <3>3, <3>4, <3>5, <3>6
  <2> QED
    BY <2>5, <2>6
<1>4. ASSUME NEW h \in Handlers, Accept(h)
      PROVE  AskedOnce'
  <2>1. /\ handler[h] # Free /\ handler[h].at = "checked" /\ handler[h].auth \in Attempts
        /\ handler'[h].at = "verifying" /\ handler'[h].auth = handler[h].auth
        /\ \A g \in Handlers : g # h => handler'[g] = handler[g]
    BY <1>4, StepEffect DEF Accept
  <2>2. /\ accepted' = accepted \cup {handler[h].auth}
        /\ client' = client /\ copied' = copied /\ wire' = wire
    BY <1>4 DEF Accept
  <2>3. client[handler[h].auth] \notin {"idle", "asking"}
    BY <2>1
  <2> QED
    BY <2>1, <2>2, <2>3
<1>5. ASSUME NEW h \in Handlers, Check(h)
      PROVE  AskedOnce'
  <2>1. /\ handler[h] # Free /\ handler[h].at = "received" /\ handler[h].auth \in Attempts
        /\ handler'[h].at = "checked" /\ handler'[h].auth = handler[h].auth /\ handler'[h] # Free
        /\ \A g \in Handlers : g # h => handler'[g] = handler[g]
    BY <1>5, StepEffect DEF Check
  <2>2. accepted' = accepted /\ client' = client /\ copied' = copied /\ wire' = wire
    BY <1>5 DEF Check
  <2>3. \A g \in Handlers, b \in Attempts : Handles(g, b)' <=> Handles(g, b)
    BY <2>1
  <2>4. \A g \in Handlers :
          (Is(g, "received") \/ Is(g, "checked"))' <=> Is(g, "received") \/ Is(g, "checked")
    BY <2>1
  <2>. HIDE DEF Handles, Is
  <2> QED
    BY <2>2, <2>3, <2>4
<1>5a. ASSUME NEW h \in Handlers, Verified(h) \/ Settled(h) \/ FallBack(h)
      PROVE  AskedOnce'
  <2>1. /\ handler[h] # Free
        /\ handler'[h].at \in {"settling", "answering"} /\ handler'[h].auth = handler[h].auth
        /\ \A g \in Handlers : g # h => handler'[g] = handler[g]
    BY <1>5a, StepEffect DEF Verified, Settled, FallBack
  <2>2. accepted' = accepted /\ client' = client /\ copied' = copied /\ wire' = wire
    BY <1>5a DEF Verified, Settled, FallBack
  <2> QED
    BY <2>1, <2>2
<1>6. ASSUME NEW h \in Handlers, Reject(h) \/ Answer(h)
      PROVE  AskedOnce'
  <2>1. /\ handler[h] # Free /\ handler[h].auth \in Attempts /\ handler[h].tx \in BOOLEAN
        /\ handler'[h] = Free
        /\ \A g \in Handlers : g # h => handler'[g] = handler[g]
    BY <1>6, FreeEffect DEF Reject, Answer
  <2>2. /\ accepted' = accepted /\ copied' = copied /\ wire' = wire
        /\ \A b \in Attempts : b # handler[h].auth => client'[b] = client[b]
    <3>1. \E place \in {"failed", "served"}, tx \in BOOLEAN : ReplyTo(handler[h].auth, place, tx)
      BY <1>6, <2>1 DEF Reject, Answer
    <3>2. \A b \in Attempts : b # handler[h].auth => client'[b] = client[b]
      BY <2>1, <3>1 DEF ReplyTo, TypeOK
    <3> QED
      BY <1>6, <3>2 DEF Reject, Answer
  <2>3. /\ client'[handler[h].auth] \notin {"idle", "asking"}
        /\ handler[h].auth \in accepted /\ Waited(handler[h].auth) =>
             client'[handler[h].auth] # "failed"
    <3>1. client \in [Attempts -> ClientPlaces]
      BY DEF TypeOK
    <3>2. CASE Reject(h)
      <4>1. client'[handler[h].auth] =
              IF client[handler[h].auth] = "paying" THEN "failed" ELSE client[handler[h].auth]
        BY <2>1, <3>1, <3>2 DEF Reject, ReplyTo
      <4> QED
        BY <2>1, <3>2, <4>1 DEF Reject
    <3>3. CASE Answer(h)
      <4>1. client'[handler[h].auth] =
              IF client[handler[h].auth] = "paying" THEN "served" ELSE client[handler[h].auth]
        BY <2>1, <3>1, <3>3 DEF Answer, ReplyTo
      <4> QED
        BY <2>1, <3>3, <4>1 DEF Answer
    <3> QED
      BY <1>6, <3>2, <3>3
  <2>4. \A b \in Attempts : Waited(b)' => Waited(b)
    <3>. HIDE DEF AskedOnce, Handles, Is
    <3>1. \A b \in Attempts :
            client[b] \in {"late", "cut"} => client'[b] \in {"late", "cut"}
      <4>1. \E place \in {"failed", "served"}, tx \in BOOLEAN : ReplyTo(handler[h].auth, place, tx)
        BY <1>6, <2>1 DEF Reject, Answer
      <4> QED
        BY <4>1 DEF ReplyTo, TypeOK
    <3>2. copied' = copied
      BY <2>2
    <3> QED
      BY <3>1, <3>2
  <2> QED
    BY <2>1, <2>2, <2>3, <2>4
<1>7. CASE Restart
  BY <1>7 DEF Restart
<1>8. CASE UNCHANGED vars
  BY <1>8 DEF vars, server
<1> QED
  BY <1>1, <1>2, <1>3, <1>4, <1>5, <1>5a, <1>6, <1>7, <1>8 DEF Next, HandlerEnds

LEMMA Invariance == Spec => []IInv
<1>1. IInv /\ [Next]_vars => IInv'
  BY TypeStep, EnteredStep, HashesStep, AskedOnceStep DEF IInv
<1> QED
  BY InitIInv, <1>1, PTL DEF Spec

-----------------------------------------------------------------------------
\* What can still become a settlement does not grow once there is one.
LEMMA ChancesStep ==
  ASSUME TypeOK, EnteredFirst, [Next]_vars, NEW a \in Attempts,
         settles[a] > 0, settles'[a] > 0
  PROVE  Chances(a)' <= Chances(a)
<1>. DEFINE at(h) == handler[h].at \in {"checked", "verifying"} /\ handler[h].auth = a
            S == {h \in Handlers : at(h)}
            T == {h \in Handlers : at(h)'}
<1>1. settles[a] \in Nat /\ IsFiniteSet(S) /\ Cardinality(S) \in Nat /\ a \in usedNonces
  <2>1. IsFiniteSet(S)
    BY AttemptsAssumption, FS_Subset
  <2> QED
    BY <2>1, FS_CardinalityType DEF TypeOK, EnteredFirst
<1>2. Chances(a) = settles[a] + Cardinality(S) /\ Chances(a)' = settles'[a] + Cardinality(T)
  BY DEF Chances
<1>3. ASSUME T \subseteq S, settles'[a] = settles[a]
      PROVE  Chances(a)' <= Chances(a)
  <2>1. Cardinality(T) \in Nat /\ Cardinality(T) <= Cardinality(S)
    BY <1>1, <1>3, FS_Subset, FS_CardinalityType
  <2> QED
    BY <1>1, <1>2, <1>3, <2>1
<1>4. ASSUME NEW b \in Attempts,
             Ask(b) \/ ClientEnds(b) \/ Disconnect(b) \/ Copy(b) \/ Lose(b)
      PROVE  Chances(a)' <= Chances(a)
  <2>1. handler' = handler /\ settles' = settles
    BY <1>4 DEF Ask, ClientEnds, AnsweredWithout402, AskFails, Pay, GiveUp, Disconnect, Copy, Lose, server
  <2> QED
    BY <1>3, <2>1
<1>5. ASSUME NEW h \in Handlers, NEW b \in Attempts, Receive(h, b)
      PROVE  Chances(a)' <= Chances(a)
  <2>1. /\ handler'[h].at = "received"
        /\ \A g \in Handlers : g # h => handler'[g] = handler[g]
    BY <1>5, ReceiveEffect
  <2>2. settles' = settles
    BY <1>5 DEF Receive
  <2> QED
    BY <1>3, <2>1, <2>2
<1>6. ASSUME NEW h \in Handlers, Check(h)
      PROVE  Chances(a)' <= Chances(a)
  <2>1. /\ handler'[h].auth = handler[h].auth
        /\ \A g \in Handlers : g # h => handler'[g] = handler[g]
    BY <1>6, StepEffect DEF Check
  <2>2. settles' = settles /\ handler[h].auth # a
    BY <1>1, <1>6 DEF Check
  <2> QED
    BY <1>3, <2>1, <2>2
<1>7. ASSUME NEW h \in Handlers, Accept(h)
      PROVE  Chances(a)' <= Chances(a)
  <2>1. /\ handler'[h].auth = handler[h].auth /\ handler[h].at = "checked"
        /\ \A g \in Handlers : g # h => handler'[g] = handler[g]
    BY <1>7, StepEffect DEF Accept
  <2>2. settles' = settles
    BY <1>7 DEF Accept
  <2> QED
    BY <1>3, <2>1, <2>2
<1>8. ASSUME NEW h \in Handlers, Verified(h)
      PROVE  Chances(a)' <= Chances(a)
  <2>1. /\ handler[h].at = "verifying" /\ handler'[h].at = "settling"
        /\ \A g \in Handlers : g # h => handler'[g] = handler[g]
    BY <1>8, StepEffect DEF Verified
  <2>2. CASE handler[h].auth # a
    <3>1. settles'[a] = settles[a]
      BY <1>8, <2>2 DEF Verified, TypeOK
    <3> QED
      BY <1>3, <2>1, <3>1
  <2>3. CASE handler[h].auth = a
    <3>1. settles'[a] = settles[a] + 1
      BY <1>8, <2>3 DEF Verified, TypeOK
    <3>2. h \in S /\ T = S \ {h}
      BY <2>1, <2>3
    <3>. HIDE DEF S, T
    <3>3. Cardinality(T) = Cardinality(S) - 1
      BY <1>1, <3>2, FS_RemoveElement
    <3> QED
      BY <1>1, <1>2, <3>1, <3>3
  <2> QED
    BY <2>2, <2>3
<1>9. ASSUME NEW h \in Handlers, Settled(h) \/ FallBack(h)
      PROVE  Chances(a)' <= Chances(a)
  <2>1. /\ handler'[h].at = "answering"
        /\ \A g \in Handlers : g # h => handler'[g] = handler[g]
    BY <1>9, StepEffect DEF Settled, FallBack
  <2>2. settles' = settles
    BY <1>9 DEF Settled, FallBack
  <2> QED
    BY <1>3, <2>1, <2>2
<1>10. ASSUME NEW h \in Handlers, Reject(h) \/ Answer(h)
       PROVE  Chances(a)' <= Chances(a)
  <2>1. /\ handler'[h] = Free
        /\ \A g \in Handlers : g # h => handler'[g] = handler[g]
    BY <1>10, FreeEffect DEF Reject, Answer
  <2>2. settles' = settles
    BY <1>10 DEF Reject, Answer
  <2> QED
    BY <1>3, <2>1, <2>2 DEF Free
<1>11. CASE Restart
  BY <1>11 DEF Restart
<1>12. CASE UNCHANGED vars
  <2>1. handler' = handler /\ settles' = settles
    BY <1>12 DEF vars, server
  <2> QED
    BY <1>3, <2>1
<1> QED
  BY <1>4, <1>5, <1>6, <1>7, <1>8, <1>9, <1>10, <1>11, <1>12 DEF Next, HandlerEnds

-----------------------------------------------------------------------------
\* For any number of payments, copies and handlers: once a settlement of an
\* authorization was asked for, only the copies that had passed the check by then
\* can lead to another one before the server is restarted.
THEOREM LateCopiesAreRefused == Spec => LateCopiesRefused
<1>1. IInv /\ [Next]_vars =>
        [\A a \in Attempts :
           settles[a] > 0 /\ settles'[a] > 0 => Chances(a)' <= Chances(a)]_vars
  BY ChancesStep DEF IInv
<1> QED
  BY Invariance, <1>1, PTL DEF Spec, LateCopiesRefused

\* A client never holds a hash unless it was served and a settlement of its own
\* authorization was asked for, whatever restarts, copies and fallbacks there were.
THEOREM HashesMeanAsked == Spec => []HashMeansAsked
<1>1. IInv => HashMeansAsked
  BY DEF IInv, HashesAreAsked, HashMeansAsked
<1> QED
  BY Invariance, <1>1, PTL

\* The server refuses an accepted payment only if a copy of it came too.
THEOREM AcceptedIsServed == Spec => []FallbackServes
<1>1. IInv => FallbackServes
  BY DEF IInv, TypeOK, AskedOnce, Waited, FallbackServes
<1> QED
  BY Invariance, <1>1, PTL

=============================================================================
