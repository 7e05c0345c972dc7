--------------------- MODULE StakeholderDeposit_proofs ---------------------
(***************************************************************************)
(* Proofs about StakeholderDeposit for every set of accounts, every        *)
(* max_history and every width of the counters.                            *)
(***************************************************************************)
EXTENDS StakeholderDeposit, DataLemmas

(***************************************************************************)
(* Types.                                                                  *)
(***************************************************************************)

\* The capacity of the ring is a positive number whatever max_history is.
LEMMA CapPositive == Cap \in Nat \ {0}
  BY HistoryAssumption DEF Cap

\* Amounts are natural numbers.
LEMMA AmountsAreNat == \A a \in Amounts : a \in Nat /\ a < U64
  BY AmountsAssumption, U64Assumption

\* A fresh record is a record.
LEMMA NewRecordType ==
  ASSUME NEW id \in Nat, NEW s \in Accounts, NEW amount \in Amounts
  PROVE  NewRecord(id, s, amount) \in Record
  BY DEF NewRecord, Record

\* A record that was paid is a record, with the same id, owner and amount.
LEMMA SettledType ==
  ASSUME NEW d \in Record
  PROVE  /\ Settled(d) \in Record
         /\ Settled(d).id = d.id
         /\ Settled(d).stakeholder = d.stakeholder
         /\ Settled(d).amount = d.amount
         /\ Settled(d).status = "Withdrawn"
  BY DEF Settled, Record

\* Advancing the head wraps it to 0 exactly at the capacity.
LEMMA NextSlot ==
  ASSUME NEW h \in 0 .. Cap - 1
  PROVE  (h + 1) % Cap = IF h + 1 = Cap THEN 0 ELSE h + 1
  BY CapPositive, SMTT(30)

\* What writing one record into the ring does to its slots.
LEMMA PushEffect ==
  ASSUME TypeOK, NEW d \in Record, Push(d)
  PROVE  /\ deposits' \in Seq(Record)
         /\ Len(deposits') <= Cap
         /\ head' \in 0 .. Cap - 1
         /\ \/ /\ Len(deposits) < Cap
               /\ Len(deposits') = Len(deposits) + 1
               /\ head' = head
               /\ deposits'[Len(deposits) + 1] = d
               /\ \A k \in 1 .. Len(deposits) : deposits'[k] = deposits[k]
            \/ /\ Len(deposits) = Cap
               /\ Len(deposits') = Cap
               /\ head' = IF head + 1 = Cap THEN 0 ELSE head + 1
               /\ deposits'[head + 1] = d
               /\ \A k \in 1 .. Cap : k # head + 1 => deposits'[k] = deposits[k]
<1>1. /\ deposits \in Seq(Record) /\ Len(deposits) \in Nat /\ Len(deposits) <= Cap
      /\ head \in 0 .. Cap - 1
  BY LenProperties DEF TypeOK
<1>2. CASE Len(deposits) < Cap
  BY <1>1, <1>2, AppendProperties, CapPositive DEF Push
<1>3. CASE ~(Len(deposits) < Cap)
  <2>1. Len(deposits) = Cap
    BY <1>1, <1>3, CapPositive
  <2>2. deposits' = [deposits EXCEPT ![head + 1] = d] /\ head' = (head + 1) % Cap
    BY <1>3 DEF Push
  <2>3. head + 1 \in 1 .. Len(deposits)
    BY <1>1, <2>1, CapPositive
  <2>4. /\ deposits' \in Seq(Record)
        /\ Len(deposits') = Cap
        /\ \A k \in 1 .. Cap : deposits'[k] = IF k = head + 1 THEN d ELSE deposits[k]
    BY <1>1, <2>1, <2>2, <2>3, ExceptSeq
  <2>5. head' = IF head + 1 = Cap THEN 0 ELSE head + 1
    BY <1>1, <2>2, NextSlot
  <2> QED
    BY <1>1, <2>1, <2>3, <2>4, <2>5, CapPositive
<1> QED
  BY <1>2, <1>3

LEMMA TypeInit == Init => TypeOK
<1>1. << >> \in Seq(Record) /\ Len(<< >>) = 0
  OBVIOUS
<1>2. 0 \in 0 .. Cap - 1 /\ 0 <= Cap
  BY CapPositive
<1>3. [s \in Accounts |-> 0] \in [Accounts -> Nat]
  OBVIOUS
<1> SUFFICES ASSUME Init
             PROVE  TypeOK
  OBVIOUS
<1>4. deposits \in Seq(Record) /\ Len(deposits) <= Cap /\ head \in 0 .. Cap - 1
  BY <1>1, <1>2 DEF Init
<1>5. /\ stakeholder_active \in [Accounts -> Nat]
      /\ paid \in [Accounts -> Nat]
      /\ lifetime \in [Accounts -> Nat]
  BY <1>3, Zenon DEF Init
<1> QED
  BY <1>4, <1>5, OwnerAssumption DEF Init, TypeOK

LEMMA TypeStep == TypeOK /\ [Next]_vars => TypeOK'
<1> SUFFICES ASSUME TypeOK, [Next]_vars
             PROVE  TypeOK'
  OBVIOUS
<1>1. ASSUME NEW caller \in Accounts, NEW p \in BOOLEAN, SetPaused(caller, p)
      PROVE  TypeOK'
  BY <1>1 DEF SetPaused, TypeOK
<1>2. ASSUME NEW caller \in Accounts, NEW amount \in Amounts, Deposit(caller, amount)
      PROVE  TypeOK'
  <2>1. amount \in Nat
    BY AmountsAreNat
  <2>3. /\ deposits' \in Seq(Record)
        /\ Len(deposits') <= Cap
        /\ head' \in 0 .. Cap - 1
    <3>1. NewRecord(deposit_count + 1, caller, amount) \in Record
      BY NewRecordType DEF TypeOK
    <3> QED
      BY <1>2, <3>1, PushEffect DEF Deposit
  <2>2. /\ stakeholder_active' \in [Accounts -> Nat]
        /\ lifetime' \in [Accounts -> Nat]
    <3>1. /\ WrapAdd(stakeholder_active[caller], amount) \in Nat
          /\ lifetime[caller] + amount \in Nat
      BY <2>1, U64Assumption DEF TypeOK, WrapAdd
    <3> QED
      BY <1>2, <3>1 DEF Deposit, TypeOK
  <2>4. /\ total_deposited' \in Nat /\ total_active' \in Nat /\ total_withdrawn' \in Nat
        /\ purse' \in Nat /\ declared' \in Nat /\ funded' \in Nat
        /\ deposit_count' \in Nat
    BY <1>2, <2>1, U64Assumption DEF Deposit, TypeOK, WrapAdd
  <2> QED
    BY <1>2, <2>2, <2>3, <2>4 DEF Deposit, TypeOK
<1>3. ASSUME NEW caller \in Accounts, NEW id \in 1 .. deposit_count, Withdraw(caller, id)
      PROVE  TypeOK'
  <2>1. PICK i \in 1 .. Len(deposits) :
          /\ deposits[i].amount <= purse
          /\ deposits' = [deposits EXCEPT ![i] = Settled(deposits[i])]
          /\ stakeholder_active' = [stakeholder_active EXCEPT
                                      ![caller] = SaturatingSub(@, deposits[i].amount)]
          /\ total_active' = SaturatingSub(total_active, deposits[i].amount)
          /\ total_withdrawn' = WrapAdd(total_withdrawn, deposits[i].amount)
          /\ purse' = purse - deposits[i].amount
          /\ paid' = [paid EXCEPT ![caller] = @ + deposits[i].amount]
    BY <1>3 DEF Withdraw
  <2>2. deposits[i] \in Record
    BY <2>1, LenProperties DEF TypeOK
  <2>3. deposits[i].amount \in Nat
    BY <2>2, AmountsAreNat DEF Record
  <2>4. deposits' \in Seq(Record) /\ Len(deposits') = Len(deposits)
    BY <2>1, <2>2, SettledType, ExceptSeq DEF TypeOK
  <2>5. /\ stakeholder_active' \in [Accounts -> Nat]
        /\ paid' \in [Accounts -> Nat]
    <3>1. /\ SaturatingSub(stakeholder_active[caller], deposits[i].amount) \in Nat
          /\ paid[caller] + deposits[i].amount \in Nat
      BY <2>3 DEF TypeOK, SaturatingSub
    <3> QED
      BY <2>1, <3>1 DEF TypeOK
  <2>6. /\ total_active' \in Nat /\ total_withdrawn' \in Nat /\ purse' \in Nat
    <3>1. \A b \in Nat : WrapAdd(b, deposits[i].amount) \in Nat
      BY <2>3, U64Assumption DEF WrapAdd
    <3>2. \A b \in Nat : SaturatingSub(b, deposits[i].amount) \in Nat
      BY <2>3 DEF SaturatingSub
    <3>3. purse' \in Nat
      <4>1. deposits[i].amount <= purse /\ purse' = purse - deposits[i].amount
        BY <2>1
      <4>2. purse \in Nat
        BY DEF TypeOK
      <4> QED
        BY <2>3, <4>1, <4>2
    <3> QED
      BY <2>1, <3>1, <3>2, <3>3 DEF TypeOK
  <2> QED
    BY <1>3, <2>4, <2>5, <2>6 DEF Withdraw, TypeOK
<1>4. ASSUME NEW amount \in Amounts, FundPurse(amount)
      PROVE  TypeOK'
  BY <1>4, AmountsAreNat DEF FundPurse, TypeOK, contractVars
<1>5. CASE UNCHANGED vars
  BY <1>5 DEF vars, contractVars, TypeOK
<1> QED
  BY <1>1, <1>2, <1>3, <1>4, <1>5 DEF Next

\* Every variable keeps its type, and the ring stays within its capacity.
THEOREM TypeCorrect == Spec => []TypeOK
  BY TypeInit, TypeStep, PTL DEF Spec

-----------------------------------------------------------------------------
(***************************************************************************)
(* The ring.  RingShape says which id each slot holds, from which the set  *)
(* of retained ids follows; it is inductive, RingHoldsLatest is not.       *)
(***************************************************************************)
RingShape ==
  /\ Len(deposits) = IF deposit_count < Cap THEN deposit_count ELSE Cap
  /\ Len(deposits) < Cap => head = 0
  /\ \A k \in 1 .. Len(deposits) :
       deposits[k].id = IF k <= head THEN deposit_count - head + k
                        ELSE deposit_count - head + k - Len(deposits)

\* Rewriting a record in place keeps its id, so a withdrawal keeps the shape.
LEMMA SettleEffect ==
  ASSUME TypeOK, NEW i \in 1 .. Len(deposits),
         deposits' = [deposits EXCEPT ![i] = Settled(deposits[i])]
  PROVE  /\ deposits' \in Seq(Record)
         /\ Len(deposits') = Len(deposits)
         /\ deposits'[i].status = "Withdrawn"
         /\ \A k \in 1 .. Len(deposits) : k # i => deposits'[k] = deposits[k]
         /\ \A k \in 1 .. Len(deposits) : /\ deposits'[k].id = deposits[k].id
                                         /\ deposits'[k].amount = deposits[k].amount
                                         /\ deposits'[k].stakeholder = deposits[k].stakeholder
<1>1. deposits[i] \in Record
  BY LenProperties DEF TypeOK
<1>2. Settled(deposits[i]) \in Record
  BY <1>1, SettledType
<1>3. /\ deposits' \in Seq(Record)
      /\ Len(deposits') = Len(deposits)
      /\ \A k \in 1 .. Len(deposits) :
           deposits'[k] = IF k = i THEN Settled(deposits[i]) ELSE deposits[k]
  BY <1>2, ExceptSeq DEF TypeOK
<1> QED
  BY <1>1, <1>3, SettledType

LEMMA PushKeepsShape ==
  ASSUME TypeOK, RingShape, NEW d \in Record, Push(d),
         d.id = deposit_count + 1, deposit_count' = deposit_count + 1
  PROVE  RingShape'
<1>1. /\ Len(deposits) \in Nat /\ deposit_count \in Nat
      /\ head \in 0 .. Cap - 1 /\ Cap \in Nat \ {0}
  BY LenProperties, CapPositive DEF TypeOK
<1>2. CASE Len(deposits) < Cap
  <2>1. /\ Len(deposits') = Len(deposits) + 1
        /\ head' = head
        /\ deposits'[Len(deposits) + 1] = d
        /\ \A k \in 1 .. Len(deposits) : deposits'[k] = deposits[k]
    BY <1>1, <1>2, PushEffect
  <2>2. Len(deposits) = deposit_count /\ head = 0
    BY <1>1, <1>2 DEF RingShape
  <2>3. \A k \in 1 .. deposit_count : deposits[k].id = k
    BY <1>1, <2>2 DEF RingShape
  <2>4. \A k \in 1 .. deposit_count + 1 : deposits'[k].id = k
    BY <1>1, <2>1, <2>2, <2>3
  <2>5. Cap' = Cap
    BY DEF Cap
  <2> QED
    BY <1>1, <1>2, <2>1, <2>2, <2>4, <2>5 DEF RingShape
<1>3. CASE Len(deposits) = Cap
  <2>1. /\ Len(deposits') = Cap
        /\ head' = IF head + 1 = Cap THEN 0 ELSE head + 1
        /\ deposits'[head + 1] = d
        /\ \A k \in 1 .. Cap : k # head + 1 => deposits'[k] = deposits[k]
    BY <1>1, <1>3, PushEffect
  <2>2. deposit_count >= Cap
    BY <1>1, <1>3 DEF RingShape
  <2>3. \A k \in 1 .. Cap :
          deposits[k].id = IF k <= head THEN deposit_count - head + k
                           ELSE deposit_count - head + k - Cap
    BY <1>1, <1>3 DEF RingShape
  <2>4. \A k \in 1 .. Cap :
          deposits'[k].id = IF k <= head' THEN deposit_count' - head' + k
                            ELSE deposit_count' - head' + k - Cap
    <3> TAKE k \in 1 .. Cap
    <3>1. CASE k = head + 1
      BY <1>1, <2>1, <3>1
    <3>2. CASE k # head + 1
      <4>1. deposits'[k].id = deposits[k].id
        BY <2>1, <3>2
      <4>2. deposits[k].id = IF k <= head THEN deposit_count - head + k
                             ELSE deposit_count - head + k - Cap
        BY <2>3
      <4>3. head' = IF head + 1 = Cap THEN 0 ELSE head + 1
        BY <2>1
      <4> QED
        BY <1>1, <3>2, <4>1, <4>2, <4>3
    <3> QED
      BY <3>1, <3>2
  <2>5. Cap' = Cap
    BY DEF Cap
  <2> QED
    BY <1>1, <2>1, <2>2, <2>4, <2>5 DEF RingShape
<1> QED
  BY <1>1, <1>2, <1>3 DEF TypeOK

LEMMA RingShapeStep == TypeOK /\ RingShape /\ [Next]_vars => RingShape'
<1> SUFFICES ASSUME TypeOK, RingShape, [Next]_vars
             PROVE  RingShape'
  OBVIOUS
<1>1. ASSUME NEW caller \in Accounts, NEW amount \in Amounts, Deposit(caller, amount)
      PROVE  RingShape'
  <2>1. NewRecord(deposit_count + 1, caller, amount) \in Record
    BY NewRecordType DEF TypeOK
  <2>2. NewRecord(deposit_count + 1, caller, amount).id = deposit_count + 1
    BY DEF NewRecord
  <2>3. /\ Push(NewRecord(deposit_count + 1, caller, amount))
        /\ deposit_count' = deposit_count + 1
    BY <1>1 DEF Deposit
  <2> QED
    BY <2>1, <2>2, <2>3, PushKeepsShape
<1>2. ASSUME NEW caller \in Accounts, NEW id \in 1 .. deposit_count, Withdraw(caller, id)
      PROVE  RingShape'
  <2>1. PICK i \in 1 .. Len(deposits) :
          deposits' = [deposits EXCEPT ![i] = Settled(deposits[i])]
    BY <1>2 DEF Withdraw
  <2>2. /\ Len(deposits') = Len(deposits)
        /\ \A k \in 1 .. Len(deposits) : deposits'[k].id = deposits[k].id
    BY <2>1, SettleEffect
  <2>3. head' = head /\ deposit_count' = deposit_count /\ Cap' = Cap
    BY <1>2 DEF Withdraw, Cap
  <2> QED
    BY <2>2, <2>3 DEF RingShape
<1>3. ASSUME UNCHANGED <<deposits, head, deposit_count>>
      PROVE  RingShape'
  BY <1>3 DEF RingShape, Cap
<1> QED
  BY <1>1, <1>2, <1>3 DEF Next, vars, contractVars, SetPaused, FundPurse

LEMMA ShapeGivesLatest == TypeOK /\ RingShape => RingHoldsLatest
<1> SUFFICES ASSUME TypeOK, RingShape
             PROVE  RingHoldsLatest
  OBVIOUS
<1> DEFINE n == Len(deposits)
           SlotOf(id) == IF id + head > deposit_count THEN id - deposit_count + head
                         ELSE id - deposit_count + head + n
<1>1. /\ n \in Nat /\ DOMAIN deposits = 1 .. n
      /\ deposit_count \in Nat /\ head \in 0 .. Cap - 1 /\ Cap \in Nat \ {0}
      /\ n <= Cap /\ n <= deposit_count /\ head <= n
  BY LenProperties, CapPositive DEF TypeOK, RingShape
<1>2. \A k \in 1 .. n :
        deposits[k].id = IF k <= head THEN deposit_count - head + k
                         ELSE deposit_count - head + k - n
  BY DEF RingShape
<1> HIDE DEF n
<1>3. \A j, k \in 1 .. n : deposits[j].id = deposits[k].id => j = k
  BY <1>1, <1>2
<1>4. \A k \in 1 .. n : deposits[k].id \in 1 .. deposit_count /\ deposits[k].id + n > deposit_count
  BY <1>1, <1>2
<1>5. ASSUME NEW id \in 1 .. deposit_count, id + n > deposit_count
      PROVE  \E k \in 1 .. n : deposits[k].id = id
  <2>1. SlotOf(id) \in 1 .. n
    BY <1>1, <1>5
  <2>2. deposits[SlotOf(id)].id = IF SlotOf(id) <= head THEN deposit_count - head + SlotOf(id)
                                  ELSE deposit_count - head + SlotOf(id) - n
    BY <1>2, <2>1
  <2>3. deposits[SlotOf(id)].id = id
    BY <1>1, <1>5, <2>2
  <2> QED
    BY <2>1, <2>3
<1>6. {deposits[k].id : k \in 1 .. n} = {id \in 1 .. deposit_count : id + n > deposit_count}
  BY <1>4, <1>5
<1> QED
  BY <1>1, <1>3, <1>6 DEF RingHoldsLatest, n

\* The ring always holds exactly the latest deposits.
THEOREM RingCorrect == Spec => []RingHoldsLatest
<1>1. Init => RingShape
  BY CapPositive DEF Init, RingShape
<1> QED
  BY <1>1, RingShapeStep, ShapeGivesLatest, TypeCorrect, PTL DEF Spec

-----------------------------------------------------------------------------
(***************************************************************************)
(* The money.  That saturating_sub never saturates needs: the active       *)
(* records of a stakeholder add up to no more than the balance.  Covers    *)
(* says so without a sum: there is a running total f over the deposit ids  *)
(* that never decreases, steps by the amount of each record of `mine` that *)
(* is still active, and ends at the balance.  Ids the ring has forgotten   *)
(* may step by anything.                                                   *)
(***************************************************************************)
Running(f, seq, n, mine) ==
  /\ \A i, j \in 0 .. n : i <= j => f[i] <= f[j]
  /\ \A k \in 1 .. Len(seq) :
       seq[k].stakeholder \in mine /\ seq[k].status = "Active" =>
         f[seq[k].id] = f[seq[k].id - 1] + seq[k].amount

Covers(seq, n, mine, balance) ==
  \E f \in [0 .. n -> Nat] : f[n] = balance /\ Running(f, seq, n, mine)

\* Lowering a sum and its first part by the same amount keeps the difference.
LEMMA ShiftedSum ==
  ASSUME NEW u \in Nat, NEW v \in Nat, NEW m \in Nat, NEW c \in Nat, u = v + m
  PROVE  u - c = (v - c) + m
OBVIOUS

\* An id and its predecessor are both indices of a running total.
LEMMA Predecessor ==
  ASSUME NEW m \in Nat, NEW x \in 1 .. m
  PROVE  x \in 0 .. m /\ x - 1 \in 0 .. m /\ x \in Int
  OBVIOUS

\* What TypeOK says of one slot.
LEMMA SlotTypes ==
  ASSUME TypeOK, NEW k \in 1 .. Len(deposits)
  PROVE  deposits[k] \in Record /\ deposits[k].amount \in Nat
<1>1. deposits[k] \in Record
  BY LenProperties DEF TypeOK
<1>2. deposits[k].amount \in Amounts
  BY <1>1 DEF Record
<1> QED
  BY <1>1, <1>2, AmountsAreNat

LEMMA DepositCovers ==
  ASSUME TypeOK, RingShape, NEW d \in Record, Push(d),
         d.id = deposit_count + 1, NEW mine, NEW balance \in Nat,
         Covers(deposits, deposit_count, mine, balance)
  PROVE  Covers(deposits', deposit_count + 1, mine,
                balance + (IF d.stakeholder \in mine THEN d.amount ELSE 0))
<1> DEFINE n == deposit_count
           step == IF d.stakeholder \in mine THEN d.amount ELSE 0
<1>1. /\ n \in Nat /\ Len(deposits) \in Nat /\ Len(deposits') \in Nat
      /\ d.amount \in Nat /\ step \in Nat
  BY PushEffect, LenProperties, AmountsAreNat DEF TypeOK, Record
<1>2. \A k \in 1 .. Len(deposits) : deposits[k].id \in 1 .. n
  BY ShapeGivesLatest, LenProperties DEF RingHoldsLatest, TypeOK
<1>3. \A k \in 1 .. Len(deposits') :
        deposits'[k] = d \/ (k \in 1 .. Len(deposits) /\ deposits'[k] = deposits[k])
  BY <1>1, PushEffect
<1>4. PICK f \in [0 .. n -> Nat] : f[n] = balance /\ Running(f, deposits, n, mine)
  BY DEF Covers
<1> DEFINE g == [i \in 0 .. n + 1 |-> IF i <= n THEN f[i] ELSE f[n] + step]
<1>5. g \in [0 .. n + 1 -> Nat] /\ g[n + 1] = balance + step
  BY <1>1, <1>4
<1>9. \A x \in 0 .. n : g[x] = f[x]
  BY <1>1
<1> HIDE DEF g
<1>6. ASSUME NEW i \in 0 .. n + 1, NEW j \in 0 .. n + 1, i <= j
      PROVE  g[i] <= g[j]
  <2>1. \A x \in 0 .. n : f[x] <= f[n] /\ f[x] \in Nat
    BY <1>1, <1>4 DEF Running
  <2>2. CASE j <= n
    BY <1>1, <1>4, <1>6, <1>9, <2>2 DEF Running
  <2>3. CASE j = n + 1
    BY <1>1, <1>4, <1>5, <1>6, <1>9, <2>1, <2>3
  <2> QED
    BY <1>1, <2>2, <2>3
<1>7. ASSUME NEW k \in 1 .. Len(deposits'), deposits'[k].stakeholder \in mine,
             deposits'[k].status = "Active"
      PROVE  g[deposits'[k].id] = g[deposits'[k].id - 1] + deposits'[k].amount
  <2>1. CASE deposits'[k] = d
    <3>1. d.id = n + 1 /\ d.amount = step
      BY <1>7, <2>1
    <3>2. g[n + 1] = g[n] + step
      BY <1>1, <1>4, <1>5, <1>9
    <3>3. (n + 1) - 1 = n
      BY <1>1
    <3> HIDE DEF step
    <3> QED
      BY <2>1, <3>1, <3>2, <3>3
  <2>2. CASE k \in 1 .. Len(deposits) /\ deposits'[k] = deposits[k]
    <3>1. f[deposits[k].id] = f[deposits[k].id - 1] + deposits[k].amount
      BY <1>4, <1>7, <2>2 DEF Running
    <3>2. deposits[k].id \in 0 .. n /\ deposits[k].id - 1 \in 0 .. n
      <4>1. deposits[k].id \in 1 .. n
        BY <1>2, <2>2
      <4> QED
        BY <1>1, <4>1, Predecessor
    <3> QED
      BY <1>9, <2>2, <3>1, <3>2
  <2> QED
    BY <1>3, <2>1, <2>2
<1>8. Running(g, deposits', n + 1, mine)
  BY <1>6, <1>7 DEF Running
<1> QED
  BY <1>5, <1>8 DEF Covers

LEMMA WithdrawCovers ==
  ASSUME TypeOK, RingShape, NEW i \in 1 .. Len(deposits), deposits[i].status = "Active",
         deposits' = [deposits EXCEPT ![i] = Settled(deposits[i])],
         NEW mine, NEW balance \in Nat,
         Covers(deposits, deposit_count, mine, balance)
  PROVE  LET paidOut == IF deposits[i].stakeholder \in mine THEN deposits[i].amount ELSE 0
         IN  /\ paidOut <= balance
             /\ Covers(deposits', deposit_count, mine, balance - paidOut)
<1> DEFINE n == deposit_count
           id == deposits[i].id
           amount == deposits[i].amount
<1>1. n \in Nat /\ Len(deposits) \in Nat /\ deposits[i] \in Record /\ amount \in Nat
  BY LenProperties, SlotTypes DEF TypeOK
<1>2. /\ \A k \in 1 .. Len(deposits) : deposits[k].id \in 1 .. n
      /\ \A k \in 1 .. Len(deposits) : deposits[k].id = id => k = i
  BY ShapeGivesLatest, LenProperties DEF RingHoldsLatest, TypeOK
<1>3. /\ Len(deposits') = Len(deposits)
      /\ deposits'[i].status = "Withdrawn"
      /\ \A k \in 1 .. Len(deposits) : k # i => deposits'[k] = deposits[k]
  BY SettleEffect
<1>4. PICK f \in [0 .. n -> Nat] : f[n] = balance /\ Running(f, deposits, n, mine)
  BY DEF Covers
<1>5. CASE deposits[i].stakeholder \notin mine
  <2>1. Running(f, deposits', n, mine)
    BY <1>3, <1>4 DEF Running
  <2>2. 0 <= balance /\ balance - 0 = balance
    OBVIOUS
  <2> QED
    BY <1>4, <1>5, <2>1, <2>2 DEF Covers
<1>6. CASE deposits[i].stakeholder \in mine
  <2> DEFINE g == [x \in 0 .. n |-> IF x >= id THEN f[x] - amount ELSE f[x]]
  <2>1. id \in 1 .. n /\ id - 1 \in 0 .. n /\ f[id] = f[id - 1] + amount
    BY <1>1, <1>2, <1>4, <1>6 DEF Running
  <2>2. \A x, y \in 0 .. n : x <= y => f[x] <= f[y]
    BY <1>4 DEF Running
  <2>3. \A x \in 0 .. n : f[x] \in Nat
    BY <1>4
  <2>11. amount \in Nat /\ id \in Int /\ n \in Nat
    BY <1>1, <2>1
  <2> HIDE DEF id, amount, n
  <2>4. \A x \in 0 .. n : x >= id => f[x] >= amount /\ f[x] - amount >= f[id - 1]
    BY <1>1, <2>1, <2>2, <2>3
  <2>5. g \in [0 .. n -> Nat] /\ amount <= balance /\ g[n] = balance - amount
    BY <1>1, <1>4, <2>1, <2>3, <2>4
  <2>10. \A x \in 0 .. n : g[x] = IF x >= id THEN f[x] - amount ELSE f[x]
    OBVIOUS
  <2> HIDE DEF g
  <2>6. ASSUME NEW x \in 0 .. n, NEW y \in 0 .. n, x <= y
        PROVE  g[x] <= g[y]
    <3>1. x < id => f[x] <= f[id - 1]
      BY <1>1, <2>1, <2>2
    <3>2. f[x] <= f[y] /\ f[x] \in Nat /\ f[y] \in Nat /\ f[id - 1] \in Nat
      BY <2>1, <2>2, <2>3, <2>6
    <3>3. y >= id => f[y] - amount >= f[id - 1]
      BY <2>4
    <3>4. /\ g[x] = IF x >= id THEN f[x] - amount ELSE f[x]
          /\ g[y] = IF y >= id THEN f[y] - amount ELSE f[y]
      BY <2>10
    <3> QED
      BY <2>6, <2>11, <3>1, <3>2, <3>3, <3>4
  <2>7. ASSUME NEW k \in 1 .. Len(deposits'), deposits'[k].stakeholder \in mine,
               deposits'[k].status = "Active"
        PROVE  g[deposits'[k].id] = g[deposits'[k].id - 1] + deposits'[k].amount
    <3>1. k # i /\ k \in 1 .. Len(deposits) /\ deposits'[k] = deposits[k]
      BY <1>3, <2>7
    <3>2. f[deposits[k].id] = f[deposits[k].id - 1] + deposits[k].amount
      BY <1>4, <2>7, <3>1 DEF Running
    <3>3. deposits[k].id \in 1 .. n /\ deposits[k].id # id
      BY <1>2, <3>1 DEF id, n
    <3>4. deposits[k].amount \in Nat
      BY <3>1, SlotTypes
    <3> DEFINE a == deposits[k].id
    <3>5. a \in 0 .. n /\ a - 1 \in 0 .. n /\ a \in Int
      <4>1. a \in 1 .. n
        BY <3>3
      <4> QED
        BY <2>11, <4>1, Predecessor
    <3>6. f[a] = f[a - 1] + deposits[k].amount /\ f[a] \in Nat /\ f[a - 1] \in Nat
      BY <2>3, <3>2, <3>5
    <3>7. /\ g[a] = IF a >= id THEN f[a] - amount ELSE f[a]
          /\ g[a - 1] = IF a - 1 >= id THEN f[a - 1] - amount ELSE f[a - 1]
      BY <2>10, <3>5
    <3>8. g[a] = g[a - 1] + deposits[k].amount
      <4> HIDE DEF a
      <4>1. a # id
        BY <3>3 DEF a
      <4>2. CASE a > id
        <5>1. g[a] = f[a] - amount /\ g[a - 1] = f[a - 1] - amount
          BY <2>11, <3>5, <3>7, <4>2
        <5>2. f[a] - amount = (f[a - 1] - amount) + deposits[k].amount
          BY <2>11, <3>4, <3>6, ShiftedSum
        <5> QED
          BY <5>1, <5>2
      <4>3. CASE a < id
        <5>1. g[a] = f[a] /\ g[a - 1] = f[a - 1]
          BY <2>11, <3>5, <3>7, <4>3
        <5> QED
          BY <3>6, <5>1
      <4> QED
        BY <2>11, <3>5, <4>1, <4>2, <4>3
    <3> QED
      BY <3>1, <3>8
  <2>8. Running(g, deposits', n, mine)
    BY <2>6, <2>7 DEF Running
  <2>9. Covers(deposits', n, mine, balance - amount)
    BY <2>5, <2>8 DEF Covers
  <2> QED
    BY <1>6, <2>5, <2>9 DEF amount, n
<1> QED
  BY <1>5, <1>6

-----------------------------------------------------------------------------
(***************************************************************************)
(* The balances agree with the true sums whenever those fit in a u64.      *)
(***************************************************************************)
Accounting ==
  /\ \A s \in Accounts : Covers(deposits, deposit_count, {s}, stakeholder_active[s])
  /\ Covers(deposits, deposit_count, Accounts, total_active)
  /\ PrincipalConserved
  /\ TotalsConserved
  /\ \A s \in Accounts : lifetime[s] <= declared
  /\ declared <= Supply

\* A deposit raises the caller's balance and the totals by its exact amount.
LEMMA ExactDeposit ==
  ASSUME Supply < U64, TypeOK, Accounting,
         NEW caller \in Accounts, NEW amount \in Amounts, Deposit(caller, amount)
  PROVE  /\ amount \in Nat
         /\ declared + amount <= Supply
         /\ stakeholder_active' = [stakeholder_active EXCEPT ![caller] = @ + amount]
         /\ total_deposited' = total_deposited + amount
         /\ total_active' = total_active + amount
<1>1. amount \in Nat /\ declared + amount <= Supply
  BY AmountsAreNat DEF Deposit
<1>2. /\ stakeholder_active[caller] \in Nat /\ paid[caller] \in Nat /\ lifetime[caller] \in Nat
      /\ total_deposited \in Nat /\ total_active \in Nat /\ total_withdrawn \in Nat
      /\ declared \in Nat
  BY DEF TypeOK
<1>3. /\ stakeholder_active[caller] <= declared
      /\ total_deposited <= declared /\ total_active <= declared
  BY <1>2 DEF Accounting, PrincipalConserved, TotalsConserved
<1>4. \A b \in Nat : b <= declared => WrapAdd(b, amount) = b + amount
  BY <1>1, <1>2, SupplyAssumption, U64Assumption DEF WrapAdd
<1>5. /\ stakeholder_active' = [stakeholder_active EXCEPT ![caller] = WrapAdd(@, amount)]
      /\ total_deposited' = WrapAdd(total_deposited, amount)
      /\ total_active' = WrapAdd(total_active, amount)
  BY DEF Deposit
<1> QED
  BY <1>1, <1>2, <1>3, <1>4, <1>5

\* A withdrawal lowers the caller's balance and the total by the exact amount
\* of the record: neither saturating_sub saturates.
LEMMA ExactWithdraw ==
  ASSUME Supply < U64, TypeOK, RingShape, Accounting,
         NEW caller \in Accounts, NEW id \in 1 .. deposit_count, Withdraw(caller, id)
  PROVE  \E i \in 1 .. Len(deposits) :
           LET amount == deposits[i].amount IN
           /\ amount \in Amounts
           /\ deposits[i].stakeholder = caller /\ deposits[i].status = "Active"
           /\ deposits' = [deposits EXCEPT ![i] = Settled(deposits[i])]
           /\ amount <= stakeholder_active[caller] /\ amount <= total_active
           /\ stakeholder_active' = [stakeholder_active EXCEPT ![caller] = @ - amount]
           /\ total_active' = total_active - amount
           /\ total_withdrawn' = total_withdrawn + amount
           /\ paid' = [paid EXCEPT ![caller] = @ + amount]
<1>1. PICK i \in 1 .. Len(deposits) :
        /\ deposits[i].stakeholder = caller /\ deposits[i].status = "Active"
        /\ deposits' = [deposits EXCEPT ![i] = Settled(deposits[i])]
        /\ stakeholder_active' = [stakeholder_active EXCEPT
                                    ![caller] = SaturatingSub(@, deposits[i].amount)]
        /\ total_active' = SaturatingSub(total_active, deposits[i].amount)
        /\ total_withdrawn' = WrapAdd(total_withdrawn, deposits[i].amount)
        /\ paid' = [paid EXCEPT ![caller] = @ + deposits[i].amount]
  BY DEF Withdraw, Payable
<1> DEFINE amount == deposits[i].amount
<1>2. amount \in Nat /\ deposits[i] \in Record
  BY SlotTypes
<1>3. amount \in Amounts
  BY <1>2 DEF Record
<1>4. /\ stakeholder_active[caller] \in Nat /\ total_active \in Nat
      /\ total_withdrawn \in Nat /\ total_deposited \in Nat /\ declared \in Nat
  BY DEF TypeOK
<1>5. amount <= stakeholder_active[caller]
  <2>1. Covers(deposits, deposit_count, {caller}, stakeholder_active[caller])
    BY DEF Accounting
  <2> QED
    BY <1>1, <1>4, <2>1, WithdrawCovers
<1>6. amount <= total_active
  <2>1. Covers(deposits, deposit_count, Accounts, total_active)
    BY DEF Accounting
  <2> QED
    BY <1>1, <1>4, <2>1, WithdrawCovers
<1>7. SaturatingSub(stakeholder_active[caller], amount) = stakeholder_active[caller] - amount
  BY <1>5 DEF SaturatingSub
<1>8. SaturatingSub(total_active, amount) = total_active - amount
  BY <1>6 DEF SaturatingSub
<1>9. WrapAdd(total_withdrawn, amount) = total_withdrawn + amount
  <2>1. total_withdrawn + amount <= Supply
    <3>1. total_active + total_withdrawn = declared /\ declared <= Supply
      BY DEF Accounting, TotalsConserved
    <3> HIDE DEF amount
    <3> QED
      BY <1>2, <1>4, <1>6, <3>1, SupplyAssumption DEF amount
  <2> QED
    BY <1>2, <1>4, <2>1, SupplyAssumption, U64Assumption DEF WrapAdd
<1> WITNESS i \in 1 .. Len(deposits)
<1> QED
  BY <1>1, <1>3, <1>5, <1>6, <1>7, <1>8, <1>9

LEMMA AccountingStep ==
  ASSUME Supply < U64
  PROVE  TypeOK /\ RingShape /\ Accounting /\ [Next]_vars => Accounting'
<1> SUFFICES ASSUME TypeOK, RingShape, Accounting, [Next]_vars
             PROVE  Accounting'
  OBVIOUS
<1>1. ASSUME NEW caller \in Accounts, NEW amount \in Amounts, Deposit(caller, amount)
      PROVE  Accounting'
  <2> DEFINE d == NewRecord(deposit_count + 1, caller, amount)
  <2>1. /\ amount \in Nat
        /\ declared + amount <= Supply
        /\ stakeholder_active' = [stakeholder_active EXCEPT ![caller] = @ + amount]
        /\ total_deposited' = total_deposited + amount
        /\ total_active' = total_active + amount
    BY <1>1, ExactDeposit
  <2>2. /\ Push(d) /\ deposit_count' = deposit_count + 1
        /\ lifetime' = [lifetime EXCEPT ![caller] = @ + amount]
        /\ declared' = declared + amount
        /\ total_withdrawn' = total_withdrawn /\ paid' = paid
    BY <1>1 DEF Deposit
  <2>3. d \in Record
    BY NewRecordType DEF TypeOK
  <2>4. d.id = deposit_count + 1 /\ d.stakeholder = caller /\ d.amount = amount
    BY DEF NewRecord
  <2>5. /\ stakeholder_active \in [Accounts -> Nat] /\ lifetime \in [Accounts -> Nat]
        /\ paid \in [Accounts -> Nat] /\ declared \in Nat /\ total_active \in Nat
        /\ total_withdrawn \in Nat /\ total_deposited \in Nat
    BY DEF TypeOK
  <2> HIDE DEF d
  <2>6. ASSUME NEW s \in Accounts
        PROVE  Covers(deposits', deposit_count', {s}, stakeholder_active'[s])
    <3>1. Covers(deposits, deposit_count, {s}, stakeholder_active[s])
      BY DEF Accounting
    <3>2. Covers(deposits', deposit_count + 1, {s},
                 stakeholder_active[s] + (IF d.stakeholder \in {s} THEN d.amount ELSE 0))
      BY <2>2, <2>3, <2>4, <2>5, <3>1, DepositCovers
    <3>3. stakeholder_active'[s] =
            stakeholder_active[s] + (IF d.stakeholder \in {s} THEN d.amount ELSE 0)
      BY <2>1, <2>4, <2>5
    <3> QED
      BY <2>2, <3>2, <3>3
  <2>7. Covers(deposits', deposit_count', Accounts, total_active')
    <3>1. Covers(deposits', deposit_count + 1, Accounts,
                 total_active + (IF d.stakeholder \in Accounts THEN d.amount ELSE 0))
      BY <2>2, <2>3, <2>4, <2>5, DepositCovers DEF Accounting
    <3> QED
      BY <2>1, <2>2, <2>4, <3>1
  <2>8. PrincipalConserved'
    BY <2>1, <2>2, <2>5 DEF Accounting, PrincipalConserved
  <2>9. TotalsConserved' /\ declared' <= Supply
    BY <2>1, <2>2, <2>5 DEF Accounting, TotalsConserved
  <2>10. \A s \in Accounts : lifetime'[s] <= declared'
    BY <2>1, <2>2, <2>5 DEF Accounting
  <2> QED
    BY <2>6, <2>7, <2>8, <2>9, <2>10 DEF Accounting
<1>2. ASSUME NEW caller \in Accounts, NEW id \in 1 .. deposit_count, Withdraw(caller, id)
      PROVE  Accounting'
  <2>1. PICK i \in 1 .. Len(deposits) :
          /\ deposits[i].amount \in Amounts
          /\ deposits[i].stakeholder = caller /\ deposits[i].status = "Active"
          /\ deposits' = [deposits EXCEPT ![i] = Settled(deposits[i])]
          /\ deposits[i].amount <= stakeholder_active[caller]
          /\ deposits[i].amount <= total_active
          /\ stakeholder_active' = [stakeholder_active EXCEPT ![caller] = @ - deposits[i].amount]
          /\ total_active' = total_active - deposits[i].amount
          /\ total_withdrawn' = total_withdrawn + deposits[i].amount
          /\ paid' = [paid EXCEPT ![caller] = @ + deposits[i].amount]
    BY <1>2, ExactWithdraw
  <2>2. /\ deposit_count' = deposit_count /\ lifetime' = lifetime
        /\ declared' = declared /\ total_deposited' = total_deposited
    BY <1>2 DEF Withdraw
  <2>3. /\ stakeholder_active \in [Accounts -> Nat] /\ lifetime \in [Accounts -> Nat]
        /\ paid \in [Accounts -> Nat] /\ declared \in Nat /\ total_active \in Nat
        /\ total_withdrawn \in Nat /\ total_deposited \in Nat
        /\ deposits[i].amount \in Nat
    BY <2>1, AmountsAreNat DEF TypeOK
  <2>4. ASSUME NEW s \in Accounts
        PROVE  Covers(deposits', deposit_count', {s}, stakeholder_active'[s])
    <3>1. Covers(deposits, deposit_count, {s}, stakeholder_active[s])
      BY DEF Accounting
    <3>2. Covers(deposits', deposit_count, {s}, stakeholder_active[s]
                 - (IF deposits[i].stakeholder \in {s} THEN deposits[i].amount ELSE 0))
      BY <2>1, <2>3, <3>1, WithdrawCovers
    <3>3. stakeholder_active'[s] = stakeholder_active[s]
            - (IF deposits[i].stakeholder \in {s} THEN deposits[i].amount ELSE 0)
      <4>1. deposits[i].stakeholder = caller
        BY <2>1
      <4>2. CASE s = caller
        BY <2>1, <2>3, <4>1, <4>2
      <4>3. CASE s # caller
        <5>1. stakeholder_active'[s] = stakeholder_active[s]
          BY <2>1, <2>3, <4>3
        <5> QED
          BY <2>3, <4>1, <4>3, <5>1
      <4> QED
        BY <4>2, <4>3
    <3> QED
      BY <2>2, <3>2, <3>3
  <2>5. Covers(deposits', deposit_count', Accounts, total_active')
    <3>1. Covers(deposits', deposit_count, Accounts, total_active
                 - (IF deposits[i].stakeholder \in Accounts THEN deposits[i].amount ELSE 0))
      BY <2>1, <2>3, WithdrawCovers DEF Accounting
    <3> QED
      BY <2>1, <2>2, <3>1
  <2>6. PrincipalConserved'
    <3>1. \A s \in Accounts : stakeholder_active'[s] + paid'[s] = stakeholder_active[s] + paid[s]
      BY <2>1, <2>3
    <3> QED
      BY <2>2, <3>1 DEF Accounting, PrincipalConserved
  <2>7. TotalsConserved'
    BY <2>1, <2>2, <2>3 DEF Accounting, TotalsConserved
  <2>8. declared' <= Supply /\ \A s \in Accounts : lifetime'[s] <= declared'
    BY <2>2 DEF Accounting
  <2> QED
    BY <2>4, <2>5, <2>6, <2>7, <2>8 DEF Accounting
<1>3. ASSUME UNCHANGED <<stakeholder_active, deposits, deposit_count, total_deposited,
                         total_active, total_withdrawn, paid, lifetime, declared>>
      PROVE  Accounting'
  BY <1>3 DEF Accounting, PrincipalConserved, TotalsConserved
<1> QED
  BY <1>1, <1>2, <1>3 DEF Next, vars, contractVars, SetPaused, FundPurse

LEMMA AccountingInit == Init => Accounting
<1> SUFFICES ASSUME Init
             PROVE  Accounting
  OBVIOUS
<1> DEFINE f == [x \in 0 .. 0 |-> 0]
<1>1. \A mine : Covers(deposits, deposit_count, mine, 0)
  <2>1. deposit_count = 0 /\ Len(deposits) = 0
    BY DEF Init
  <2>2. f \in [0 .. 0 -> Nat] /\ f[0] = 0 /\ \A mine : Running(f, deposits, 0, mine)
    BY <2>1 DEF Running
  <2> QED
    BY <2>1, <2>2 DEF Covers
<1>2. /\ \A s \in Accounts : stakeholder_active[s] = 0 /\ paid[s] = 0 /\ lifetime[s] = 0
      /\ total_active = 0 /\ total_withdrawn = 0 /\ total_deposited = 0 /\ declared = 0
  BY DEF Init
<1> QED
  BY <1>1, <1>2, SupplyAssumption DEF Accounting, PrincipalConserved, TotalsConserved

\* Every stakeholder's balance plus payouts is their true lifetime principal,
\* and the aggregates agree, for as long as the declared total fits in a u64.
THEOREM BalancesConserved ==
  ASSUME Supply < U64
  PROVE  Spec => [](PrincipalConserved /\ TotalsConserved)
<1>1. TypeOK /\ RingShape /\ Accounting /\ [Next]_vars => Accounting'
  BY AccountingStep
<1>2. Init => RingShape
  BY CapPositive DEF Init, RingShape
<1>3. Accounting => PrincipalConserved /\ TotalsConserved
  BY DEF Accounting
<1> QED
  BY <1>1, <1>2, <1>3, AccountingInit, RingShapeStep, TypeCorrect, PTL DEF Spec

\* The counters agree with each other and with the true sum, under the same
\* condition: no withdrawal is counted that did not lower the active total.
THEOREM TotalsStayExact ==
  ASSUME Supply < U64
  PROVE  Spec => []TotalsConserved
<1>1. Spec => [](PrincipalConserved /\ TotalsConserved)
  BY BalancesConserved
<1> QED
  BY <1>1, PTL

-----------------------------------------------------------------------------
(***************************************************************************)
(* The aggregate is the sum of the balances, for finitely many accounts:   *)
(* a call changes one balance, and the aggregate by the same amount.       *)
(***************************************************************************)
ActiveAddsUp == total_active = SumOf(stakeholder_active, Accounts)

\* The library's sum of a function is the sum of its values.
LEMMA SumFunctionIsSum == \A f : SumFunction(f) = SumOf(f, DOMAIN f)
  BY DEF SumFunction, SumFunctionOnSet, FoldFunctionOnSet, MapThenFoldSet, SumOf, MapThenSumSet

LEMMA ActiveStep ==
  ASSUME Supply < U64, IsFiniteSet(Accounts)
  PROVE  TypeOK /\ RingShape /\ Accounting /\ ActiveAddsUp /\ [Next]_vars => ActiveAddsUp'
<1>. SUFFICES ASSUME TypeOK, RingShape, Accounting, ActiveAddsUp, [Next]_vars
              PROVE  ActiveAddsUp'
  OBVIOUS
<1>. DEFINE f == stakeholder_active
            k == stakeholder_active'
<1>1. f \in [Accounts -> Nat] /\ total_active \in Nat /\ TypeOK'
  BY TypeStep DEF TypeOK
<1>2. k \in [Accounts -> Nat]
  BY <1>1 DEF TypeOK
<1>3. ASSUME NEW caller \in Accounts, NEW d \in Int,
             stakeholder_active' = [stakeholder_active EXCEPT ![caller] = @ + d],
             total_active' = total_active + d
      PROVE  ActiveAddsUp'
  <2>1. k[caller] = f[caller] + d /\ \A s \in Accounts \ {caller} : k[s] = f[s]
    BY <1>1, <1>3
  <2>. HIDE DEF f, k
  <2>2. SumOf(k, Accounts) = SumOf(f, Accounts) + d
    BY <1>1, <1>2, <1>3, <2>1, SumGrows
  <2> QED
    BY <1>3, <2>2 DEF ActiveAddsUp, f, k
<1>4. ASSUME NEW caller \in Accounts, NEW amount \in Amounts, Deposit(caller, amount)
      PROVE  ActiveAddsUp'
  BY <1>3, <1>4, ExactDeposit
<1>5. ASSUME NEW caller \in Accounts, NEW id \in 1 .. deposit_count, Withdraw(caller, id)
      PROVE  ActiveAddsUp'
  <2>1. PICK amount \in Amounts :
          /\ stakeholder_active' = [stakeholder_active EXCEPT ![caller] = @ - amount]
          /\ total_active' = total_active - amount
    BY <1>5, ExactWithdraw
  <2>. DEFINE d == -amount
  <2>2. d \in Int /\ amount \in Nat
    BY AmountsAreNat
  <2>3. /\ stakeholder_active' = [stakeholder_active EXCEPT ![caller] = @ + d]
        /\ total_active' = total_active + d
    BY <1>1, <2>1, <2>2
  <2>. HIDE DEF d
  <2> QED
    BY <1>3, <2>2, <2>3
<1>6. ASSUME UNCHANGED <<stakeholder_active, total_active>>
      PROVE  ActiveAddsUp'
  BY <1>6 DEF ActiveAddsUp
<1> QED
  BY <1>4, <1>5, <1>6 DEF Next, vars, contractVars, SetPaused, FundPurse

\* The aggregate never drifts away from the balances it sums up, whatever is
\* deposited, overwritten and withdrawn.
THEOREM ActiveStaysSum ==
  ASSUME Supply < U64, IsFiniteSet(Accounts)
  PROVE  Spec => []ActiveIsSum
<1>1. TypeOK /\ RingShape /\ Accounting /\ ActiveAddsUp /\ [Next]_vars
        => ActiveAddsUp' /\ Accounting' /\ RingShape' /\ TypeOK'
  BY ActiveStep, AccountingStep, RingShapeStep, TypeStep
<1>2. Init => TypeOK /\ RingShape /\ Accounting /\ ActiveAddsUp
  <2>. SUFFICES ASSUME Init PROVE TypeOK /\ RingShape /\ Accounting /\ ActiveAddsUp
    OBVIOUS
  <2>1. TypeOK /\ RingShape /\ Accounting
    BY TypeInit, AccountingInit, CapPositive DEF Init, RingShape
  <2>2. ActiveAddsUp
    BY SumOfZeros DEF Init, ActiveAddsUp
  <2> QED
    BY <2>1, <2>2
<1>3. TypeOK /\ ActiveAddsUp => ActiveIsSum
  BY SumFunctionIsSum DEF TypeOK, ActiveAddsUp, ActiveIsSum
<1> QED
  BY <1>1, <1>2, <1>3, PTL DEF Spec

-----------------------------------------------------------------------------
(***************************************************************************)
(* No record is withdrawn twice.                                           *)
(***************************************************************************)

\* A withdrawn record stays as it is until a newer one takes its slot: a
\* withdrawal rewrites active records only, and what a full ring overwrites
\* makes room for an id above all that are in it.
LEMMA WithdrawnStep ==
  ASSUME TypeOK, RingShape, [Next]_vars, NEW k \in DOMAIN deposits,
         deposits[k].status = "Withdrawn"
  PROVE  deposits'[k] = deposits[k] \/ deposits'[k].id > deposits[k].id
<1>1. /\ DOMAIN deposits = 1 .. Len(deposits) /\ Len(deposits) \in Nat
      /\ deposit_count \in Nat /\ head \in 0 .. Cap - 1 /\ Cap \in Nat \ {0}
  BY LenProperties, CapPositive DEF TypeOK
<1>2. deposits[k].id \in Nat /\ deposits[k].id <= deposit_count
  BY <1>1 DEF RingShape
<1>3. ASSUME NEW caller \in Accounts, NEW amount \in Amounts, Deposit(caller, amount)
      PROVE  deposits'[k] = deposits[k] \/ deposits'[k].id > deposits[k].id
  <2>. DEFINE d == NewRecord(deposit_count + 1, caller, amount)
  <2>1. Push(d) /\ d \in Record /\ d.id = deposit_count + 1
    <3>1. Push(d)
      BY <1>3 DEF Deposit
    <3>2. d \in Record
      BY <1>1, NewRecordType
    <3>3. d.id = deposit_count + 1
      BY DEF NewRecord
    <3> QED
      BY <3>1, <3>2, <3>3
  <2>. HIDE DEF d
  <2>2. deposits'[k] = deposits[k] \/ deposits'[k] = d
    BY <1>1, <2>1, PushEffect
  <2> QED
    BY <1>1, <1>2, <2>1, <2>2
<1>4. ASSUME NEW caller \in Accounts, NEW id \in 1 .. deposit_count, Withdraw(caller, id)
      PROVE  deposits'[k] = deposits[k]
  <2>1. PICK i \in 1 .. Len(deposits) :
          /\ deposits' = [deposits EXCEPT ![i] = Settled(deposits[i])]
          /\ deposits[i].status = "Active"
    BY <1>4 DEF Withdraw, Payable
  <2> QED
    BY <1>1, <2>1, SettleEffect
<1>5. ASSUME UNCHANGED deposits
      PROVE  deposits'[k] = deposits[k]
  BY <1>5
<1> QED
  BY <1>3, <1>4, <1>5 DEF Next, vars, contractVars, SetPaused, FundPurse

\* A deposit, once withdrawn, never becomes withdrawable again.
THEOREM WithdrawnStaysFinal == Spec => WithdrawnIsFinal
<1>1. TypeOK /\ RingShape /\ [Next]_vars =>
        [\A k \in DOMAIN deposits :
           deposits[k].status = "Withdrawn" =>
             \/ deposits'[k] = deposits[k]
             \/ deposits'[k].id > deposits[k].id]_vars
  BY WithdrawnStep
<1>2. Init => RingShape
  BY CapPositive DEF Init, RingShape
<1> QED
  BY <1>1, <1>2, RingShapeStep, TypeCorrect, PTL DEF Spec, WithdrawnIsFinal

\* The contract implements the principal ledger under the same condition: what
\* a withdrawal pays always was in the caller's balance.
THEOREM LedgerRefinement ==
  ASSUME Supply < U64
  PROVE  Spec => ImplementsLedger
<1>1. Init => Ledger!Init
  BY DEF Init, Ledger!Init
<1>2. TypeOK /\ RingShape /\ Accounting /\ [Next]_vars => [Ledger!Next]_(Ledger!ledgerVars)
  <2> SUFFICES ASSUME TypeOK, RingShape, Accounting, [Next]_vars
               PROVE  [Ledger!Next]_(Ledger!ledgerVars)
    OBVIOUS
  <2>1. ASSUME NEW caller \in Accounts, NEW amount \in Amounts, Deposit(caller, amount)
        PROVE  Ledger!Next
    <3>1. Ledger!Deposit(caller, amount) /\ amount # 0
      <4>1. amount > 0 /\ paid' = paid
        BY <2>1 DEF Deposit
      <4>2. /\ amount \in Nat
            /\ stakeholder_active' = [stakeholder_active EXCEPT ![caller] = @ + amount]
        BY <2>1, ExactDeposit
      <4> QED
        BY <4>1, <4>2 DEF Ledger!Deposit
    <3> QED
      BY <3>1 DEF Ledger!Next
  <2>2. ASSUME NEW caller \in Accounts, NEW id \in 1 .. deposit_count, Withdraw(caller, id)
        PROVE  [Ledger!Next]_(Ledger!ledgerVars)
    <3>1. PICK i \in 1 .. Len(deposits) :
            /\ deposits[i].amount \in Amounts
            /\ deposits[i].amount <= stakeholder_active[caller]
            /\ stakeholder_active' = [stakeholder_active EXCEPT ![caller] = @ - deposits[i].amount]
            /\ paid' = [paid EXCEPT ![caller] = @ + deposits[i].amount]
      BY <2>2, ExactWithdraw
    <3>2. Ledger!Withdraw(caller, deposits[i].amount)
      BY <3>1 DEF Ledger!Withdraw
    <3>3. CASE deposits[i].amount # 0
      BY <3>1, <3>2, <3>3 DEF Ledger!Next
    <3>4. CASE deposits[i].amount = 0
      BY <3>1, <3>4 DEF Ledger!ledgerVars, TypeOK
    <3> QED
      BY <3>3, <3>4
  <2>3. ASSUME UNCHANGED <<stakeholder_active, paid>>
        PROVE  UNCHANGED Ledger!ledgerVars
    BY <2>3 DEF Ledger!ledgerVars
  <2> QED
    BY <2>1, <2>2, <2>3 DEF Next, vars, contractVars, SetPaused, FundPurse
<1>3. TypeOK /\ RingShape /\ Accounting /\ [Next]_vars => Accounting'
  BY AccountingStep
<1>4. Init => RingShape
  BY CapPositive DEF Init, RingShape
<1> QED
  BY <1>1, <1>2, <1>3, <1>4, AccountingInit, RingShapeStep, TypeCorrect, PTL
     DEF Spec, ImplementsLedger, Ledger!Spec
=============================================================================
