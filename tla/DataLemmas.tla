----------------------------- MODULE DataLemmas -----------------------------
(***************************************************************************)
(* What the proofs rest on about the operators that run through data: the  *)
(* bounded history of HistoryRing shows the end of the whole history,      *)
(* MapThenSumSet adds up as a sum should, and FoldLeft takes a sequence    *)
(* one place after the other.                                              *)
(*                                                                         *)
(* Sums and folds are recursive functions on the subsets of a set, which   *)
(* take the elements in an order of their own, so that the recursion has a *)
(* solution, and for sums that the order does not matter, come first, by   *)
(* induction on the size of the sets.  The induction is carried out on a   *)
(* set of numbers, since that is what the provers can be given.            *)
(***************************************************************************)
EXTENDS HistoryRing, FiniteSetsExt, FiniteSetTheorems, SequenceTheorems, TLAPS

SumOf(f, S) == MapThenSumSet(LAMBDA i : f[i], S)

\* The element a sum takes from s first.
Pick(s) == CHOOSE x \in s : TRUE

\* g solves the recursion for the sets in D.
AddsUp(g, f, D) ==
  g = [s \in D |-> IF s = {} THEN 0 ELSE f[Pick(s)] + g[s \ {Pick(s)}]]

\* g[s] is the sum of f over s, for every s within S.
Sums(g, f, S) == AddsUp(g, f, SUBSET S)

-----------------------------------------------------------------------------
\* A set of numbers that holds 0 and all successors holds all numbers.
LEMMA SetInduction ==
  ASSUME NEW T, T \subseteq Nat, 0 \in T, \A n \in T : n + 1 \in T
  PROVE  T = Nat
<1>. SUFFICES ASSUME T # Nat PROVE FALSE
  OBVIOUS
<1>. DEFINE U == Nat \ T
            R == OpToRel(<, Nat)
<1>1. U # {} /\ U \subseteq Nat
  OBVIOUS
<1>2. IsWellFoundedOn(R, Nat)
  BY NatLessThanWellFounded
<1>. HIDE DEF U
<1>3. PICK x \in U : \A y \in U : ~(<<y, x>> \in R)
  <2>. HIDE DEF R
  <2> QED
    BY <1>1, <1>2, WFMin
<1>4. x \in Nat /\ x # 0 /\ x - 1 \in Nat
  BY DEF U
<1>5. <<x - 1, x>> \in R
  BY <1>4 DEF OpToRel
<1>6. x - 1 \in T
  BY <1>3, <1>4, <1>5 DEF U
<1> QED
  BY <1>4, <1>6 DEF U

\* The library's sum is a solution, if there is one.
LEMMA SumIsAddsUp ==
  ASSUME NEW f, NEW S, \E g : Sums(g, f, S)
  PROVE  \E g : Sums(g, f, S) /\ SumOf(f, S) = g[S]
  BY DEF SumOf, MapThenSumSet, MapThenFoldSet, Sums, AddsUp, Pick

\* The recursion has a solution on every finite set, by induction on the size
\* of the sets it is solved for.
LEMMA AddsUpExists ==
  ASSUME NEW f, NEW S, IsFiniteSet(S)
  PROVE  \E g : Sums(g, f, S)
<1>. DEFINE D(n) == {s \in SUBSET S : Cardinality(s) <= n}
            T == {n \in Nat : \E g : AddsUp(g, f, D(n))}
<1>1. \A s \in SUBSET S : IsFiniteSet(s) /\ Cardinality(s) \in Nat
                          /\ Cardinality(s) <= Cardinality(S)
  BY FS_Subset, FS_CardinalityType
<1>2. ASSUME NEW s \in SUBSET S, s # {}
      PROVE  /\ Pick(s) \in s /\ s \ {Pick(s)} \in SUBSET S
             /\ Cardinality(s \ {Pick(s)}) = Cardinality(s) - 1
  <2>1. Pick(s) \in s
    BY <1>2 DEF Pick
  <2> QED
    BY <1>1, <2>1, FS_RemoveElement
<1>3. 0 \in T
  <2>1. D(0) = {{}}
    BY <1>1, FS_EmptySet
  <2>2. AddsUp([s \in {{}} |-> 0], f, {{}})
    BY DEF Sums, AddsUp
  <2> QED
    BY <2>1, <2>2
<1>4. ASSUME NEW n \in T
      PROVE  n + 1 \in T
  <2>1. PICK g : AddsUp(g, f, D(n))
    OBVIOUS
  <2>. DEFINE h == [s \in D(n + 1) |-> IF s = {} THEN 0 ELSE f[Pick(s)] + g[s \ {Pick(s)}]]
  <2>2. \A s \in D(n) : s \in D(n + 1)
    BY <1>1
  <2>3. \A s \in D(n) : h[s] = g[s]
    BY <2>1, <2>2 DEF AddsUp
  <2>4. \A s \in D(n + 1) : s # {} => s \ {Pick(s)} \in D(n)
    BY <1>1, <1>2
  <2>5. \A s \in D(n + 1) : s # {} => h[s \ {Pick(s)}] = g[s \ {Pick(s)}]
    <3>. HIDE DEF h, D
    <3> QED
      BY <2>3, <2>4
  <2>6. \A s \in D(n + 1) : h[s] = IF s = {} THEN 0 ELSE f[Pick(s)] + h[s \ {Pick(s)}]
    <3>1. \A s \in D(n + 1) : h[s] = IF s = {} THEN 0 ELSE f[Pick(s)] + g[s \ {Pick(s)}]
      BY DEF h
    <3>. HIDE DEF h, D
    <3> QED
      BY <2>5, <3>1
  <2>7. h = [s \in D(n + 1) |-> h[s]]
    OBVIOUS
  <2>8. AddsUp(h, f, D(n + 1))
    <3>. HIDE DEF h, D
    <3> QED
      BY <2>6, <2>7 DEF AddsUp
  <2>. HIDE DEF D
  <2>9. n \in Nat
    OBVIOUS
  <2>10. \E k : AddsUp(k, f, D(n + 1))
    BY <2>8
  <2> QED
    BY <2>9, <2>10
<1>5. T = Nat
  <2>. HIDE DEF D
  <2>1. T \subseteq Nat
    OBVIOUS
  <2>. HIDE DEF T
  <2> QED
    BY <1>3, <1>4, <2>1, SetInduction
<1>6. Cardinality(S) \in T /\ D(Cardinality(S)) = SUBSET S
  BY <1>1, <1>5, FS_CardinalityType
<1> QED
  BY <1>6 DEF Sums

\* A sum is a number, and takes its elements in any order.
LEMMA SumParts ==
  ASSUME NEW f, NEW S, IsFiniteSet(S), \A x \in S : f[x] \in Nat,
         NEW g, Sums(g, f, S)
  PROVE  \A s \in SUBSET S :
           g[s] \in Nat /\ \A x \in s : g[s] = f[x] + g[s \ {x}]
<1>. DEFINE Parts(s) == g[s] \in Nat /\ \A x \in s : g[s] = f[x] + g[s \ {x}]
            T == {n \in Nat : \A s \in SUBSET S : Cardinality(s) <= n => Parts(s)}
<1>1. \A s \in SUBSET S : IsFiniteSet(s) /\ Cardinality(s) \in Nat
  BY FS_Subset, FS_CardinalityType
<1>2. \A s \in SUBSET S : \A x \in s : /\ s \ {x} \in SUBSET S
                                     /\ Cardinality(s \ {x}) = Cardinality(s) - 1
  BY <1>1, FS_RemoveElement
<1>3. \A s \in SUBSET S : g[s] = IF s = {} THEN 0 ELSE f[Pick(s)] + g[s \ {Pick(s)}]
  BY DEF Sums, AddsUp
<1>0. Parts({})
  <2>1. {} \in SUBSET S
    OBVIOUS
  <2>2. g[{}] = 0
    BY <1>3, <2>1
  <2> QED
    BY <2>2
<1>4. 0 \in T
  <2>1. ASSUME NEW s \in SUBSET S, Cardinality(s) <= 0
        PROVE  s = {}
    <3>1. IsFiniteSet(s) /\ Cardinality(s) = 0
      BY <1>1, <2>1
    <3> QED
      BY <3>1, FS_EmptySet
  <2> QED
    BY <1>0, <2>1
<1>5. ASSUME NEW n \in T
      PROVE  n + 1 \in T
  <2>1. ASSUME NEW s \in SUBSET S, s # {}, Cardinality(s) <= n + 1
        PROVE  Parts(s)
    <3>. DEFINE y == Pick(s)
    <3>1. s # {} /\ n \in Nat
      BY <2>1
    <3>2. y \in s
      BY <3>1 DEF Pick
    <3>3. g[s] = f[y] + g[s \ {y}]
      BY <1>3, <3>1
    <3>. HIDE DEF y
    <3>4. \A x \in s : s \ {x} \in SUBSET S /\ Cardinality(s \ {x}) <= n
      BY <1>1, <1>2, <2>1, <3>1
    <3>5. \A x \in s : Parts(s \ {x})
      BY <3>4
    <3>6. g[s] \in Nat
      BY <3>2, <3>3, <3>5
    <3>7. ASSUME NEW x \in s, x # y
          PROVE  g[s] = f[x] + g[s \ {x}]
      <4>1. g[s \ {y}] = f[x] + g[(s \ {y}) \ {x}]
        BY <3>2, <3>5, <3>7
      <4>2. g[s \ {x}] = f[y] + g[(s \ {x}) \ {y}]
        BY <3>2, <3>5, <3>7
      <4>3. (s \ {y}) \ {x} = (s \ {x}) \ {y}
        OBVIOUS
      <4>4. (s \ {y}) \ {x} \in SUBSET S /\ Cardinality((s \ {y}) \ {x}) <= n
        <5>. DEFINE t == s \ {y}
        <5>1. t \in SUBSET S /\ Cardinality(t) <= n /\ x \in t
          BY <3>2, <3>4, <3>7
        <5>. HIDE DEF t
        <5>2. t \ {x} \in SUBSET S /\ Cardinality(t \ {x}) = Cardinality(t) - 1
          BY <1>2, <5>1
        <5>3. Cardinality(t) \in Nat
          BY <1>1, <5>1
        <5>4. Cardinality(t \ {x}) <= n
          BY <3>1, <5>1, <5>2, <5>3
        <5> QED
          BY <5>2, <5>4 DEF t
      <4>5. g[(s \ {y}) \ {x}] \in Nat
        BY <4>4
      <4>6. f[x] \in Nat /\ f[y] \in Nat
        BY <2>1, <3>2, <3>7
      <4>7. PICK c \in Nat : g[s \ {y}] = f[x] + c /\ g[s \ {x}] = f[y] + c
        BY <4>1, <4>2, <4>3, <4>5
      <4> QED
        BY <3>3, <4>6, <4>7
    <3> QED
      BY <3>3, <3>6, <3>7
  <2>2. n + 1 \in Nat
    OBVIOUS
  <2>3. \A s \in SUBSET S : Cardinality(s) <= n + 1 => Parts(s)
    BY <1>0, <2>1
  <2> QED
    BY <2>2, <2>3
<1>6. T = Nat
  <2>1. T \subseteq Nat
    OBVIOUS
  <2>. HIDE DEF T
  <2> QED
    BY <1>4, <1>5, <2>1, SetInduction
<1> QED
  BY <1>1, <1>6

\* Two sums over the same elements are the same, whatever they are part of.
LEMMA SumsAgree ==
  ASSUME NEW f, NEW k, NEW S, IsFiniteSet(S), \A x \in S : f[x] = k[x],
         NEW U, S \subseteq U,
         NEW g, Sums(g, f, S), NEW h, Sums(h, k, U)
  PROVE  g[S] = h[S]
<1>. DEFINE T == {n \in Nat : \A s \in SUBSET S : Cardinality(s) <= n => g[s] = h[s]}
<1>1. \A s \in SUBSET S : IsFiniteSet(s) /\ Cardinality(s) \in Nat
  BY FS_Subset, FS_CardinalityType
<1>2. \A s \in SUBSET S : g[s] = IF s = {} THEN 0 ELSE f[Pick(s)] + g[s \ {Pick(s)}]
  BY DEF Sums, AddsUp
<1>3. \A s \in SUBSET S : h[s] = IF s = {} THEN 0 ELSE k[Pick(s)] + h[s \ {Pick(s)}]
  BY DEF Sums, AddsUp
<1>4. g[{}] = 0 /\ h[{}] = 0
  <2>1. {} \in SUBSET S
    OBVIOUS
  <2> QED
    BY <1>2, <1>3, <2>1
<1>5. 0 \in T
  <2>1. ASSUME NEW s \in SUBSET S, Cardinality(s) <= 0
        PROVE  s = {}
    <3>1. IsFiniteSet(s) /\ Cardinality(s) = 0
      BY <1>1, <2>1
    <3> QED
      BY <3>1, FS_EmptySet
  <2> QED
    BY <1>4, <2>1
<1>6. ASSUME NEW n \in T
      PROVE  n + 1 \in T
  <2>1. ASSUME NEW s \in SUBSET S, s # {}, Cardinality(s) <= n + 1
        PROVE  g[s] = h[s]
    <3>1. Pick(s) \in s
      BY <2>1 DEF Pick
    <3>2. Cardinality(s \ {Pick(s)}) = Cardinality(s) - 1 /\ s \ {Pick(s)} \in SUBSET S
      BY <1>1, <3>1, FS_RemoveElement
    <3>3. Cardinality(s \ {Pick(s)}) <= n
      BY <1>1, <2>1, <3>2
    <3>4. g[s \ {Pick(s)}] = h[s \ {Pick(s)}]
      BY <3>2, <3>3
    <3> QED
      BY <1>2, <1>3, <2>1, <3>1, <3>4
  <2>2. n + 1 \in Nat
    OBVIOUS
  <2> QED
    BY <1>4, <2>1, <2>2
<1>7. T = Nat
  <2>1. T \subseteq Nat
    OBVIOUS
  <2>. HIDE DEF T
  <2> QED
    BY <1>5, <1>6, <2>1, SetInduction
<1> QED
  BY <1>1, <1>7

-----------------------------------------------------------------------------
(***************************************************************************)
(* The facts the contracts' proofs use.                                    *)
(***************************************************************************)
\* Whatever solves the recursion is the sum.
LEMMA SumIsUnique ==
  ASSUME NEW f, NEW S, IsFiniteSet(S), NEW g, Sums(g, f, S)
  PROVE  SumOf(f, S) = g[S]
<1>1. PICK h : Sums(h, f, S) /\ SumOf(f, S) = h[S]
  BY SumIsAddsUp
<1>2. S \subseteq S /\ \A x \in S : f[x] = f[x]
  OBVIOUS
<1>3. g[S] = h[S]
  BY <1>1, <1>2, SumsAgree
<1> QED
  BY <1>1, <1>3

LEMMA SumType ==
  ASSUME NEW f, NEW S, IsFiniteSet(S), \A x \in S : f[x] \in Nat
  PROVE  SumOf(f, S) \in Nat
<1>1. PICK g : Sums(g, f, S) /\ SumOf(f, S) = g[S]
  BY AddsUpExists, SumIsAddsUp
<1>2. \A s \in SUBSET S : g[s] \in Nat
  BY <1>1, SumParts
<1> QED
  BY <1>1, <1>2

LEMMA SumOfNothing ==
  ASSUME NEW f
  PROVE  SumOf(f, {}) = 0
<1>1. PICK g : Sums(g, f, {}) /\ SumOf(f, {}) = g[{}]
  BY AddsUpExists, SumIsAddsUp, FS_EmptySet
<1>2. {} \in SUBSET {}
  OBVIOUS
<1> QED
  BY <1>1, <1>2 DEF Sums, AddsUp

LEMMA SumOfZeros ==
  ASSUME NEW S, IsFiniteSet(S)
  PROVE  SumOf([x \in S |-> 0], S) = 0
<1>. DEFINE f == [x \in S |-> 0]
            g == [s \in SUBSET S |-> 0]
<1>1. \A s \in SUBSET S : s # {} => Pick(s) \in s /\ s \ {Pick(s)} \in SUBSET S
  BY DEF Pick
<1>2. \A s \in SUBSET S : s # {} => f[Pick(s)] + g[s \ {Pick(s)}] = 0
  <2>. SUFFICES ASSUME NEW s \in SUBSET S, s # {}
                PROVE  f[Pick(s)] + g[s \ {Pick(s)}] = 0
    OBVIOUS
  <2>1. Pick(s) \in S /\ s \ {Pick(s)} \in SUBSET S
    BY <1>1
  <2>2. f[Pick(s)] = 0 /\ g[s \ {Pick(s)}] = 0
    BY <2>1, Zenon
  <2>. HIDE DEF f, g
  <2> QED
    BY <2>2
<1>3. Sums(g, f, S)
  BY <1>2 DEF Sums, AddsUp
<1>4. S \in SUBSET S
  OBVIOUS
<1>. HIDE DEF f
<1>5. SumOf(f, S) = g[S]
  BY <1>3, SumIsUnique
<1> QED
  BY <1>4, <1>5 DEF f

\* The sum depends on the values at its elements only.
LEMMA SumExtensional ==
  ASSUME NEW f, NEW k, NEW S, IsFiniteSet(S), \A x \in S : f[x] = k[x]
  PROVE  SumOf(f, S) = SumOf(k, S)
<1>1. PICK g : Sums(g, f, S) /\ SumOf(f, S) = g[S]
  BY AddsUpExists, SumIsAddsUp
<1>2. PICK h : Sums(h, k, S) /\ SumOf(k, S) = h[S]
  BY AddsUpExists, SumIsAddsUp
<1>3. S \subseteq S
  OBVIOUS
<1>4. g[S] = h[S]
  BY <1>1, <1>2, <1>3, SumsAgree
<1> QED
  BY <1>1, <1>2, <1>4

LEMMA SumWithout ==
  ASSUME NEW f, NEW S, IsFiniteSet(S), \A x \in S : f[x] \in Nat, NEW a \in S
  PROVE  SumOf(f, S) = f[a] + SumOf(f, S \ {a})
<1>1. PICK g : Sums(g, f, S) /\ SumOf(f, S) = g[S]
  BY AddsUpExists, SumIsAddsUp
<1>2. IsFiniteSet(S \ {a}) /\ S \ {a} \subseteq S
  BY FS_RemoveElement
<1>3. PICK h : Sums(h, f, S \ {a}) /\ SumOf(f, S \ {a}) = h[S \ {a}]
  BY <1>2, AddsUpExists, SumIsAddsUp
<1>4. h[S \ {a}] = g[S \ {a}]
  <2>. DEFINE R == S \ {a}
  <2>1. IsFiniteSet(R) /\ R \subseteq S /\ \A x \in R : f[x] = f[x]
    BY <1>2
  <2>2. Sums(h, f, R)
    BY <1>3
  <2>. HIDE DEF R
  <2>3. h[R] = g[R]
    BY <1>1, <2>1, <2>2, SumsAgree
  <2> QED
    BY <2>3 DEF R
<1>5. g[S] = f[a] + g[S \ {a}]
  BY <1>1, SumParts
<1> QED
  BY <1>1, <1>3, <1>4, <1>5

\* One element's share grows by d.
LEMMA SumGrows ==
  ASSUME NEW f, NEW k, NEW S, IsFiniteSet(S), \A x \in S : f[x] \in Nat,
         NEW a \in S, NEW d \in Int, k[a] = f[a] + d, k[a] \in Nat,
         \A x \in S \ {a} : k[x] = f[x]
  PROVE  SumOf(k, S) = SumOf(f, S) + d
<1>1. IsFiniteSet(S \ {a})
  BY FS_RemoveElement
<1>2. SumOf(f, S \ {a}) = SumOf(k, S \ {a}) /\ SumOf(f, S \ {a}) \in Nat
  BY <1>1, SumExtensional, SumType
<1>3. \A x \in S : k[x] \in Nat
  OBVIOUS
<1>4. SumOf(f, S) = f[a] + SumOf(f, S \ {a}) /\ SumOf(k, S) = k[a] + SumOf(k, S \ {a})
  BY <1>3, SumWithout
<1> QED
  BY <1>2, <1>4

\* A new element joins.
LEMMA SumWith ==
  ASSUME NEW f, NEW S, IsFiniteSet(S), \A x \in S : f[x] \in Nat,
         NEW a, a \notin S, f[a] \in Nat
  PROVE  SumOf(f, S \cup {a}) = SumOf(f, S) + f[a]
<1>1. IsFiniteSet(S \cup {a}) /\ (S \cup {a}) \ {a} = S /\ a \in S \cup {a}
  BY FS_AddElement
<1>2. SumOf(f, S \cup {a}) = f[a] + SumOf(f, S)
  BY <1>1, SumWithout
<1>3. SumOf(f, S) \in Nat
  BY SumType
<1> QED
  BY <1>2, <1>3

\* A new element joins, and the shares of the others stay what they were.
LEMMA SumJoins ==
  ASSUME NEW f, NEW k, NEW S, IsFiniteSet(S), \A x \in S : f[x] \in Nat /\ k[x] = f[x],
         NEW a, a \notin S, k[a] \in Nat
  PROVE  SumOf(k, S \cup {a}) = SumOf(f, S) + k[a]
<1>1. SumOf(f, S) = SumOf(k, S)
  BY SumExtensional
<1>2. SumOf(k, S \cup {a}) = SumOf(k, S) + k[a]
  BY SumWith
<1> QED
  BY <1>1, <1>2

-----------------------------------------------------------------------------
(***************************************************************************)
(* The ring, for the n-th entry of a history that holds at most cap.       *)
(***************************************************************************)

\* Where the entry of slot i stands in the history, once the ring is full: the
\* oldest is at the head.
Place(head, n, cap, i) == IF i >= head THEN n - cap + 1 + (i - head) ELSE n - head + 1 + i

\* The ring is the history as long as that fits, then its latest entries.
HoldsLatest(ring, head, hist, cap) ==
  \/ Len(hist) < cap /\ ring = hist /\ head = 0
  \/ /\ Len(hist) >= cap /\ Len(ring) = cap
     /\ \A i \in 0 .. cap - 1 : ring[i + 1] = hist[Place(head, Len(hist), cap, i)]

LEMMA AtLeastOnePositive == \A n \in Nat : AtLeastOne(n) \in Nat \ {0}
  BY DEF AtLeastOne

\* The only remainders the ring takes.
LEMMA Remainder ==
  ASSUME NEW c \in Nat \ {0}, NEW x \in 0 .. 2 * c - 1
  PROVE  x % c = IF x < c THEN x ELSE x - c
<1>1. CASE x < c
  BY <1>1, SMTT(30)
<1>2. CASE x >= c
  <2>1. PICK y \in 0 .. c - 1 : x = c + y
    <3>1. x - c \in 0 .. c - 1 /\ x = c + (x - c)
      BY <1>2
    <3> QED
      BY <3>1
  <2>2. (c + y) % c = y
    BY SMTT(30)
  <2> QED
    BY <1>2, <2>1, <2>2
<1> QED
  BY <1>1, <1>2

\* The entry that falls out of a full ring is the oldest, at the head, which
\* moves on to the next oldest.
LEMMA RingWrite ==
  ASSUME NEW E, NEW d \in E, NEW cap \in Nat \ {0}, NEW head \in 0 .. cap - 1,
         NEW ring \in Seq(E), NEW hist \in Seq(E), Len(ring) <= cap,
         HoldsLatest(ring, head, hist, cap)
  PROVE  /\ Written(ring, head, cap, d) \in Seq(E)
         /\ Len(Written(ring, head, cap, d)) <= cap
         /\ NextHead(ring, head, cap) \in 0 .. cap - 1
         /\ HoldsLatest(Written(ring, head, cap, d), NextHead(ring, head, cap),
                        Append(hist, d), cap)
<1>. DEFINE w == Written(ring, head, cap, d)
            h == NextHead(ring, head, cap)
            app == Append(hist, d)
            n == Len(hist)
<1>1. /\ app \in Seq(E) /\ Len(app) = n + 1 /\ n \in Nat /\ Len(ring) \in Nat
      /\ \A i \in 1 .. n : app[i] = hist[i]
      /\ app[n + 1] = d
  BY AppendProperties, LenProperties
<1>2. CASE Len(ring) < cap
  <2>1. w = Append(ring, d) /\ h = head
    BY <1>2 DEF Written, NextHead
  <2>2. ring = hist /\ head = 0 /\ n < cap
    BY <1>1, <1>2 DEF HoldsLatest
  <2>3. w = app /\ h = 0
    BY <2>1, <2>2
  <2>4. HoldsLatest(app, 0, app, cap)
    <3>. HIDE DEF app, n
    <3>1. CASE n + 1 < cap
      BY <1>1, <3>1 DEF HoldsLatest
    <3>2. CASE ~(n + 1 < cap)
      <4>1. n + 1 = cap
        BY <1>1, <2>2, <3>2
      <4>2. \A i \in 0 .. cap - 1 : Place(0, n + 1, cap, i) = i + 1
        BY <1>1, <4>1 DEF Place
      <4>3. \A i \in 0 .. cap - 1 : app[i + 1] = app[Place(0, Len(app), cap, i)]
        BY <1>1, <4>2
      <4> QED
        BY <1>1, <4>1, <4>3 DEF HoldsLatest
    <3> QED
      BY <3>1, <3>2
  <2>5. Len(app) <= cap
    BY <1>1, <2>2
  <2>. HIDE DEF w, h, app, n
  <2>6. w \in Seq(E) /\ Len(w) <= cap /\ h \in 0 .. cap - 1 /\ HoldsLatest(w, h, app, cap)
    BY <1>1, <2>3, <2>4, <2>5
  <2> QED
    BY <2>6 DEF w, h, app
<1>3. CASE ~(Len(ring) < cap)
  <2>1. /\ Len(ring) = cap /\ n >= cap
        /\ \A i \in 0 .. cap - 1 : ring[i + 1] = hist[Place(head, n, cap, i)]
    BY <1>1, <1>3 DEF HoldsLatest
  <2>2. w = [ring EXCEPT ![head + 1] = d] /\ h = (head + 1) % cap
    BY <1>3 DEF Written, NextHead
  <2>3. h = IF head + 1 = cap THEN 0 ELSE head + 1
    <3>. DEFINE next == head + 1
    <3>1. next \in 0 .. 2 * cap - 1
      OBVIOUS
    <3>. HIDE DEF next
    <3>2. next % cap = IF next < cap THEN next ELSE next - cap
      BY <3>1, Remainder
    <3> QED
      BY <2>2, <3>2 DEF next
  <2>4. /\ w \in Seq(E) /\ Len(w) = cap /\ w[head + 1] = d
        /\ \A i \in 0 .. cap - 1 : i # head => w[i + 1] = ring[i + 1]
    <3>1. head + 1 \in 1 .. Len(ring)
      BY <2>1
    <3>2. /\ w \in Seq(E) /\ Len(w) = Len(ring)
          /\ \A j \in 1 .. Len(ring) : w[j] = IF j = head + 1 THEN d ELSE ring[j]
      BY <2>2, <3>1, ExceptSeq
    <3>. HIDE DEF w
    <3> QED
      BY <2>1, <3>1, <3>2
  <2>. HIDE DEF w, h, app, n
  <2>5. ASSUME NEW i \in 0 .. cap - 1, i # head
        PROVE  w[i + 1] = app[Place(h, n + 1, cap, i)]
    <3>1. Place(h, n + 1, cap, i) = Place(head, n, cap, i) /\ Place(head, n, cap, i) \in 1 .. n
      <4>1. CASE i > head
        <5>1. Place(head, n, cap, i) = n - cap + 1 + (i - head)
          BY <4>1 DEF Place
        <5>2. h = head + 1 /\ i >= h
          BY <2>3, <4>1
        <5>3. Place(h, n + 1, cap, i) = (n + 1) - cap + 1 + (i - h)
          BY <5>2 DEF Place
        <5> QED
          BY <1>1, <2>1, <4>1, <5>1, <5>2, <5>3
      <4>2. CASE i < head
        <5>1. Place(head, n, cap, i) = n - head + 1 + i
          BY <4>2 DEF Place
        <5>2. Place(h, n + 1, cap, i) = IF head + 1 = cap THEN (n + 1) - cap + 1 + i
                                        ELSE (n + 1) - (head + 1) + 1 + i
          BY <2>3, <4>2 DEF Place
        <5>3. Place(h, n + 1, cap, i) = n - head + 1 + i
          <6>1. CASE head + 1 = cap
            BY <1>1, <4>2, <5>2, <6>1
          <6>2. CASE head + 1 # cap
            BY <1>1, <4>2, <5>2, <6>2
          <6> QED
            BY <6>1, <6>2
        <5>4. n - head + 1 + i \in 1 .. n
          BY <1>1, <2>1, <4>2
        <5> QED
          BY <5>1, <5>3, <5>4
      <4>3. i > head \/ i < head
        BY <2>5
      <4> QED
        BY <4>1, <4>2, <4>3
    <3> QED
      BY <1>1, <2>1, <2>4, <2>5, <3>1
  <2>6. Place(h, n + 1, cap, head) = n + 1
    BY <1>1, <2>3 DEF Place
  <2>7. \A i \in 0 .. cap - 1 : w[i + 1] = app[Place(h, Len(app), cap, i)]
    BY <1>1, <2>4, <2>5, <2>6
  <2>8. Len(app) >= cap
    BY <1>1, <2>1
  <2>9. HoldsLatest(w, h, app, cap)
    BY <2>4, <2>7, <2>8 DEF HoldsLatest
  <2>10. h \in 0 .. cap - 1
    BY <2>3
  <2> QED
    BY <2>4, <2>9, <2>10 DEF w, h, app
<1> QED
  BY <1>2, <1>3

\* The backward walk from the head meets the entries from the latest to the oldest.
LEMMA WalkBack ==
  ASSUME NEW cap \in Nat \ {0}, NEW head \in 0 .. cap - 1, NEW j \in 0 .. cap - 1,
         NEW n \in Nat, n >= cap
  PROVE  /\ BackSlot(head, cap, j) \in 0 .. cap - 1
         /\ Place(head, n, cap, BackSlot(head, cap, j)) = n - j
<1>. DEFINE x == head + cap - 1 - j
            y == BackSlot(head, cap, j)
<1>2. x \in 0 .. 2 * cap - 1
  OBVIOUS
<1>3. y = x % cap
  BY DEF BackSlot
<1>. HIDE DEF x, y
<1>4. y = IF x < cap THEN x ELSE x - cap
  BY <1>2, <1>3, Remainder
<1>5. y \in 0 .. cap - 1
  BY <1>2, <1>4
<1>6. x = head + cap - 1 - j
  BY DEF x
<1>7. CASE x < cap
  <2>1. y >= head
    BY <1>4, <1>6, <1>7
  <2>2. Place(head, n, cap, y) = n - cap + 1 + (y - head)
    BY <2>1 DEF Place
  <2> QED
    BY <1>4, <1>5, <1>6, <1>7, <2>2 DEF y
<1>8. CASE ~(x < cap)
  <2>1. ~(y >= head)
    BY <1>2, <1>4, <1>6, <1>8
  <2>2. Place(head, n, cap, y) = n - head + 1 + y
    BY <2>1 DEF Place
  <2> QED
    BY <1>2, <1>4, <1>5, <1>6, <1>8, <2>2 DEF y
<1> QED
  BY <1>7, <1>8

\* The last l entries, one by one.
LEMMA LastNIs ==
  ASSUME NEW E, NEW s \in Seq(E), NEW n \in Nat, Len(s) = n, NEW l \in Nat, l <= n
  PROVE  LastN(s, l) = [k \in 1 .. l |-> s[n - l + k]]
<1>1. AtMost(l, n) = l
  BY DEF AtMost
<1>2. LastN(s, l) = SubSeq(s, n - l + 1, n)
  BY <1>1 DEF LastN
<1>3. SubSeq(s, n - l + 1, n) = [k \in 1 .. (n - (n - l + 1) + 1) |-> s[k + (n - l + 1) - 1]]
  BY <1>1
<1>4. n - (n - l + 1) + 1 = l /\ \A k \in 1 .. l : k + (n - l + 1) - 1 = n - l + k
  OBVIOUS
<1> QED
  BY <1>2, <1>3, <1>4

\* The view is the end of the history, for every limit.
LEMMA RingView ==
  ASSUME NEW E, NEW cap \in Nat \ {0}, NEW head \in 0 .. cap - 1,
         NEW ring \in Seq(E), NEW hist \in Seq(E), HoldsLatest(ring, head, hist, cap),
         NEW limit \in Nat
  PROVE  Recent(ring, head, cap, limit) = LastN(hist, AtMost(limit, cap))
<1>. DEFINE n == Len(hist)
            l == AtMost(limit, cap)
<1>1. n \in Nat
  BY LenProperties
<1>2. CASE n < cap /\ ring = hist
  <2>1. AtMost(l, n) = AtMost(limit, n)
    BY <1>1, <1>2 DEF AtMost
  <2> QED
    BY <1>2, <2>1 DEF Recent, LastN
<1>3. CASE /\ n >= cap /\ Len(ring) = cap
           /\ \A i \in 0 .. cap - 1 : ring[i + 1] = hist[Place(head, n, cap, i)]
  <2>1. l \in 0 .. cap
    BY DEF AtMost
  <2>2. Recent(ring, head, cap, limit) = [k \in 1 .. l |-> ring[BackSlot(head, cap, l - k) + 1]]
    BY <1>3 DEF Recent
  <2>. HIDE DEF l, n
  <2>3. ASSUME NEW k \in 1 .. l
        PROVE  ring[BackSlot(head, cap, l - k) + 1] = hist[n - l + k]
    <3>. DEFINE j == l - k
    <3>1. j \in 0 .. cap - 1 /\ n - j = n - l + k
      BY <1>1, <2>1, <2>3
    <3>. HIDE DEF j
    <3>2. /\ BackSlot(head, cap, j) \in 0 .. cap - 1
          /\ Place(head, n, cap, BackSlot(head, cap, j)) = n - j
      <4>1. j \in 0 .. cap - 1 /\ n \in Nat /\ n >= cap
        BY <1>1, <1>3, <3>1
      <4> QED
        BY <4>1, WalkBack
    <3>3. ring[BackSlot(head, cap, j) + 1] = hist[n - j]
      BY <1>3, <3>2
    <3> QED
      BY <3>1, <3>3 DEF j
  <2>4. LastN(hist, l) = [k \in 1 .. l |-> hist[n - l + k]]
    <3>1. n \in Nat /\ Len(hist) = n /\ l <= n /\ l \in Nat
      BY <1>1, <1>3, <2>1 DEF n
    <3> QED
      BY <3>1, LastNIs
  <2> QED
    BY <2>2, <2>3, <2>4 DEF l
<1> QED
  BY <1>2, <1>3 DEF HoldsLatest

\* To keep the last cap entries one needs only the last cap entries.
LEMMA WindowMoves ==
  ASSUME NEW E, NEW s \in Seq(E), NEW d \in E, NEW cap \in Nat \ {0}
  PROVE  LastN(Append(s, d), cap) = LastN(Append(LastN(s, cap), d), cap)
<1>. DEFINE n == Len(s)
            t == LastN(s, cap)
<1>1. n \in Nat
  BY LenProperties
<1>2. CASE n < cap
  <2>1. AtMost(cap, n) = n /\ n - n + 1 = 1
    BY <1>1, <1>2 DEF AtMost
  <2>2. t = s
    <3>1. t = SubSeq(s, n - AtMost(cap, n) + 1, n)
      BY DEF LastN
    <3>. HIDE DEF t, n
    <3>2. t = SubSeq(s, 1, n)
      BY <2>1, <3>1
    <3> QED
      BY <3>2 DEF n
  <2> QED
    BY <2>2
<1>3. CASE ~(n < cap)
  <2>1. t = [k \in 1 .. cap |-> s[n - cap + k]]
    <3>1. n \in Nat /\ Len(s) = n /\ cap \in Nat /\ cap <= n
      BY <1>1, <1>3
    <3>. HIDE DEF n
    <3> QED
      BY <3>1, LastNIs
  <2>. HIDE DEF t
  <2>2. \A k \in 1 .. cap : s[n - cap + k] \in E
    <3>1. \A k \in 1 .. cap : n - cap + k \in 1 .. n
      BY <1>1, <1>3
    <3> QED
      BY <3>1, ElementOfSeq
  <2>3. t \in Seq(E) /\ Len(t) = cap
    BY <2>1, <2>2
  <2>4. /\ Append(s, d) \in Seq(E) /\ Len(Append(s, d)) = n + 1
        /\ Append(s, d)[n + 1] = d /\ \A i \in 1 .. n : Append(s, d)[i] = s[i]
    BY AppendProperties
  <2>5. /\ Append(t, d) \in Seq(E) /\ Len(Append(t, d)) = cap + 1
        /\ Append(t, d)[cap + 1] = d /\ \A i \in 1 .. cap : Append(t, d)[i] = t[i]
    BY <2>3, AppendProperties
  <2>. DEFINE sd == Append(s, d)
              td == Append(t, d)
  <2>6. sd \in Seq(E) /\ Len(sd) = n + 1 /\ sd[n + 1] = d /\ \A i \in 1 .. n : sd[i] = s[i]
    BY <2>4
  <2>7. td \in Seq(E) /\ Len(td) = cap + 1 /\ td[cap + 1] = d /\ \A i \in 1 .. cap : td[i] = t[i]
    BY <2>5
  <2>. HIDE DEF sd, td, n
  <2>. DEFINE m == n + 1
  <2>8. cap <= m /\ m \in Nat /\ Len(sd) = m /\ sd[m] = d
    BY <1>1, <1>3, <2>6
  <2>9. ASSUME NEW k \in 1 .. cap
        PROVE  sd[m - cap + k] = td[cap + 1 - cap + k]
    <3>1. CASE k = cap
      <4>1. m - cap + k = m /\ cap + 1 - cap + k = cap + 1
        BY <1>1, <3>1
      <4>. HIDE DEF m
      <4> QED
        BY <2>7, <2>8, <4>1
    <3>2. CASE k < cap
      <4>1. m - cap + k \in 1 .. n /\ cap + 1 - cap + k = k + 1 /\ k + 1 \in 1 .. cap
            /\ n - cap + (k + 1) = m - cap + k
        BY <1>1, <1>3, <3>2
      <4>2. t[k + 1] = s[n - cap + (k + 1)]
        BY <2>1, <4>1
      <4>. HIDE DEF m
      <4> QED
        BY <2>6, <2>7, <4>1, <4>2
    <3>3. k = cap \/ k < cap
      OBVIOUS
    <3> QED
      BY <3>1, <3>2, <3>3
  <2>. HIDE DEF m
  <2>10. /\ LastN(sd, cap) = [k \in 1 .. cap |-> sd[m - cap + k]]
         /\ LastN(td, cap) = [k \in 1 .. cap |-> td[cap + 1 - cap + k]]
    <3>. DEFINE q == cap + 1
    <3>1. sd \in Seq(E) /\ m \in Nat /\ Len(sd) = m /\ cap \in Nat /\ cap <= m
      BY <2>6, <2>8
    <3>2. td \in Seq(E) /\ q \in Nat /\ Len(td) = q /\ cap \in Nat /\ cap <= q
      BY <2>7
    <3>. HIDE DEF q
    <3>3. LastN(sd, cap) = [k \in 1 .. cap |-> sd[m - cap + k]]
      BY <3>1, LastNIs
    <3>4. LastN(td, cap) = [k \in 1 .. cap |-> td[q - cap + k]]
      BY <3>2, LastNIs
    <3> QED
      BY <3>3, <3>4 DEF q
  <2>11. LastN(sd, cap) = LastN(td, cap)
    BY <2>9, <2>10
  <2> QED
    BY <2>11 DEF sd, td, t
<1> QED
  BY <1>2, <1>3
-----------------------------------------------------------------------------
(***************************************************************************)
(* Folds over a sequence, as FoldLeft carries them out: a recursive        *)
(* function on the sets of places, which takes the last place first.       *)
(***************************************************************************)

\* g solves the recursion of a fold of f by the function step, for the sets in D.
Folds(g, step, base, f, D) ==
  g = [s \in D |-> IF s = {} THEN base ELSE step[<<f[Max(s)], g[s \ {Max(s)}]>>]]

LEMMA MaxIs ==
  ASSUME NEW S, S \subseteq Nat, NEW m \in S, \A x \in S : x <= m
  PROVE  Max(S) = m
<1>1. \A x \in S : x >= m => x = m
  OBVIOUS
<1>2. \A x \in S : m >= x
  OBVIOUS
<1> QED
  BY <1>1, <1>2 DEF Max

LEMMA MaxWithin ==
  ASSUME NEW n \in Nat, NEW s \in SUBSET (1 .. n), s # {}
  PROVE  Max(s) \in s /\ \A x \in s : x <= Max(s)
<1>. DEFINE T == {k \in Nat : \A r \in SUBSET (1 .. k) : r # {} => \E m \in r : \A x \in r : x <= m}
<1>1. 0 \in T
  <2>1. 1 .. 0 = {}
    OBVIOUS
  <2> QED
    BY <2>1
<1>2. ASSUME NEW k \in T
      PROVE  k + 1 \in T
  <2>1. ASSUME NEW r \in SUBSET (1 .. k + 1), r # {}
        PROVE  \E m \in r : \A x \in r : x <= m
    <3>1. CASE k + 1 \in r
      BY <3>1
    <3>2. CASE k + 1 \notin r
      <4>1. \A x \in r : x \in 1 .. k
        BY <3>2
      <4>2. r \in SUBSET (1 .. k)
        BY <4>1
      <4> QED
        BY <2>1, <4>2
    <3> QED
      BY <3>1, <3>2
  <2> QED
    BY <2>1
<1>3. T = Nat
  <2>1. T \subseteq Nat
    OBVIOUS
  <2>. HIDE DEF T
  <2> QED
    BY <1>1, <1>2, <2>1, SetInduction
<1>4. n \in T
  BY <1>3
<1>5. PICK m \in s : \A x \in s : x <= m
  BY <1>4
<1>6. s \subseteq Nat
  OBVIOUS
<1> QED
  BY <1>5, <1>6, MaxIs

LEMMA MinWithin ==
  ASSUME NEW S, S \subseteq Nat, S # {}
  PROVE  Min(S) \in S /\ \A x \in S : Min(S) <= x
<1>. DEFINE R == OpToRel(<, Nat)
<1>1. IsWellFoundedOn(R, Nat)
  BY NatLessThanWellFounded
<1>2. PICK m \in S : \A y \in S : ~(<<y, m>> \in R)
  <2>. HIDE DEF R
  <2> QED
    BY <1>1, WFMin
<1>3. ASSUME NEW y \in S
      PROVE  m <= y
  <2>. SUFFICES ASSUME y < m PROVE FALSE
    OBVIOUS
  <2>1. y \in Nat /\ m \in Nat
    OBVIOUS
  <2>2. <<y, m>> \in R
    BY <2>1 DEF OpToRel
  <2>. HIDE DEF R
  <2> QED
    BY <1>2, <2>2
<1> QED
  BY <1>3 DEF Min

\* A fold over 1 .. n has a solution, by induction on n.
LEMMA FoldExists ==
  ASSUME NEW A, NEW B, NEW base \in B, NEW step \in [A \X B -> B],
         NEW n \in Nat, NEW f \in [1 .. n -> A]
  PROVE  \E g : g \in [SUBSET (1 .. n) -> B] /\ Folds(g, step, base, f, SUBSET (1 .. n))
<1>. DEFINE Solves(g, m) == g \in [SUBSET (1 .. m) -> B] /\ Folds(g, step, base, f, SUBSET (1 .. m))
            T == {m \in Nat : m <= n => \E g : Solves(g, m)}
<1>. HIDE DEF Solves
<1>1. 0 \in T
  <2>. DEFINE g == [s \in SUBSET (1 .. 0) |-> base]
  <2>1. \A s \in SUBSET (1 .. 0) : s = {}
    OBVIOUS
  <2>2. Solves(g, 0)
    BY <2>1 DEF Solves, Folds
  <2> QED
    BY <2>2
<1>2. ASSUME NEW m \in T
      PROVE  m + 1 \in T
  <2>. SUFFICES ASSUME m + 1 <= n
                PROVE  \E h : Solves(h, m + 1)
    OBVIOUS
  <2>1. m \in Nat /\ m <= n /\ \E g : Solves(g, m)
    OBVIOUS
  <2>1a. PICK g : Solves(g, m)
    BY <2>1
  <2>. DEFINE D == SUBSET (1 .. m)
              E == SUBSET (1 .. m + 1)
              h == [s \in E |-> IF m + 1 \in s THEN step[<<f[m + 1], g[s \ {m + 1}]>>] ELSE g[s]]
  <2>2. \A s \in E : /\ m + 1 \in s => s \ {m + 1} \in D /\ Max(s) = m + 1
                     /\ m + 1 \notin s => s \in D
    <3>1. ASSUME NEW s \in E, m + 1 \in s
          PROVE  s \ {m + 1} \in D /\ Max(s) = m + 1
      <4>1. s \subseteq Nat /\ \A x \in s : x <= m + 1
        BY <2>1
      <4>2. Max(s) = m + 1
        BY <3>1, <4>1, MaxIs
      <4>3. \A x \in s \ {m + 1} : x \in 1 .. m
        BY <2>1
      <4> QED
        BY <4>2, <4>3
    <3>2. ASSUME NEW s \in E, m + 1 \notin s
          PROVE  s \in D
      <4>1. \A x \in s : x \in 1 .. m
        BY <2>1, <3>2
      <4> QED
        BY <4>1
    <3> QED
      BY <3>1, <3>2
  <2>3. \A s \in D : s \in E /\ m + 1 \notin s /\ s \ {Max(s)} \in D
    <3>1. 1 .. m \subseteq 1 .. m + 1 /\ m + 1 \notin 1 .. m
      BY <2>1
    <3>2. \A s \in D : \A x : s \ {x} \in D
      OBVIOUS
    <3> QED
      BY <3>1, <3>2
  <2>4. g \in [D -> B] /\ \A s \in D :
          g[s] = IF s = {} THEN base ELSE step[<<f[Max(s)], g[s \ {Max(s)}]>>]
    BY <2>1a DEF Solves, Folds
  <2>5. f[m + 1] \in A
    BY <2>1
  <2>6. h \in [E -> B]
    <3>1. \A s \in E : IF m + 1 \in s THEN step[<<f[m + 1], g[s \ {m + 1}]>>] \in B ELSE g[s] \in B
      <4>. HIDE DEF D, E
      <4> QED
        BY <2>2, <2>4, <2>5
    <3>. HIDE DEF E
    <3> QED
      BY <3>1
  <2>7. \A s \in D : h[s] = g[s]
    <3>. HIDE DEF D, E
    <3> QED
      BY <2>3
  <2>8. \A s \in E : h[s] = IF s = {} THEN base ELSE step[<<f[Max(s)], h[s \ {Max(s)}]>>]
    <3>1. ASSUME NEW s \in E, m + 1 \in s
          PROVE  h[s] = step[<<f[Max(s)], h[s \ {Max(s)}]>>] /\ s # {}
      <4>1. h[s] = step[<<f[m + 1], g[s \ {m + 1}]>>]
        BY <3>1
      <4>. HIDE DEF h, D, E
      <4> QED
        BY <2>2, <2>7, <3>1, <4>1
    <3>2. ASSUME NEW s \in E, m + 1 \notin s
          PROVE  h[s] = IF s = {} THEN base ELSE step[<<f[Max(s)], h[s \ {Max(s)}]>>]
      <4>. HIDE DEF h, D, E
      <4> QED
        BY <2>2, <2>3, <2>4, <2>7, <3>2
    <3>. HIDE DEF h, E
    <3> QED
      BY <3>1, <3>2
  <2>9. h = [s \in E |-> h[s]]
    OBVIOUS
  <2>10. Folds(h, step, base, f, E)
    <3>. HIDE DEF h, E
    <3> QED
      BY <2>8, <2>9 DEF Folds
  <2>. HIDE DEF h
  <2> QED
    BY <2>1, <2>6, <2>10 DEF Solves
<1>3. T = Nat
  <2>1. T \subseteq Nat
    OBVIOUS
  <2>. HIDE DEF T
  <2> QED
    BY <1>1, <1>2, <2>1, SetInduction
<1>4. n \in T
  BY <1>3
<1>5. \E g : Solves(g, n)
  BY <1>4
<1> QED
  BY <1>5 DEF Solves

\* A fold over 1 .. k ends with the step for place k.
LEMMA Intervals ==
  ASSUME NEW n \in Nat
  PROVE  /\ 1 .. 0 = {}
         /\ \A k \in 1 .. n : /\ 1 .. k \in SUBSET (1 .. n) /\ 1 .. k # {}
                              /\ Max(1 .. k) = k /\ (1 .. k) \ {k} = 1 .. k - 1
<1>1. ASSUME NEW k \in 1 .. n
      PROVE  Max(1 .. k) = k
  <2>. DEFINE S == 1 .. k
  <2>1. S \subseteq Nat /\ k \in S /\ \A x \in S : x <= k
    OBVIOUS
  <2>2. Max(S) = k
    <3>. HIDE DEF S
    <3> QED
      BY <2>1, MaxIs
  <2> QED
    BY <2>2
<1> QED
  BY <1>1

LEMMA NothingInEmpty == DOMAIN <<>> = {}
<1>1. <<>> \in Seq({}) /\ Len(<<>>) = 0
  BY EmptySeq
<1>2. DOMAIN <<>> = 1 .. 0
  BY <1>1, LenProperties
<1> QED
  BY <1>2

=============================================================================
