-------------------------- MODULE LibraryTheorems --------------------------
(* What the proofs need to know of sums over finite sets (SumFunctionOnSet,   *)
(* whatever order it takes the elements in), of Filters and of sequences.     *)
EXTENDS Functions, Filters, FiniteSetTheorems, SequenceTheorems, WellFoundedInduction, TLAPS

\* A non-empty set of numbers has a least element.
LEMMA LeastNumber ==
    ASSUME NEW N \in SUBSET Nat, N # {}
    PROVE  \E x \in N : \A y \in N : x <= y
<1>1. PICK R : R = OpToRel(<, Nat)
      OBVIOUS
<1>2. IsWellFoundedOn(R, Nat)
      BY <1>1, NatLessThanWellFounded
<1>3. PICK x \in N : \A y \in N : ~(<<y, x>> \in R)
      BY <1>2, WFMin
<1>4. ASSUME NEW y \in N, y < x PROVE <<y, x>> \in R
      BY <1>1, <1>4 DEF OpToRel
<1>5. \A y \in N : ~(y < x)
      BY <1>3, <1>4
<1> QED BY <1>5, SMT

\* g adds up f over the subset s, given what it yields for smaller ones.
AddsUp(g, f, s) ==
    g[s] = IF s = {} THEN 0 ELSE f[CHOOSE x \in s : TRUE] + g[s \ {CHOOSE x \in s : TRUE}]

\* Taking an element off a finite set.
LEMMA Smaller ==
    ASSUME NEW S, IsFiniteSet(S), NEW s \in SUBSET S, s # {}
    PROVE  /\ (CHOOSE x \in s : TRUE) \in s
           /\ Cardinality(s) \in Nat
           /\ \A x \in s : /\ s \ {x} \in SUBSET S /\ IsFiniteSet(s \ {x})
                           /\ Cardinality(s \ {x}) \in Nat
                           /\ Cardinality(s \ {x}) = Cardinality(s) - 1
<1>1. IsFiniteSet(s)
      BY FS_Subset
<1>2. Cardinality(s) \in Nat
      BY <1>1, FS_CardinalityType
<1>3. \A x \in s : IsFiniteSet(s \ {x}) /\ Cardinality(s \ {x}) = Cardinality(s) - 1
      BY <1>1, FS_RemoveElement
<1>4. \A x \in s : Cardinality(s \ {x}) \in Nat
      BY <1>3, FS_CardinalityType
<1>5. \E x \in s : TRUE
      OBVIOUS
<1>6. (CHOOSE x \in s : TRUE) \in s
      BY <1>5
<1> QED BY <1>2, <1>3, <1>4, <1>6

\* There is a function that adds up, over all subsets of a finite set.
LEMMA AdderExists ==
    ASSUME NEW f, NEW S, IsFiniteSet(S), NEW n \in Nat
    PROVE  \E g : \A s \in SUBSET S : Cardinality(s) <= n => AddsUp(g, f, s)
<1> DEFINE Good(m) == \E g : \A s \in SUBSET S : Cardinality(s) <= m => AddsUp(g, f, s)
           N == {m \in Nat : ~Good(m)}
<1>1. SUFFICES ASSUME N # {} PROVE FALSE
      OBVIOUS
<1>2. PICK m \in N : \A y \in N : m <= y
      BY <1>1, LeastNumber
<1>3. \A s \in SUBSET S : Cardinality(s) \in Nat /\ (Cardinality(s) = 0 => s = {})
      BY FS_Subset, FS_CardinalityType, FS_EmptySet
<1>4. CASE m = 0
  <2>1. PICK g : g = [s \in SUBSET S |-> 0]
        OBVIOUS
  <2>2. ASSUME NEW s \in SUBSET S, Cardinality(s) <= 0 PROVE AddsUp(g, f, s)
    <3>1. s = {}
          BY <1>3, <2>2
    <3> QED BY <2>1, <3>1 DEF AddsUp
  <2>3. Good(0)
        BY <2>2
  <2> QED BY <1>2, <1>4, <2>3
<1>5. CASE m # 0
  <2>1. m \in Nat /\ m - 1 \in Nat /\ m - 1 \notin N
        BY <1>2, <1>5
  <2>2. PICK g : \A s \in SUBSET S : Cardinality(s) <= m - 1 => AddsUp(g, f, s)
        BY <2>1
  <2>3. PICK h : h = [s \in SUBSET S |->
                        IF Cardinality(s) = m
                          THEN f[CHOOSE x \in s : TRUE] + g[s \ {CHOOSE x \in s : TRUE}] ELSE g[s]]
        OBVIOUS
  <2>4. ASSUME NEW s \in SUBSET S, Cardinality(s) <= m PROVE AddsUp(h, f, s)
    <3>1. CASE s = {}
      <4>1. Cardinality(s) = 0
            BY <3>1, FS_EmptySet
      <4>2. h[s] = g[s] /\ AddsUp(g, f, s)
            BY <1>5, <2>1, <2>2, <2>3, <4>1
      <4> QED BY <3>1, <4>2 DEF AddsUp
    <3>2. CASE s # {}
      <4>1. PICK x : x = CHOOSE y \in s : TRUE
            OBVIOUS
      <4>2. x \in s /\ s \ {x} \in SUBSET S /\ Cardinality(s) \in Nat
            /\ Cardinality(s \ {x}) \in Nat /\ Cardinality(s \ {x}) = Cardinality(s) - 1
            BY <3>2, <4>1, Smaller
      <4>3. Cardinality(s \ {x}) # m
            BY <2>1, <2>4, <4>2
      <4>4. h[s \ {x}] = g[s \ {x}]
            BY <2>3, <4>2, <4>3
      <4>5. h[s] = f[x] + g[s \ {x}]
        <5>1. CASE Cardinality(s) = m
              BY <2>3, <4>1, <5>1
        <5>2. CASE Cardinality(s) # m
          <6>1. Cardinality(s) <= m - 1
                BY <2>1, <2>4, <4>2, <5>2
          <6>2. h[s] = g[s] /\ AddsUp(g, f, s)
                BY <2>2, <2>3, <5>2, <6>1
          <6> QED BY <3>2, <4>1, <6>2 DEF AddsUp
        <5> QED BY <5>1, <5>2
      <4> QED BY <3>2, <4>1, <4>4, <4>5 DEF AddsUp
    <3> QED BY <3>1, <3>2
  <2>5. Good(m)
        BY <2>4
  <2> QED BY <1>2, <2>5
<1> QED BY <1>4, <1>5

\* The library's sum adds up.
LEMMA SumAddsUp ==
    ASSUME NEW f, NEW S, IsFiniteSet(S)
    PROVE  \E g : SumFunctionOnSet(f, S) = g[S] /\ \A s \in SUBSET S : AddsUp(g, f, s)
<1> DEFINE IsAdder(h) ==
        h = [s \in SUBSET S |->
               IF s = {} THEN 0 ELSE f[CHOOSE x \in s : TRUE] + h[s \ {CHOOSE x \in s : TRUE}]]
<1>1. PICK g : \A s \in SUBSET S : AddsUp(g, f, s)
  <2>1. Cardinality(S) \in Nat
        BY FS_CardinalityType
  <2>2. \A s \in SUBSET S : Cardinality(s) <= Cardinality(S)
        BY FS_Subset
  <2> QED BY <2>1, <2>2, AdderExists
<1>2. PICK h : h = [s \in SUBSET S |-> g[s]]
      OBVIOUS
<1>3. ASSUME NEW s \in SUBSET S
      PROVE  h[s] = IF s = {} THEN 0 ELSE f[CHOOSE x \in s : TRUE] + h[s \ {CHOOSE x \in s : TRUE}]
  <2>1. s \ {CHOOSE x \in s : TRUE} \in SUBSET S
        OBVIOUS
  <2> QED BY <1>1, <1>2, <2>1 DEF AddsUp
<1>4. IsAdder(h)
      BY <1>2, <1>3
<1>5. PICK k : k = CHOOSE x : IsAdder(x)
      OBVIOUS
<1> HIDE DEF IsAdder
<1>6. IsAdder(k)
      BY <1>4, <1>5, Zenon
<1> USE DEF IsAdder
<1>7. SumFunctionOnSet(f, S) = k[S]
      BY <1>5 DEF SumFunctionOnSet, FoldFunctionOnSet, MapThenFoldSet
<1>8. \A s \in SUBSET S : AddsUp(k, f, s)
      BY <1>6 DEF AddsUp
<1> QED BY <1>7, <1>8

\* What adds up does not depend on the order.
LEMMA AnyElement ==
    ASSUME NEW f, NEW S, IsFiniteSet(S), \A x \in S : f[x] \in Int,
           NEW g, \A s \in SUBSET S : AddsUp(g, f, s)
    PROVE  \A s \in SUBSET S : g[s] \in Int /\ \A x \in s : g[s] = f[x] + g[s \ {x}]
<1> DEFINE Good(s) == g[s] \in Int /\ \A x \in s : g[s] = f[x] + g[s \ {x}]
           N == {m \in Nat : \E s \in SUBSET S : Cardinality(s) = m /\ ~Good(s)}
<1>1. \A s \in SUBSET S : Cardinality(s) \in Nat
      BY FS_Subset, FS_CardinalityType
<1>2. SUFFICES ASSUME N # {} PROVE FALSE
  <2>1. ASSUME NEW s \in SUBSET S, ~Good(s) PROVE Cardinality(s) \in N
        BY <1>1, <2>1
  <2> QED BY <2>1
<1>3. PICK m \in N : \A y \in N : m <= y
      BY <1>2, LeastNumber
<1>4. PICK s \in SUBSET S : Cardinality(s) = m /\ ~Good(s)
      BY <1>3
<1>5. ASSUME NEW r \in SUBSET S, Cardinality(r) < m PROVE Good(r)
      BY <1>1, <1>3, <1>5
<1>6. CASE s = {}
      BY <1>4, <1>6 DEF AddsUp
<1>7. CASE s # {}
  <2>1. PICK y : y = CHOOSE x \in s : TRUE
        OBVIOUS
  <2>2. y \in s /\ g[s] = f[y] + g[s \ {y}]
        BY <1>7, <2>1, Smaller DEF AddsUp
  <2>3. \A x \in s : s \ {x} \in SUBSET S /\ Cardinality(s \ {x}) < m
    <3>1. \A x \in s : s \ {x} \in SUBSET S /\ Cardinality(s \ {x}) = m - 1
          BY <1>4, <1>7, Smaller
    <3>2. m - 1 < m
          BY <1>1, <1>4
    <3> QED BY <3>1, <3>2
  <2> HIDE DEF Good
  <2>4. \A x \in s : Good(s \ {x})
        BY <1>5, <2>3
  <2> USE DEF Good
  <2>5. g[s] \in Int
        BY <2>2, <2>4
  <2>6. ASSUME NEW x \in s PROVE g[s] = f[x] + g[s \ {x}]
    <3>1. CASE x = y
          BY <2>2, <3>1
    <3>2. CASE x # y
      <4>1. (s \ {x}) \ {y} = (s \ {y}) \ {x}
            OBVIOUS
      <4>2. g[s \ {y}] = f[x] + g[(s \ {y}) \ {x}] /\ g[s \ {y}] \in Int
            BY <2>2, <2>4, <3>2
      <4>3. g[s \ {x}] = f[y] + g[(s \ {y}) \ {x}] /\ g[s \ {x}] \in Int
            BY <2>2, <2>4, <3>2, <4>1
      <4>4. g[(s \ {y}) \ {x}] \in Int
        <5>1. (s \ {y}) \ {x} \in SUBSET S /\ Cardinality((s \ {y}) \ {x}) < m
          <6>1. s \ {y} \in SUBSET S /\ s \ {y} # {} /\ x \in s \ {y}
                BY <3>2
          <6>2. Cardinality((s \ {y}) \ {x}) = Cardinality(s \ {y}) - 1
                /\ Cardinality(s \ {y}) \in Nat
            <7>1. PICK r : r = s \ {y}
                  OBVIOUS
            <7>2. r \in SUBSET S /\ r # {} /\ x \in r
                  BY <6>1, <7>1
            <7>3. /\ Cardinality(r) \in Nat
                  /\ \A z \in r : Cardinality(r \ {z}) = Cardinality(r) - 1
                  BY <7>2, Smaller
            <7> QED BY <7>1, <7>2, <7>3
          <6>3. Cardinality(s \ {y}) < m
                BY <2>2, <2>3
          <6>4. m \in Nat
                BY <1>3
          <6> QED BY <6>1, <6>2, <6>3, <6>4
        <5>2. Good((s \ {y}) \ {x})
              BY <1>5, <5>1
        <5> QED BY <5>2
      <4>5. f[x] \in Int /\ f[y] \in Int
            BY <2>2
      <4> QED BY <2>2, <4>2, <4>3, <4>4, <4>5
    <3> QED BY <3>1, <3>2
  <2> QED BY <1>4, <2>5, <2>6
<1> QED BY <1>6, <1>7

\* A sum over a subset, computed on its own.
LEMMA SameAdder ==
    ASSUME NEW f, NEW h, NEW S, IsFiniteSet(S), \A x \in S : f[x] \in Int /\ h[x] = f[x],
           NEW g, \A s \in SUBSET S : AddsUp(g, f, s),
           NEW T \in SUBSET S, NEW k, \A s \in SUBSET T : AddsUp(k, h, s)
    PROVE  k[T] = g[T]
<1> DEFINE N == {m \in Nat : \E s \in SUBSET T : Cardinality(s) = m /\ k[s] # g[s]}
<1>1. \A s \in SUBSET T : Cardinality(s) \in Nat
      BY FS_Subset, FS_CardinalityType
<1>2. SUFFICES ASSUME N # {} PROVE FALSE
  <2>1. ASSUME NEW s \in SUBSET T, k[s] # g[s] PROVE Cardinality(s) \in N
        BY <1>1, <2>1
  <2> QED BY <2>1
<1>3. PICK m \in N : \A y \in N : m <= y
      BY <1>2, LeastNumber
<1>4. PICK s \in SUBSET T : Cardinality(s) = m /\ k[s] # g[s]
      BY <1>3
<1>5. s \in SUBSET S /\ AddsUp(g, f, s) /\ AddsUp(k, h, s)
      OBVIOUS
<1>6. s # {}
      BY <1>4, <1>5 DEF AddsUp
<1>7. PICK y : y = CHOOSE x \in s : TRUE
      OBVIOUS
<1>8. y \in s /\ k[s] = h[y] + k[s \ {y}] /\ g[s] = f[y] + g[s \ {y}]
      BY <1>5, <1>6, <1>7, Smaller DEF AddsUp
<1>9. s \ {y} \in SUBSET T /\ Cardinality(s \ {y}) = m - 1 /\ m - 1 < m
  <2>1. s \ {y} \in SUBSET T
        OBVIOUS
  <2>2. \A z \in s : Cardinality(s \ {z}) = Cardinality(s) - 1
        BY <1>5, <1>6, Smaller
  <2>3. m \in Nat
        BY <1>3
  <2> QED BY <1>4, <1>8, <2>1, <2>2, <2>3
<1>10. k[s \ {y}] = g[s \ {y}]
      BY <1>1, <1>3, <1>9
<1> QED BY <1>4, <1>8, <1>10

-----------------------------------------------------------------------------
(* The facts about sums that the other proofs use.                           *)

\* The sum over no elements, and over one element and the rest.
THEOREM SumSplits ==
    ASSUME NEW f, NEW S, IsFiniteSet(S), \A x \in S : f[x] \in Int
    PROVE  /\ SumFunctionOnSet(f, {}) = 0
           /\ SumFunctionOnSet(f, S) \in Int
           /\ \A x \in S : SumFunctionOnSet(f, S) = f[x] + SumFunctionOnSet(f, S \ {x})
<1>1. SumFunctionOnSet(f, {}) = 0
  <2>1. IsFiniteSet({})
        BY FS_EmptySet
  <2>2. PICK g : SumFunctionOnSet(f, {}) = g[{}] /\ \A s \in SUBSET {} : AddsUp(g, f, s)
        BY <2>1, SumAddsUp
  <2> QED BY <2>2 DEF AddsUp
<1>2. PICK g : SumFunctionOnSet(f, S) = g[S] /\ \A s \in SUBSET S : AddsUp(g, f, s)
      BY SumAddsUp
<1>3. \A s \in SUBSET S : g[s] \in Int /\ \A x \in s : g[s] = f[x] + g[s \ {x}]
      BY <1>2, AnyElement
<1>4. ASSUME NEW x \in S PROVE SumFunctionOnSet(f, S \ {x}) = g[S \ {x}]
  <2>1. IsFiniteSet(S \ {x}) /\ S \ {x} \in SUBSET S
        BY FS_Subset
  <2>2. PICK k : /\ SumFunctionOnSet(f, S \ {x}) = k[S \ {x}]
                 /\ \A s \in SUBSET (S \ {x}) : AddsUp(k, f, s)
        BY <2>1, SumAddsUp
  <2>3. k[S \ {x}] = g[S \ {x}]
        BY <1>2, <2>1, <2>2, SameAdder
  <2> QED BY <2>2, <2>3
<1> QED BY <1>1, <1>2, <1>3, <1>4

\* The sum depends on the values at the elements only.
THEOREM SumOfEquals ==
    ASSUME NEW f, NEW h, NEW S, IsFiniteSet(S), \A x \in S : f[x] \in Int /\ h[x] = f[x]
    PROVE  SumFunctionOnSet(h, S) = SumFunctionOnSet(f, S)
<1>1. PICK g : SumFunctionOnSet(f, S) = g[S] /\ \A s \in SUBSET S : AddsUp(g, f, s)
      BY SumAddsUp
<1>2. PICK k : SumFunctionOnSet(h, S) = k[S] /\ \A s \in SUBSET S : AddsUp(k, h, s)
      BY SumAddsUp
<1>3. S \in SUBSET S
      OBVIOUS
<1> QED BY <1>1, <1>2, <1>3, SameAdder

\* Taking an element out, whether or not it is there.
LEMMA SumWithout ==
    ASSUME NEW f, NEW S, IsFiniteSet(S), NEW x, \A y \in S : f[y] \in Int, NEW R, R = S \ {x}
    PROVE  /\ SumFunctionOnSet(f, R) \in Int
           /\ SumFunctionOnSet(f, S) = (IF x \in S THEN f[x] ELSE 0) + SumFunctionOnSet(f, R)
<1>1. IsFiniteSet(R) /\ \A y \in R : f[y] \in Int
      BY FS_Subset
<1>2. SumFunctionOnSet(f, R) \in Int
      BY <1>1, SumSplits
<1>3. CASE x \in S
  <2>1. SumFunctionOnSet(f, S) = f[x] + SumFunctionOnSet(f, S \ {x})
        BY <1>3, SumSplits
  <2> QED BY <1>2, <1>3, <2>1
<1>4. CASE x \notin S
  <2>1. R = S
        BY <1>4
  <2> QED BY <1>2, <1>4, <2>1
<1> QED BY <1>3, <1>4

\* When sums differ at one element only, whether it comes, goes or changes.
THEOREM SumChange ==
    ASSUME NEW f, NEW S, IsFiniteSet(S), \A y \in S : f[y] \in Int,
           NEW h, NEW T, IsFiniteSet(T), \A y \in T : h[y] \in Int,
           NEW x, S \ {x} = T \ {x}, \A y \in S \ {x} : h[y] = f[y]
    PROVE  SumFunctionOnSet(h, T) = SumFunctionOnSet(f, S) + (IF x \in T THEN h[x] ELSE 0)
                                                          - (IF x \in S THEN f[x] ELSE 0)
<1>1. PICK R : R = S \ {x}
      OBVIOUS
<1>2. IsFiniteSet(R) /\ R = T \ {x}
      BY <1>1, FS_Subset
<1>3. SumFunctionOnSet(h, R) = SumFunctionOnSet(f, R)
      BY <1>1, <1>2, SumOfEquals
<1>4. /\ SumFunctionOnSet(f, R) \in Int
      /\ SumFunctionOnSet(f, S) = (IF x \in S THEN f[x] ELSE 0) + SumFunctionOnSet(f, R)
      BY <1>1, SumWithout
<1>5. SumFunctionOnSet(h, T) = (IF x \in T THEN h[x] ELSE 0) + SumFunctionOnSet(h, R)
      BY <1>2, SumWithout
<1>6. (x \in T => h[x] \in Int) /\ (x \in S => f[x] \in Int)
      OBVIOUS
<1> QED BY <1>3, <1>4, <1>5, <1>6

\* A sum of natural numbers is one.
THEOREM SumIsNat ==
    ASSUME NEW f, NEW S, IsFiniteSet(S), \A x \in S : f[x] \in Nat
    PROVE  SumFunctionOnSet(f, S) \in Nat
<1> DEFINE N == {m \in Nat : \E s \in SUBSET S : Cardinality(s) = m
                                                /\ SumFunctionOnSet(f, s) \notin Nat}
<1>1. \A s \in SUBSET S : IsFiniteSet(s) /\ Cardinality(s) \in Nat
      BY FS_Subset, FS_CardinalityType
<1>2. SUFFICES ASSUME N # {} PROVE FALSE
  <2>1. ASSUME SumFunctionOnSet(f, S) \notin Nat PROVE Cardinality(S) \in N
        BY <1>1, <2>1
  <2> QED BY <2>1
<1>3. PICK m \in N : \A y \in N : m <= y
      BY <1>2, LeastNumber
<1>4. PICK s \in SUBSET S : Cardinality(s) = m /\ SumFunctionOnSet(f, s) \notin Nat
      BY <1>3
<1>5. IsFiniteSet(s) /\ m \in Nat /\ \A x \in s : f[x] \in Int
      BY <1>1, <1>3
<1>6. /\ SumFunctionOnSet(f, {}) = 0
      /\ \A x \in s : SumFunctionOnSet(f, s) = f[x] + SumFunctionOnSet(f, s \ {x})
      BY <1>5, SumSplits
<1>7. PICK x : x \in s
      BY <1>4, <1>6
<1>8. PICK r : r = s \ {x}
      OBVIOUS
<1>9. r \in SUBSET S /\ Cardinality(r) = m - 1 /\ Cardinality(r) \in Nat
  <2>1. s # {}
        BY <1>7
  <2>2. \A z \in s : Cardinality(s \ {z}) = Cardinality(s) - 1
        BY <2>1, Smaller
  <2>3. r \in SUBSET S
        BY <1>8
  <2> QED BY <1>1, <1>4, <1>7, <1>8, <2>2, <2>3
<1>10. SumFunctionOnSet(f, r) \in Nat
  <2>1. ASSUME SumFunctionOnSet(f, r) \notin Nat PROVE FALSE
    <3>1. Cardinality(r) \in N
          BY <1>9, <2>1
    <3> QED BY <1>3, <1>5, <1>9, <3>1
  <2> QED BY <2>1
<1>11. f[x] \in Nat
      BY <1>7
<1> QED BY <1>4, <1>6, <1>7, <1>8, <1>10, <1>11

-----------------------------------------------------------------------------
(* What a filter picks.                                                      *)

\* The ranks of places are their numbers in order, and each number is taken.
LEMMA RankFacts ==
    ASSUME NEW n \in Nat, NEW P \in SUBSET (1 .. n)
    PROVE  /\ IsFiniteSet(P) /\ Cardinality(P) \in Nat /\ Cardinality(P) <= n
           /\ \A i \in P : Rank(P, i) \in 1 .. Cardinality(P)
           /\ \A i, j \in P : i < j => Rank(P, i) < Rank(P, j)
           /\ \A k \in 1 .. Cardinality(P) : \E i \in P : Rank(P, i) = k
<1>1. IsFiniteSet(1 .. n) /\ Cardinality(1 .. n) = n
      BY FS_Interval
<1>2. IsFiniteSet(P) /\ Cardinality(P) \in Nat /\ Cardinality(P) <= n
      BY <1>1, FS_Subset, FS_CardinalityType
<1>3. ASSUME NEW i \in P
      PROVE  LET below == {j \in P : j <= i}
             IN  /\ IsFiniteSet(below) /\ Cardinality(below) \in Nat
                 /\ Cardinality(below) <= Cardinality(P) /\ below # {}
                 /\ Rank(P, i) = Cardinality(below)
  <2> DEFINE below == {j \in P : j <= i}
  <2>1. below \in SUBSET P /\ i \in below
        OBVIOUS
  <2>2. IsFiniteSet(below) /\ Cardinality(below) <= Cardinality(P)
        BY <1>2, <2>1, FS_Subset
  <2>3. Cardinality(below) \in Nat
        BY <2>2, FS_CardinalityType
  <2> QED BY <2>1, <2>2, <2>3 DEF Rank
<1>4. ASSUME NEW i \in P PROVE Rank(P, i) \in 1 .. Cardinality(P)
  <2> DEFINE below == {j \in P : j <= i}
  <2>1. /\ IsFiniteSet(below) /\ Cardinality(below) \in Nat
        /\ Cardinality(below) <= Cardinality(P) /\ below # {}
        /\ Rank(P, i) = Cardinality(below)
        BY <1>3
  <2>2. Cardinality(below) # 0
        BY <2>1, FS_EmptySet
  <2> HIDE DEF below
  <2> QED BY <1>2, <2>1, <2>2
<1>5. ASSUME NEW i \in P, NEW j \in P, i < j PROVE Rank(P, i) < Rank(P, j)
  <2>1. PICK A : A = {x \in P : x <= i}
        OBVIOUS
  <2>2. PICK B : B = {x \in P : x <= j}
        OBVIOUS
  <2>0. \A x \in P : x \in Nat
        OBVIOUS
  <2>3. A \in SUBSET B /\ j \in B /\ j \notin A
    <3>1. \A x \in P : x <= i => x <= j
          BY <1>5, <2>0
    <3>2. j <= j /\ ~(j <= i)
          BY <1>5, <2>0
    <3> QED BY <2>1, <2>2, <3>1, <3>2
  <2>4. IsFiniteSet(B) /\ Cardinality(A) \in Nat /\ Cardinality(B) \in Nat
        BY <1>3, <2>1, <2>2
  <2>5. Cardinality(A) <= Cardinality(B) /\ (Cardinality(B) = Cardinality(A) => B = A)
        BY <2>3, <2>4, FS_Subset
  <2>6. Cardinality(A) < Cardinality(B)
        BY <2>3, <2>4, <2>5
  <2> QED BY <2>1, <2>2, <2>6 DEF Rank
<1>6. ASSUME NEW k \in 1 .. Cardinality(P) PROVE \E i \in P : Rank(P, i) = k
  <2>1. PICK f : f = [i \in P |-> Rank(P, i)]
        OBVIOUS
  <2>2. f \in [P -> 1 .. Cardinality(P)]
        BY <1>4, <2>1
  <2>3. ASSUME NEW i \in P, NEW j \in P, i # j PROVE f[i] # f[j]
    <3>1. i \in Nat /\ j \in Nat /\ Rank(P, i) \in Nat /\ Rank(P, j) \in Nat
          BY <1>4
    <3> QED BY <1>5, <2>1, <2>3, <3>1
  <2>4. f \in Injection(P, 1 .. Cardinality(P))
        BY <2>2, <2>3 DEF Injection, IsInjective
  <2>5. /\ IsFiniteSet(1 .. Cardinality(P))
        /\ Cardinality(1 .. Cardinality(P)) = Cardinality(P)
        BY <1>2, FS_Interval
  <2>6. f \in Surjection(P, 1 .. Cardinality(P))
        BY <2>4, <2>5, FS_Injection
  <2> QED BY <2>1, <2>6 DEF Surjection
<1> QED BY <1>2, <1>4, <1>5, <1>6

\* q lists the m places of P from the least to the greatest.
Enumerates(q, m, P) ==
    /\ q \in [1 .. m -> P]
    /\ \A k, l \in 1 .. m : k < l => q[k] < q[l]
    /\ \A i \in P : \E k \in 1 .. m : q[k] = i

\* s read along the list q.
Along(s, q, m) == [k \in 1 .. m |-> s[q[k]]]

\* The picked elements are those at the places in increasing order.
LEMMA PickedFacts ==
    ASSUME NEW n \in Nat, NEW P \in SUBSET (1 .. n), NEW s
    PROVE  \E q : /\ Enumerates(q, Cardinality(P), P)
                 /\ Picked(s, P) = Along(s, q, Cardinality(P))
<1>0. \A x \in P : x \in Nat
      OBVIOUS
<1>1. PICK q : q = [k \in 1 .. Cardinality(P) |-> CHOOSE i \in P : Rank(P, i) = k]
      OBVIOUS
<1>2. ASSUME NEW k \in 1 .. Cardinality(P) PROVE q[k] \in P /\ Rank(P, q[k]) = k
      BY <1>1, RankFacts
<1>3. q \in [1 .. Cardinality(P) -> P]
      BY <1>1, <1>2
<1>4. ASSUME NEW k \in 1 .. Cardinality(P), NEW m \in 1 .. Cardinality(P), k < m
      PROVE  q[k] < q[m]
  <2>1. q[k] \in P /\ q[m] \in P /\ Rank(P, q[k]) = k /\ Rank(P, q[m]) = m
        BY <1>2
  <2>2. q[m] < q[k] => Rank(P, q[m]) < Rank(P, q[k])
        BY <2>1, RankFacts
  <2>3. Cardinality(P) \in Nat
        BY RankFacts
  <2>4. q[k] \in Nat /\ q[m] \in Nat /\ ~(q[m] < q[k]) /\ q[m] # q[k]
    <3>1. q[k] \in Nat /\ q[m] \in Nat
          BY <1>0, <2>1
    <3>2. k \in Nat /\ m \in Nat /\ ~(m < k) /\ m # k
          BY <1>4, <2>3
    <3>3. ~(q[m] < q[k]) /\ q[m] # q[k]
          BY <2>1, <2>2, <3>2
    <3> QED BY <3>1, <3>3
  <2> QED BY <2>4
<1>5. ASSUME NEW i \in P PROVE \E k \in 1 .. Cardinality(P) : q[k] = i
  <2>1. Rank(P, i) \in 1 .. Cardinality(P)
        BY RankFacts
  <2>2. PICK k : k = Rank(P, i)
        OBVIOUS
  <2>3. q[k] \in P /\ Rank(P, q[k]) = k /\ k \in 1 .. Cardinality(P)
        BY <1>2, <2>1, <2>2
  <2>4. q[k] < i => Rank(P, q[k]) < Rank(P, i)
        BY <2>3, RankFacts
  <2>5. i < q[k] => Rank(P, i) < Rank(P, q[k])
        BY <2>3, RankFacts
  <2>6. q[k] \in Nat /\ i \in Nat /\ k \in Nat
    <3>1. q[k] \in Nat /\ i \in Nat
          BY <1>0, <2>3
    <3>2. k \in Nat
          BY <2>1, <2>2
    <3> QED BY <3>1, <3>2
  <2>7. q[k] = i
        BY <2>2, <2>3, <2>4, <2>5, <2>6
  <2> QED BY <2>3, <2>7
<1>6. Picked(s, P) = Along(s, q, Cardinality(P))
      BY <1>1 DEF Picked, Along
<1>7. Enumerates(q, Cardinality(P), P)
      BY <1>3, <1>4, <1>5 DEF Enumerates
<1> QED BY <1>6, <1>7

\* Any enumeration of the places in increasing order gives the picked elements.
LEMMA PickedBy ==
    ASSUME NEW n \in Nat, NEW P \in SUBSET (1 .. n), NEW s, NEW m \in Nat,
           NEW q, Enumerates(q, m, P)
    PROVE  /\ Cardinality(P) = m
           /\ Picked(s, P) = Along(s, q, m)
<1>0. /\ q \in [1 .. m -> P] /\ \A x \in P : x \in Nat
      /\ \A k, l \in 1 .. m : k < l => q[k] < q[l]
      /\ \A i \in P : \E k \in 1 .. m : q[k] = i
      BY DEF Enumerates
<1>1. ASSUME NEW k \in 1 .. m, NEW l \in 1 .. m, q[k] = q[l] PROVE k = l
  <2>1. q[k] \in Nat /\ q[l] \in Nat
        BY <1>0
  <2> QED BY <1>0, <1>1, <2>1
<1>2. q \in Bijection(1 .. m, P)
      BY <1>0, <1>1 DEF Bijection, Injection, IsInjective, Surjection
<1>3. Cardinality(P) = m
      BY <1>2, FS_CountingElements DEF ExistsBijection
<1>4. ASSUME NEW k \in 1 .. m PROVE Rank(P, q[k]) = k
  <2>1. PICK f : f = [x \in 1 .. k |-> q[x]]
        OBVIOUS
  <2>2. PICK B : B = {j \in P : j <= q[k]}
        OBVIOUS
  <2>3. ASSUME NEW x \in 1 .. k PROVE f[x] \in B
    <3>0. x \in 1 .. m /\ (x = k \/ x < k)
          OBVIOUS
    <3>1. q[x] \in P /\ q[k] \in P /\ q[x] \in Nat /\ q[k] \in Nat
          BY <1>0, <3>0
    <3>2. q[x] <= q[k]
          BY <1>0, <3>0, <3>1
    <3> QED BY <2>1, <2>2, <3>1, <3>2
  <2>4. ASSUME NEW j \in B PROVE \E x \in 1 .. k : f[x] = j
    <3>1. PICK x \in 1 .. m : q[x] = j
          BY <1>0, <2>2
    <3>2. ~(k < x)
      <4>1. q[k] \in Nat /\ q[x] \in Nat /\ q[x] <= q[k]
            BY <1>0, <2>2, <3>1
      <4> QED BY <1>0, <4>1
    <3> QED BY <2>1, <3>1, <3>2
  <2>5. ASSUME NEW x \in 1 .. k, NEW y \in 1 .. k, f[x] = f[y] PROVE x = y
    <3>1. x \in 1 .. m /\ y \in 1 .. m /\ q[x] = q[y]
          BY <2>1, <2>5
    <3> QED BY <1>1, <3>1
  <2>6. f \in [1 .. k -> B]
        BY <2>1, <2>3
  <2>7. f \in Bijection(1 .. k, B)
        BY <2>4, <2>5, <2>6 DEF Bijection, Injection, IsInjective, Surjection
  <2>8. Cardinality(B) = k
        BY <2>7, FS_CountingElements DEF ExistsBijection
  <2> QED BY <2>2, <2>8 DEF Rank
<1>5. ASSUME NEW k \in 1 .. m PROVE (CHOOSE i \in P : Rank(P, i) = k) = q[k]
  <2>1. ASSUME NEW i \in P, Rank(P, i) = k PROVE i = q[k]
    <3>1. PICK l \in 1 .. m : q[l] = i
          BY <1>0
    <3>2. l = k
          BY <1>4, <2>1, <3>1
    <3> QED BY <3>1, <3>2
  <2>2. q[k] \in P /\ Rank(P, q[k]) = k
        BY <1>0, <1>4
  <2> QED BY <2>1, <2>2
<1>6. Picked(s, P) = [k \in 1 .. m |-> s[CHOOSE i \in P : Rank(P, i) = k]]
      BY <1>3 DEF Picked
<1> QED BY <1>3, <1>5, <1>6 DEF Along

\* Nothing is picked from no place.
LEMMA PickedNone ==
    ASSUME NEW s
    PROVE  Picked(s, {}) = << >>
  BY FS_EmptySet DEF Picked

\* Only the elements at the places count.
LEMMA PickedSame ==
    ASSUME NEW n \in Nat, NEW P \in SUBSET (1 .. n), NEW s, NEW t,
           \A i \in P : s[i] = t[i]
    PROVE  Picked(s, P) = Picked(t, P)
<1>1. PICK q : /\ Enumerates(q, Cardinality(P), P)
               /\ Picked(s, P) = Along(s, q, Cardinality(P))
      BY PickedFacts
<1>2. Cardinality(P) \in Nat
      BY RankFacts
<1>3. Picked(t, P) = Along(t, q, Cardinality(P))
      BY <1>1, <1>2, PickedBy
<1>4. \A k \in 1 .. Cardinality(P) : q[k] \in P
      BY <1>1 DEF Enumerates
<1> QED BY <1>1, <1>3, <1>4 DEF Along

IsAppended(t, s, x) == t = Append(s, x)

\* One more place, after all others, picks one more element.
LEMMA PickedMore ==
    ASSUME NEW n \in Nat, NEW P \in SUBSET (1 .. n), NEW s, NEW i \in Nat, i > n,
           NEW R, R = P \cup {i}
    PROVE  /\ IsAppended(Picked(s, R), Picked(s, P), s[i])
           /\ Cardinality(R) = Cardinality(P) + 1
<1>1. PICK m \in Nat : m = Cardinality(P)
      BY RankFacts
<1>2. PICK q : /\ Enumerates(q, m, P)
               /\ Picked(s, P) = Along(s, q, m)
      BY <1>1, PickedFacts
<1>20. /\ q \in [1 .. m -> P] /\ \A x \in P : x \in Nat /\ x < i
       /\ \A k, l \in 1 .. m : k < l => q[k] < q[l]
       /\ \A j \in P : \E k \in 1 .. m : q[k] = j
      BY <1>2 DEF Enumerates
<1>3. PICK r : r = [k \in 1 .. m + 1 |-> IF k = m + 1 THEN i ELSE q[k]]
      OBVIOUS
<1>4. P \cup {i} \in SUBSET (1 .. i)
      OBVIOUS
<1>5. r \in [1 .. m + 1 -> P \cup {i}]
      BY <1>20, <1>3
<1>6. ASSUME NEW k \in 1 .. m + 1, NEW l \in 1 .. m + 1, k < l PROVE r[k] < r[l]
  <2>1. k \in 1 .. m /\ r[k] = q[k]
        BY <1>3, <1>6
  <2>2. CASE l = m + 1
    <3>1. r[l] = i /\ q[k] < i
          BY <1>20, <1>3, <2>1, <2>2
    <3> QED BY <2>1, <3>1
  <2>3. CASE l # m + 1
    <3>1. l \in 1 .. m /\ r[l] = q[l]
          BY <1>3, <2>3
    <3> QED BY <1>20, <1>6, <2>1, <3>1
  <2> QED BY <2>2, <2>3
<1>7. ASSUME NEW j \in P \cup {i} PROVE \E k \in 1 .. m + 1 : r[k] = j
  <2>1. CASE j = i
    <3>1. r[m + 1] = i /\ m + 1 \in 1 .. m + 1
          BY <1>3
    <3> QED BY <2>1, <3>1
  <2>2. CASE j # i
    <3>1. PICK k \in 1 .. m : q[k] = j
          BY <1>20, <2>2
    <3>2. r[k] = j /\ k \in 1 .. m + 1
          BY <1>3, <3>1
    <3> QED BY <3>2
  <2> QED BY <2>1, <2>2
<1>8. Cardinality(R) = m + 1 /\ Picked(s, R) = Along(s, r, m + 1)
  <2>1. Enumerates(r, m + 1, R)
        BY <1>5, <1>6, <1>7 DEF Enumerates
  <2>2. m + 1 \in Nat /\ R \in SUBSET (1 .. i)
        BY <1>4
  <2> QED BY <2>1, <2>2, PickedBy
<1>9. PICK p : p = [k \in 1 .. m |-> s[q[k]]]
      OBVIOUS
<1>10. Append(p, s[i]) = [k \in 1 .. m + 1 |-> IF k = m + 1 THEN s[i] ELSE p[k]]
  <2>1. p \in Seq({s[q[k]] : k \in 1 .. m})
        BY <1>9
  <2>2. Len(p) = m
        BY <1>9
  <2> QED BY <1>9, <2>1, <2>2
<1>11. [k \in 1 .. m + 1 |-> s[r[k]]] = [k \in 1 .. m + 1 |-> IF k = m + 1 THEN s[i] ELSE p[k]]
  <2>1. ASSUME NEW k \in 1 .. m + 1 PROVE s[r[k]] = IF k = m + 1 THEN s[i] ELSE p[k]
        BY <1>3, <1>9
  <2> QED BY <2>1
<1> QED BY <1>1, <1>2, <1>8, <1>9, <1>10, <1>11 DEF Along, IsAppended

\* Places without a gap pick a piece of the sequence.
LEMMA PickedInterval ==
    ASSUME NEW a \in Nat, NEW b \in Nat, a <= b, NEW s
    PROVE  /\ Picked(s, (a + 1) .. b) = [k \in 1 .. (b - a) |-> s[a + k]]
           /\ Cardinality((a + 1) .. b) = b - a
<1>1. PICK m \in Nat : m = b - a
      OBVIOUS
<1>2. PICK q : q = [k \in 1 .. m |-> a + k]
      OBVIOUS
<1>3. (a + 1) .. b \in SUBSET (1 .. b)
      OBVIOUS
<1>4. q \in [1 .. m -> (a + 1) .. b]
      BY <1>1, <1>2
<1>5. \A k, l \in 1 .. m : k < l => q[k] < q[l]
      BY <1>2
<1>6. ASSUME NEW i \in (a + 1) .. b PROVE \E k \in 1 .. m : q[k] = i
  <2>1. i - a \in 1 .. m /\ q[i - a] = i
        BY <1>1, <1>2
  <2> QED BY <2>1
<1>7. Cardinality((a + 1) .. b) = m /\ Picked(s, (a + 1) .. b) = Along(s, q, m)
  <2>1. Enumerates(q, m, (a + 1) .. b)
        BY <1>4, <1>5, <1>6 DEF Enumerates
  <2> QED BY <1>3, <2>1, PickedBy
<1>8. [k \in 1 .. m |-> s[q[k]]] = [k \in 1 .. m |-> s[a + k]]
      BY <1>2
<1> QED BY <1>1, <1>7, <1>8 DEF Along

\* What is picked from a sequence is a sequence, as long as there are places.
LEMMA PickedType ==
    ASSUME NEW T, NEW s \in Seq(T), NEW P \in SUBSET (1 .. Len(s))
    PROVE  /\ Picked(s, P) \in Seq(T)
           /\ Len(Picked(s, P)) = Cardinality(P)
           /\ Cardinality(P) \in Nat
<1>1. PICK n \in Nat : n = Len(s)
      OBVIOUS
<1>2. P \in SUBSET (1 .. n) /\ \A i \in P : s[i] \in T
      BY <1>1
<1>3. PICK m \in Nat : m = Cardinality(P)
      BY <1>2, RankFacts
<1>4. PICK q : Enumerates(q, m, P) /\ Picked(s, P) = Along(s, q, m)
      BY <1>2, <1>3, PickedFacts
<1>5. \A k \in 1 .. m : s[q[k]] \in T
      BY <1>2, <1>4 DEF Enumerates
<1> QED BY <1>3, <1>4, <1>5 DEF Along

-----------------------------------------------------------------------------
(* Sequences of values of any kind.                                          *)

IsSequence(s) == \E T : s \in Seq(T)

\* A sequence is a function on the numbers up to its length.
LEMMA SequenceFacts ==
    ASSUME NEW s, IsSequence(s)
    PROVE  Len(s) \in Nat /\ DOMAIN s = 1 .. Len(s) /\ s = [k \in 1 .. Len(s) |-> s[k]]
<1>1. PICK T : s \in Seq(T)
      BY DEF IsSequence
<1> QED BY <1>1

\* The empty sequence is one.
LEMMA EmptySequence == IsSequence(<< >>) /\ Len(<< >>) = 0 /\ DOMAIN << >> = {}
<1>1. << >> \in Seq({})
      OBVIOUS
<1> QED BY <1>1 DEF IsSequence

\* A function on the numbers up to n is a sequence of that length.
LEMMA FunctionSequence ==
    ASSUME NEW n \in Nat, NEW f, f = [k \in 1 .. n |-> f[k]]
    PROVE  IsSequence(f) /\ Len(f) = n
<1>1. PICK T : T = {f[k] : k \in 1 .. n}
      OBVIOUS
<1>2. f \in [1 .. n -> T]
      BY <1>1
<1>3. f \in Seq(T) /\ Len(f) = n
      BY <1>2
<1> QED BY <1>3 DEF IsSequence

\* Appending an element.
LEMMA AppendFacts ==
    ASSUME NEW s, IsSequence(s), NEW x
    PROVE  /\ IsSequence(Append(s, x)) /\ Len(Append(s, x)) = Len(s) + 1
           /\ \A k \in 1 .. Len(s) : Append(s, x)[k] = s[k]
           /\ Append(s, x)[Len(s) + 1] = x
<1>1. PICK T : s \in Seq(T)
      BY DEF IsSequence
<1>2. s \in Seq(T \cup {x}) /\ x \in T \cup {x}
      BY <1>1
<1>3. Append(s, x) \in Seq(T \cup {x})
      BY <1>2
<1>4. /\ Len(Append(s, x)) = Len(s) + 1
      /\ \A k \in 1 .. Len(s) : Append(s, x)[k] = s[k]
      /\ Append(s, x)[Len(s) + 1] = x
      BY <1>2
<1> QED BY <1>3, <1>4 DEF IsSequence

\* Taking off the first element.
LEMMA TailFacts ==
    ASSUME NEW s, IsSequence(s), s # << >>
    PROVE  /\ IsSequence(Tail(s)) /\ Len(s) >= 1 /\ Len(Tail(s)) = Len(s) - 1
           /\ Head(s) = s[1]
           /\ \A k \in 1 .. Len(s) - 1 : Tail(s)[k] = s[k + 1]
<1>1. PICK T : s \in Seq(T)
      BY DEF IsSequence
<1>2. Tail(s) \in Seq(T)
      BY <1>1
<1>3. Len(s) >= 1 /\ Len(Tail(s)) = Len(s) - 1 /\ Head(s) = s[1]
      BY <1>1
<1>4. \A k \in 1 .. Len(s) - 1 : Tail(s)[k] = s[k + 1]
      BY <1>1
<1> QED BY <1>2, <1>3, <1>4 DEF IsSequence

\* Two sequences that agree everywhere are the same.
LEMMA SequencesEqual ==
    ASSUME NEW s, NEW t, IsSequence(s), IsSequence(t), Len(s) = Len(t),
           \A k \in 1 .. Len(s) : s[k] = t[k]
    PROVE  s = t
<1>1. PICK n \in Nat : n = Len(s)
      BY SequenceFacts
<1>2. s = [k \in 1 .. n |-> s[k]] /\ t = [k \in 1 .. n |-> t[k]]
      BY <1>1, SequenceFacts
<1>3. [k \in 1 .. n |-> s[k]] = [k \in 1 .. n |-> t[k]]
      BY <1>1
<1> QED BY <1>2, <1>3

\* Concatenation.
LEMMA ConcatFacts ==
    ASSUME NEW s, IsSequence(s), NEW t, IsSequence(t)
    PROVE  /\ IsSequence(s \o t) /\ Len(s \o t) = Len(s) + Len(t)
           /\ \A k \in 1 .. Len(s) : (s \o t)[k] = s[k]
           /\ \A k \in 1 .. Len(t) : (s \o t)[Len(s) + k] = t[k]
<1>1. PICK S : s \in Seq(S)
      BY DEF IsSequence
<1>2. PICK T : t \in Seq(T)
      BY DEF IsSequence
<1>3. s \in Seq(S \cup T) /\ t \in Seq(S \cup T)
      BY <1>1, <1>2
<1>4. s \o t \in Seq(S \cup T)
      BY <1>3
<1>5. Len(s \o t) = Len(s) + Len(t) /\ Len(s) \in Nat /\ Len(t) \in Nat
      BY <1>3
<1>6. \A k \in 1 .. Len(s) : (s \o t)[k] = s[k]
      BY <1>3
<1>7. \A k \in 1 .. Len(t) : (s \o t)[Len(s) + k] = t[k]
      BY <1>3
<1> QED BY <1>4, <1>5, <1>6, <1>7 DEF IsSequence

\* Nothing before or after a sequence.
LEMMA ConcatEmpty ==
    ASSUME NEW s, IsSequence(s)
    PROVE  << >> \o s = s /\ s \o << >> = s
<1>1. PICK T : s \in Seq(T)
      BY DEF IsSequence
<1> QED BY <1>1

\* One element after a sequence.
LEMMA OneSequence ==
    ASSUME NEW x
    PROVE  IsSequence(<<x>>) /\ Len(<<x>>) = 1 /\ <<x>>[1] = x
<1>1. <<x>> \in Seq({x}) /\ Len(<<x>>) = 1 /\ <<x>>[1] = x
      OBVIOUS
<1> QED BY <1>1 DEF IsSequence

\* Concatenating one element is appending it.
LEMMA ConcatOne ==
    ASSUME NEW s, IsSequence(s), NEW x
    PROVE  s \o <<x>> = Append(s, x)
<1>1. PICK n \in Nat : n = Len(s)
      BY SequenceFacts
<1>2. PICK one : one = <<x>>
      OBVIOUS
<1>3. IsSequence(one) /\ Len(one) = 1 /\ one[1] = x
      BY <1>2, OneSequence
<1>4. PICK a : a = s \o one
      OBVIOUS
<1>5. PICK b : b = Append(s, x)
      OBVIOUS
<1>6. /\ IsSequence(a) /\ Len(a) = n + 1
      /\ \A k \in 1 .. n : a[k] = s[k]
      /\ \A k \in 1 .. 1 : a[n + k] = one[k]
  <2>1. IsSequence(s) /\ IsSequence(one) /\ a = s \o one
        BY <1>3, <1>4
  <2>2. /\ IsSequence(a) /\ Len(a) = Len(s) + Len(one)
        /\ \A k \in 1 .. Len(s) : a[k] = s[k]
        /\ \A k \in 1 .. Len(one) : a[Len(s) + k] = one[k]
        BY <2>1, ConcatFacts
  <2> QED BY <1>1, <1>3, <2>2
<1>7. /\ IsSequence(b) /\ Len(b) = n + 1
      /\ \A k \in 1 .. n : b[k] = s[k]
      /\ b[n + 1] = x
      BY <1>1, <1>5, AppendFacts
<1>8. ASSUME NEW k \in 1 .. n + 1 PROVE a[k] = b[k]
  <2>1. k \in 1 .. n \/ k = n + 1
        OBVIOUS
  <2>2. a[n + 1] = x
        BY <1>3, <1>6
  <2> QED BY <1>6, <1>7, <2>1, <2>2
<1>9. a = b
      BY <1>6, <1>7, <1>8, SequencesEqual
<1> QED BY <1>2, <1>4, <1>5, <1>9

\* Appending to the second of two sequences.
LEMMA ConcatAppend ==
    ASSUME NEW s, IsSequence(s), NEW t, IsSequence(t), NEW x
    PROVE  s \o Append(t, x) = Append(s \o t, x)
<1>1. PICK m \in Nat : m = Len(s)
      BY SequenceFacts
<1>2. PICK n \in Nat : n = Len(t)
      BY SequenceFacts
<1>3. PICK u : u = Append(t, x)
      OBVIOUS
<1>4. /\ IsSequence(u) /\ Len(u) = n + 1 /\ u[n + 1] = x
      /\ \A k \in 1 .. n : u[k] = t[k]
      BY <1>2, <1>3, AppendFacts
<1>5. PICK a : a = s \o u
      OBVIOUS
<1>6. /\ IsSequence(a) /\ Len(a) = m + (n + 1)
      /\ \A k \in 1 .. m : a[k] = s[k]
      /\ \A k \in 1 .. n + 1 : a[m + k] = u[k]
  <2>1. IsSequence(s) /\ IsSequence(u) /\ a = s \o u
        BY <1>4, <1>5
  <2>2. /\ IsSequence(a) /\ Len(a) = Len(s) + Len(u)
        /\ \A k \in 1 .. Len(s) : a[k] = s[k]
        /\ \A k \in 1 .. Len(u) : a[Len(s) + k] = u[k]
        BY <2>1, ConcatFacts
  <2> QED BY <1>1, <1>4, <2>2
<1>7. PICK c : c = s \o t
      OBVIOUS
<1>8. /\ IsSequence(c) /\ Len(c) = m + n
      /\ \A k \in 1 .. m : c[k] = s[k]
      /\ \A k \in 1 .. n : c[m + k] = t[k]
      BY <1>1, <1>2, <1>7, ConcatFacts
<1>9. PICK b : b = Append(c, x)
      OBVIOUS
<1>10. /\ IsSequence(b) /\ Len(b) = (m + n) + 1 /\ b[(m + n) + 1] = x
       /\ \A k \in 1 .. m + n : b[k] = c[k]
      BY <1>8, <1>9, AppendFacts
<1>11. ASSUME NEW k \in 1 .. m + (n + 1) PROVE a[k] = b[k]
  <2>1. CASE k \in 1 .. m
    <3>1. k \in 1 .. m + n
          BY <2>1
    <3> QED BY <1>6, <1>8, <1>10, <2>1, <3>1
  <2>2. CASE k \in m + 1 .. m + n
    <3>1. PICK j \in 1 .. n : k = m + j
      <4>1. k - m \in 1 .. n /\ k = m + (k - m)
            BY <2>2
      <4> QED BY <4>1
    <3>2. j \in 1 .. n + 1 /\ k \in 1 .. m + n
          BY <2>2
    <3> QED BY <1>4, <1>6, <1>8, <1>10, <3>1, <3>2
  <2>3. CASE k = m + (n + 1)
    <3>1. n + 1 \in 1 .. n + 1 /\ m + (n + 1) = (m + n) + 1
          OBVIOUS
    <3> QED BY <1>4, <1>6, <1>10, <2>3, <3>1
  <2>4. k \in 1 .. m \/ k \in m + 1 .. m + n \/ k = m + (n + 1)
        OBVIOUS
  <2> QED BY <2>1, <2>2, <2>3, <2>4
<1>12. Len(a) = Len(b)
      BY <1>6, <1>10
<1>13. a = b
      BY <1>6, <1>10, <1>11, <1>12, SequencesEqual
<1> QED BY <1>3, <1>5, <1>7, <1>9, <1>13

\* The first element before a sequence, and off it again.
LEMMA OneConcat ==
    ASSUME NEW s, IsSequence(s), NEW x
    PROVE  <<x>> \o s # << >> /\ Head(<<x>> \o s) = x /\ Tail(<<x>> \o s) = s
<1>1. PICK T : s \in Seq(T)
      BY DEF IsSequence
<1>2. PICK U : U = T \cup {x}
      OBVIOUS
<1>3. s \in Seq(U) /\ <<x>> \in Seq(U)
      BY <1>1, <1>2
<1>4. PICK n \in Nat : n = Len(s)
      BY SequenceFacts
<1>5. PICK one : one = <<x>>
      OBVIOUS
<1>6. IsSequence(one) /\ Len(one) = 1 /\ one[1] = x
      BY <1>5, OneSequence
<1>7. PICK a : a = one \o s
      OBVIOUS
<1>8. /\ IsSequence(a) /\ Len(a) = 1 + n
      /\ \A k \in 1 .. 1 : a[k] = one[k]
      /\ \A k \in 1 .. n : a[1 + k] = s[k]
  <2>1. IsSequence(s) /\ IsSequence(one) /\ a = one \o s
        BY <1>6, <1>7
  <2>2. /\ IsSequence(a) /\ Len(a) = Len(one) + Len(s)
        /\ \A k \in 1 .. Len(one) : a[k] = one[k]
        /\ \A k \in 1 .. Len(s) : a[Len(one) + k] = s[k]
        BY <2>1, ConcatFacts
  <2> QED BY <1>4, <1>6, <2>2
<1>9. a # << >>
      BY <1>8, EmptySequence
<1>10. PICK b : b = Tail(a)
      OBVIOUS
<1>11. /\ IsSequence(b) /\ Len(b) = Len(a) - 1 /\ Head(a) = a[1]
       /\ \A k \in 1 .. Len(a) - 1 : b[k] = a[k + 1]
      BY <1>8, <1>9, <1>10, TailFacts
<1>12. Len(b) = n /\ a[1] = x
      BY <1>6, <1>8, <1>11
<1>13. ASSUME NEW k \in 1 .. n PROVE b[k] = s[k]
  <2>1. k \in 1 .. Len(a) - 1 /\ k + 1 = 1 + k
        BY <1>8
  <2> QED BY <1>8, <1>11, <2>1
<1>14. b = s
      BY <1>4, <1>11, <1>12, <1>13, SequencesEqual
<1> QED BY <1>5, <1>7, <1>9, <1>10, <1>11, <1>12, <1>14

\* A sequence is its first element and the rest.
LEMMA HeadAndTail ==
    ASSUME NEW s, IsSequence(s), s # << >>
    PROVE  <<Head(s)>> \o Tail(s) = s
<1>1. PICK x : x = Head(s)
      OBVIOUS
<1>2. PICK t : t = Tail(s)
      OBVIOUS
<1>3. PICK n \in Nat : n = Len(s)
      BY SequenceFacts
<1>4. /\ IsSequence(t) /\ n >= 1 /\ Len(t) = n - 1 /\ x = s[1]
      /\ \A k \in 1 .. n - 1 : t[k] = s[k + 1]
      BY <1>1, <1>2, <1>3, TailFacts
<1>5. PICK one : one = <<x>>
      OBVIOUS
<1>6. IsSequence(one) /\ Len(one) = 1 /\ one[1] = x
      BY <1>5, OneSequence
<1>7. PICK a : a = one \o t
      OBVIOUS
<1>8. /\ IsSequence(a) /\ Len(a) = 1 + (n - 1)
      /\ \A k \in 1 .. 1 : a[k] = one[k]
      /\ \A k \in 1 .. n - 1 : a[1 + k] = t[k]
  <2>1. IsSequence(t) /\ IsSequence(one) /\ a = one \o t
        BY <1>4, <1>6, <1>7
  <2>2. /\ IsSequence(a) /\ Len(a) = Len(one) + Len(t)
        /\ \A k \in 1 .. Len(one) : a[k] = one[k]
        /\ \A k \in 1 .. Len(t) : a[Len(one) + k] = t[k]
        BY <2>1, ConcatFacts
  <2> QED BY <1>4, <1>6, <2>2
<1>9. ASSUME NEW k \in 1 .. n PROVE a[k] = s[k]
  <2>1. CASE k = 1
        BY <1>4, <1>6, <1>8, <2>1
  <2>2. CASE k # 1
    <3>1. PICK j \in 1 .. n - 1 : k = j + 1 /\ k = 1 + j
      <4>1. k - 1 \in 1 .. n - 1 /\ k = (k - 1) + 1 /\ k = 1 + (k - 1)
            BY <2>2
      <4> QED BY <4>1
    <3> QED BY <1>4, <1>8, <3>1
  <2> QED BY <2>1, <2>2
<1>10. Len(a) = n
      BY <1>8
<1>11. a = s
      BY <1>3, <1>8, <1>9, <1>10, SequencesEqual
<1> QED BY <1>1, <1>2, <1>5, <1>7, <1>11

\* Picking from a sequence that has one more element.
LEMMA PickedAppend ==
    ASSUME NEW s, IsSequence(s), NEW x, NEW P \in SUBSET (1 .. Len(s)),
           NEW t, t = Append(s, x)
    PROVE  /\ IsSequence(Picked(s, P)) /\ Len(Picked(s, P)) = Cardinality(P)
           /\ Picked(t, P) = Picked(s, P)
           /\ IsAppended(Picked(t, P \cup {Len(s) + 1}), Picked(s, P), x)
<1>1. PICK n \in Nat : n = Len(s)
      BY SequenceFacts
<1>2. /\ IsSequence(t) /\ \A k \in 1 .. n : t[k] = s[k]
      /\ t[n + 1] = x
      BY <1>1, AppendFacts
<1>3. P \in SUBSET (1 .. n)
      BY <1>1
<1>4. PICK m \in Nat : m = Cardinality(P)
      BY <1>3, RankFacts
<1>5. PICK f : f = Picked(s, P)
      OBVIOUS
<1>6. f = [k \in 1 .. m |-> f[k]]
      BY <1>4, <1>5 DEF Picked
<1>7. IsSequence(f) /\ Len(f) = m
      BY <1>6, FunctionSequence
<1>8. Picked(t, P) = Picked(s, P)
      BY <1>2, <1>3, PickedSame
<1>9. PICK i \in Nat : i = n + 1
      OBVIOUS
<1>10. PICK R : R = P \cup {i}
      OBVIOUS
<1>11. i > n
      BY <1>9
<1>12. IsAppended(Picked(t, R), Picked(t, P), t[i])
      BY <1>3, <1>10, <1>11, PickedMore
<1> QED BY <1>1, <1>2, <1>4, <1>5, <1>7, <1>8, <1>9, <1>10, <1>12

=============================================================================
