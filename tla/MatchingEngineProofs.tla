------------------------ MODULE MatchingEngineProofs ------------------------
(* Theorems about the matching engine, for any ids, prices, quantities and    *)
(* length of the event queue.                                                 *)
EXTENDS MatchingEngine, LibraryTheorems, SequenceTheorems, TLAPS

-----------------------------------------------------------------------------
(* The inductive invariant: the book.                                        *)

Orders == [side : Sides, price : Prices, open : Nat \ {0}]

\* The orders that rest at one price.
At(orders, s, p) == {id \in DOMAIN orders : orders[id].side = s /\ orders[id].price = p}

\* The queue q has its orders in the order in which they came to rest.
InTurn(q, turns) ==
    \A i, j \in DOMAIN q : \A a, b \in DOMAIN turns :
        i < j /\ turns[a] = q[i] /\ turns[b] = q[j] => a < b

BookTypes ==
    /\ DOMAIN live \subseteq OrderIds /\ \A id \in DOMAIN live : live[id] \in Orders
    /\ book \in [Sides -> [Prices -> Seq(OrderIds)]]
    /\ depth \in [Sides -> [Prices -> Nat]]
    /\ arrival \in Seq(OrderIds)

\* Every queue has the orders of its side and price, each once.
QueuesOK ==
    \A s \in Sides : \A p \in Prices :
        IsInjective(book[s][p]) /\ ToSet(book[s][p]) = At(live, s, p)

ArrivalOK ==
    /\ IsInjective(arrival) /\ ToSet(arrival) = DOMAIN live
    /\ \A s \in Sides : \A p \in Prices : InTurn(book[s][p], arrival)

BookInv == BookTypes /\ QueuesOK /\ DepthWithinBook /\ ArrivalOK /\ BookUncrossed

-----------------------------------------------------------------------------
(* The inductive invariant: the call.                                        *)

Trades == [maker : OrderIds, price : Prices, qty : Nat]

Events ==
    [topic : {"orders"}, id : OrderIds, status : Statuses, reason : Reasons, open : Nat]
    \cup [topic : {"trades"}, maker : OrderIds, price : Prices, qty : Nat]
    \cup {DepthEvent(d) : d \in [Sides -> [Prices -> Nat]]}

CallTypes ==
    /\ pc \in {"idle", "match", "return"}
    /\ remaining \in Nat
    /\ trades \in Seq(Trades)
    /\ pending \in Seq(Events)
    /\ published \in Seq(Events)

\* What a request that is being matched may rely on: its id is free, it has
\* trades exactly when it got something, a post-only order has nobody to trade
\* with, and what a fill-or-kill order still wants is there.
MatchingOK ==
    pc = "match" =>
        /\ call \in Requests /\ call.id \in OrderIds /\ call.id \notin DOMAIN live
        /\ remaining <= call.qty /\ (remaining = call.qty <=> trades = << >>)
        /\ call.type = "limit" /\ call.tif = "gtx" => trades = << >> /\ ~WouldCross(call)
        /\ call.tif = "fok" => remaining <= Resting(Opposite(call.side), Reachable(call))

IdleOK == pc = "idle" => trades = << >> /\ pending = << >> /\ published = << >>

CallInv == CallTypes /\ IdleOK /\ MatchingOK /\ TimeInForceHonoured

-----------------------------------------------------------------------------
(* The inductive invariant: what the call reports.                           *)

TradesIn(log) == {i \in DOMAIN log : log[i].topic = "trades"}
About(log, id) == {i \in DOMAIN log : log[i].topic = "orders" /\ log[i].id = id}
Traded(log) == SumFunction([i \in TradesIn(log) |-> log[i].qty])
OpenOf(orders, id) == IF id \in DOMAIN orders THEN orders[id].open ELSE 0

\* The last message about each maker tells what is left of it.
MakersTold(log, orders) ==
    \A i \in TradesIn(log) :
        \E k \in About(log, log[i].maker) :
            /\ i < k /\ log[k].open = OpenOf(orders, log[i].maker)
            /\ \A j \in About(log, log[i].maker) : j <= k

\* What was published and what is about to be.
Log == published \o pending

ReportInv ==
    /\ pc = "match" =>
          /\ Traded(Log) = call.qty - remaining
          /\ MakersTold(Log, live)
          /\ \A i \in TradesIn(Log) : Log[i].maker # call.id
    /\ pc = "return" /\ trades # << >> =>
          /\ Traded(Log) = result.executed /\ result.executed + result.remaining = call.qty
          /\ Log # << >> /\ Log[Len(Log)] = OrderEvent(call.id, result.status, "none", result.remaining)
          /\ MakersTold(Log, live)

IInv == BookInv /\ CallInv /\ ReportInv

-----------------------------------------------------------------------------
(* Sets and sequences.                                                       *)

\* The values of a function on a finite set.
LEMMA ImageFinite ==
    ASSUME NEW f, NEW S, IsFiniteSet(S)
    PROVE  IsFiniteSet({f[x] : x \in S})
<1>1. PICK T : T = {f[x] : x \in S}
      OBVIOUS
<1>2. PICK g : g = [x \in S |-> f[x]]
      OBVIOUS
<1>3. g \in Surjection(S, T)
      BY <1>1, <1>2 DEF Surjection
<1> QED BY <1>1, <1>3, FS_Surjection

\* A sequence has finitely many elements.
LEMMA ElementsFinite ==
    ASSUME NEW S, NEW q \in Seq(S)
    PROVE  IsFiniteSet(ToSet(q)) /\ ToSet(q) \subseteq S /\ (ToSet(q) = {} <=> q = << >>)
<1>1. IsFiniteSet(1..Len(q)) /\ DOMAIN q = 1..Len(q)
      BY FS_Interval
<1>2. IsFiniteSet({q[i] : i \in 1..Len(q)})
      BY <1>1, ImageFinite
<1>3. \A i \in 1..Len(q) : q[i] \in S
      OBVIOUS
<1>4. ASSUME q # << >> PROVE 1 \in 1..Len(q)
      BY <1>4
<1>5. ToSet(q) = {q[i] : i \in 1..Len(q)}
      BY <1>1 DEF ToSet
<1>6. q = << >> => 1..Len(q) = {}
      OBVIOUS
<1>7. ToSet(q) = {} <=> q = << >>
      BY <1>4, <1>5, <1>6
<1>8. ToSet(q) \subseteq S
      BY <1>3, <1>5
<1> QED BY <1>2, <1>5, <1>7, <1>8

\* A finite set of numbers has a greatest element.
LEMMA GreatestNumber ==
    ASSUME NEW S \in SUBSET Nat, IsFiniteSet(S), S # {}
    PROVE  \E x \in S : \A y \in S : x >= y
<1> DEFINE HasMax(s) == \E x \in s : \A y \in s : x >= y
           N == {m \in Nat : \E s \in SUBSET S : Cardinality(s) = m /\ s # {} /\ ~HasMax(s)}
<1>1. \A s \in SUBSET S : IsFiniteSet(s) /\ Cardinality(s) \in Nat
      BY FS_Subset, FS_CardinalityType
<1>2. SUFFICES ASSUME N # {} PROVE FALSE
  <2>1. ASSUME ~HasMax(S) PROVE Cardinality(S) \in N
        BY <1>1, <2>1
  <2> QED BY <2>1
<1>3. PICK m \in N : \A y \in N : m <= y
      BY <1>2, LeastNumber
<1>4. PICK s \in SUBSET S : Cardinality(s) = m /\ s # {} /\ ~HasMax(s)
      BY <1>3
<1>5. PICK x : x \in s
      BY <1>4
<1>6. PICK r : r = s \ {x}
      OBVIOUS
<1>7. r \in SUBSET S /\ Cardinality(r) = m - 1 /\ Cardinality(r) \in Nat
      BY <1>1, <1>4, <1>5, <1>6, Smaller
<1>8. m - 1 \notin N
      BY <1>3, <1>7
<1>9. CASE r = {}
  <2>1. \A y \in s : x >= y
        BY <1>5, <1>6, <1>9
  <2> QED BY <1>4, <1>5, <2>1
<1>10. CASE r # {}
  <2>1. HasMax(r)
        BY <1>7, <1>8, <1>10
  <2>2. PICK z \in r : \A y \in r : z >= y
        BY <2>1
  <2>3. z \in s /\ z \in Nat /\ x \in Nat /\ s \subseteq Nat
        BY <1>5, <1>6
  <2>4. CASE z >= x
    <3>1. \A y \in s : z >= y
          BY <1>6, <2>2, <2>4
    <3> QED BY <1>4, <2>3, <3>1
  <2>5. CASE x >= z
    <3>1. \A y \in s : x >= y
          BY <1>6, <2>2, <2>3, <2>5
    <3> QED BY <1>4, <1>5, <3>1
  <2> QED BY <2>3, <2>4, <2>5
<1> QED BY <1>9, <1>10

\* The smaller of two numbers.
LEMMA MinOfTwo ==
    ASSUME NEW a \in Nat, NEW b \in Nat
    PROVE  Min({a, b}) = IF a <= b THEN a ELSE b
<1>1. \E x \in {a, b} : \A y \in {a, b} : x =< y
      OBVIOUS
<1>2. Min({a, b}) \in {a, b} /\ \A y \in {a, b} : Min({a, b}) =< y
      BY <1>1 DEF Min
<1> QED BY <1>2

\* One element more at the end.
LEMMA AppendedFacts ==
    ASSUME NEW S, NEW q \in Seq(S), NEW x \in S
    PROVE  /\ Append(q, x) \in Seq(S) /\ Append(q, x) # << >>
           /\ ToSet(Append(q, x)) = ToSet(q) \cup {x}
           /\ (IsInjective(q) /\ x \notin ToSet(q)) => IsInjective(Append(q, x))
<1>1. /\ Append(q, x) \in Seq(S) /\ Len(Append(q, x)) = Len(q) + 1 /\ Len(q) \in Nat
      /\ \A i \in 1..Len(q) : Append(q, x)[i] = q[i]
      /\ Append(q, x)[Len(q) + 1] = x
      OBVIOUS
<1>2. DOMAIN Append(q, x) = 1..(Len(q) + 1) /\ DOMAIN q = 1..Len(q)
      BY <1>1
<1>3. Len(q) + 1 \in 1..(Len(q) + 1) /\ 1..Len(q) \subseteq 1..(Len(q) + 1)
      BY <1>1
<1>4. \A i \in 1..(Len(q) + 1) : i \in 1..Len(q) \/ i = Len(q) + 1
      BY <1>1
<1>5. ToSet(Append(q, x)) = ToSet(q) \cup {x}
      BY <1>1, <1>2, <1>3, <1>4 DEF ToSet
<1>6. Append(q, x) # << >>
      BY <1>1
<1>7. ASSUME IsInjective(q), x \notin ToSet(q) PROVE IsInjective(Append(q, x))
  <2>1. \A i \in 1..Len(q) : q[i] # x
        BY <1>2, <1>7 DEF ToSet
  <2>2. \A i, j \in 1..Len(q) : q[i] = q[j] => i = j
        BY <1>2, <1>7 DEF IsInjective
  <2>3. \A i, j \in 1..(Len(q) + 1) : Append(q, x)[i] = Append(q, x)[j] => i = j
        BY <1>1, <1>4, <2>1, <2>2
  <2> QED BY <1>2, <2>3 DEF IsInjective
<1> QED BY <1>1, <1>5, <1>6, <1>7

\* r is q without x, the others in the same order.
Thins(q, r, x) ==
    /\ IsInjective(r) /\ ToSet(r) = ToSet(q) \ {x}
    /\ \A i, j \in DOMAIN r : i < j =>
          \E a, b \in DOMAIN q : a < b /\ q[a] = r[i] /\ q[b] = r[j]

\* RemoveFirst does that, in a sequence without repetitions.
LEMMA RemoveFirstThins ==
    ASSUME NEW S, NEW q \in Seq(S), IsInjective(q), NEW x \in ToSet(q)
    PROVE  RemoveFirst(q, x) \in Seq(S) /\ Thins(q, RemoveFirst(q, x), x)
<1>1. DOMAIN q = 1..Len(q) /\ Len(q) \in Nat
      OBVIOUS
<1>2. PICK I : I = {i \in 1..Len(q) : q[i] = x}
      OBVIOUS
<1>3. I \in SUBSET Nat /\ I # {}
      BY <1>1, <1>2 DEF ToSet
<1>4. PICK k : k = Min(I)
      OBVIOUS
<1>5. k \in I
      BY <1>3, <1>4, LeastNumber DEF Min
<1>6. SelectInSeq(q, LAMBDA v : v = x) = k
      BY <1>2, <1>3, <1>4 DEF SelectInSeq
<1>7. k \in 1..Len(q) /\ q[k] = x
      BY <1>2, <1>5
<1>8. RemoveFirst(q, x) = SubSeq(q, 1, k - 1) \o SubSeq(q, k + 1, Len(q))
      BY <1>6, <1>7 DEF RemoveFirst, RemoveAt
<1>9. PICK r : r = SubSeq(q, 1, k - 1) \o SubSeq(q, k + 1, Len(q))
      OBVIOUS
<1>10. /\ r \in Seq(S) /\ Len(r) = Len(q) - 1
       /\ \A i \in 1..Len(r) : r[i] = IF i < k THEN q[i] ELSE q[i + 1]
  <2>1. PICK f, g : f = SubSeq(q, 1, k - 1) /\ g = SubSeq(q, k + 1, Len(q))
        OBVIOUS
  <2>2. f \in Seq(S) /\ Len(f) = k - 1 /\ \A i \in 1..(k - 1) : f[i] = q[i]
        BY <1>1, <1>7, <2>1
  <2>3. g \in Seq(S) /\ Len(g) = Len(q) - k /\ \A i \in 1..(Len(q) - k) : g[i] = q[k + i]
    <3>1. PICK n, m : n = Len(q) /\ m = k + 1
          OBVIOUS
    <3>2. n \in Int /\ m \in Int /\ m - 1 = k /\ m <= n + 1 /\ \A i \in m..n : q[i] \in S
          BY <1>1, <1>7, <3>1
    <3>3. /\ g \in Seq(S) /\ Len(g) = IF m <= n THEN n - m + 1 ELSE 0
          /\ \A i \in 1..(n - m + 1) : g[i] = q[m + i - 1]
          BY <2>1, <3>1, <3>2, SubSeqProperties
    <3>4. n - m + 1 = Len(q) - k /\ Len(g) = n - m + 1
          BY <3>1, <3>2, <3>3
    <3>5. \A i \in 1..(n - m + 1) : m + i - 1 = k + i
          BY <3>2
    <3> QED BY <3>3, <3>4, <3>5
  <2>4. r \in Seq(S) /\ Len(r) = Len(f) + Len(g)
        BY <1>9, <2>1, <2>2, <2>3
  <2>5. \A i \in 1..Len(r) : r[i] = IF i <= Len(f) THEN f[i] ELSE g[i - Len(f)]
        BY <1>9, <2>1, <2>2, <2>3
  <2>6. Len(r) = Len(q) - 1
        BY <1>1, <1>7, <2>2, <2>3, <2>4
  <2>7. ASSUME NEW i \in 1..Len(r) PROVE r[i] = IF i < k THEN q[i] ELSE q[i + 1]
    <3>1. CASE i < k
          BY <1>7, <2>2, <2>5, <2>7, <3>1
    <3>2. CASE ~(i < k)
      <4>1. i - Len(f) \in 1..(Len(q) - k) /\ k + (i - Len(f)) = i + 1
            BY <1>1, <1>7, <2>2, <2>6, <3>2
      <4>2. r[i] = g[i - Len(f)]
            BY <1>7, <2>2, <2>5, <3>2
      <4> QED BY <2>3, <3>2, <4>1, <4>2
    <3> QED BY <3>1, <3>2
  <2> QED BY <2>4, <2>6, <2>7
<1>11. PICK at : at = [i \in 1..Len(r) |-> IF i < k THEN i ELSE i + 1]
       OBVIOUS
<1>12. \A i \in 1..Len(r) : at[i] \in 1..Len(q) /\ at[i] # k /\ r[i] = q[at[i]]
       BY <1>1, <1>7, <1>10, <1>11
<1>13. \A i, j \in 1..Len(r) : i < j => at[i] < at[j]
       BY <1>1, <1>7, <1>10, <1>11
<1>14. DOMAIN r = 1..Len(r)
       BY <1>10
<1>15. IsInjective(r)
  <2>1. ASSUME NEW i \in 1..Len(r), NEW j \in 1..Len(r), r[i] = r[j] PROVE i = j
    <3>1. at[i] = at[j]
          BY <1>1, <1>12, <2>1 DEF IsInjective
    <3>2. at[i] \in Nat /\ at[j] \in Nat /\ i \in Nat /\ j \in Nat
          BY <1>12
    <3> QED BY <1>13, <3>1, <3>2
  <2> QED BY <1>14, <2>1 DEF IsInjective
<1>16. ToSet(r) = ToSet(q) \ {x}
  <2>1. ASSUME NEW i \in 1..Len(r) PROVE r[i] \in ToSet(q) \ {x}
        BY <1>1, <1>7, <1>12 DEF IsInjective, ToSet
  <2>2. ASSUME NEW a \in 1..Len(q), q[a] # x PROVE q[a] \in ToSet(r)
    <3>1. PICK i : i = IF a < k THEN a ELSE a - 1
          OBVIOUS
    <3>2. a # k /\ i \in 1..Len(r) /\ at[i] = a
          BY <1>1, <1>7, <1>10, <1>11, <2>2, <3>1
    <3> QED BY <1>12, <1>14, <3>2 DEF ToSet
  <2> QED BY <1>1, <1>14, <2>1, <2>2 DEF ToSet
<1>17. Thins(q, r, x)
  <2>1. ASSUME NEW i \in DOMAIN r, NEW j \in DOMAIN r, i < j
        PROVE  \E a, b \in DOMAIN q : a < b /\ q[a] = r[i] /\ q[b] = r[j]
        BY <1>1, <1>12, <1>13, <1>14, <2>1
  <2> QED BY <1>15, <1>16, <2>1 DEF Thins
<1> QED BY <1>8, <1>9, <1>10, <1>17

\* Taking turns survives the removal of an order, from the queue or from the
\* turns, and the arrival of one that is last in both.
LEMMA TurnsKept ==
    ASSUME NEW q, NEW turns, InTurn(q, turns), IsInjective(q), NEW r, NEW x
    PROVE  /\ Thins(q, r, x) => InTurn(r, turns)
           /\ turns \in Seq(OrderIds) /\ r \in Seq(OrderIds) /\ Thins(turns, r, x)
                => InTurn(q, r)
<1>1. ASSUME Thins(q, r, x), NEW i \in DOMAIN r, NEW j \in DOMAIN r,
             NEW a \in DOMAIN turns, NEW b \in DOMAIN turns,
             i < j, turns[a] = r[i], turns[b] = r[j]
      PROVE  a < b
  <2>1. PICK c, d \in DOMAIN q : c < d /\ q[c] = r[i] /\ q[d] = r[j]
        BY <1>1 DEF Thins
  <2> QED BY <1>1, <2>1 DEF InTurn
<1>2. ASSUME turns \in Seq(OrderIds), r \in Seq(OrderIds), Thins(turns, r, x),
             NEW i \in DOMAIN q, NEW j \in DOMAIN q, NEW a \in DOMAIN r, NEW b \in DOMAIN r,
             i < j, r[a] = q[i], r[b] = q[j], i # j
      PROVE  a < b
  <2>1. a \in Nat /\ b \in Nat /\ \A c \in DOMAIN turns : c \in Nat
        BY <1>2
  <2>2. CASE a = b
        BY <1>2, <2>2 DEF IsInjective
  <2>3. CASE b < a
    <3>1. PICK c, d \in DOMAIN turns : c < d /\ turns[c] = r[b] /\ turns[d] = r[a]
          BY <1>2, <2>3 DEF Thins
    <3>2. d < c
          BY <1>2, <3>1 DEF InTurn
    <3> QED BY <2>1, <3>1, <3>2
  <2> QED BY <2>1, <2>2, <2>3
<1>3. Thins(q, r, x) => InTurn(r, turns)
      BY <1>1 DEF InTurn
<1> QED BY <1>2, <1>3 DEF InTurn

\* The newcomer is last.
LEMMA TurnsAppended ==
    ASSUME NEW q \in Seq(OrderIds), NEW turns \in Seq(OrderIds), InTurn(q, turns),
           NEW x \in OrderIds, x \notin ToSet(turns), x \notin ToSet(q), ToSet(q) \subseteq ToSet(turns)
    PROVE  InTurn(q, Append(turns, x)) /\ InTurn(Append(q, x), Append(turns, x))
<1>1. /\ DOMAIN q = 1..Len(q) /\ DOMAIN Append(q, x) = 1..(Len(q) + 1)
      /\ DOMAIN turns = 1..Len(turns) /\ DOMAIN Append(turns, x) = 1..(Len(turns) + 1)
      /\ Len(q) \in Nat /\ Len(turns) \in Nat
      OBVIOUS
<1>2. /\ \A i \in 1..Len(q) : Append(q, x)[i] = q[i] /\ q[i] # x
      /\ \A a \in 1..Len(turns) : Append(turns, x)[a] = turns[a] /\ turns[a] # x
      /\ Append(q, x)[Len(q) + 1] = x /\ Append(turns, x)[Len(turns) + 1] = x
      BY <1>1 DEF ToSet
<1>3. \A n \in Nat : \A i \in 1..(n + 1) : i \in 1..n \/ i = n + 1
      OBVIOUS
<1>4. ASSUME NEW i \in 1..Len(q), NEW j \in 1..Len(q), i < j,
             NEW a \in 1..(Len(turns) + 1), NEW b \in 1..(Len(turns) + 1),
             Append(turns, x)[a] = q[i], Append(turns, x)[b] = q[j]
      PROVE  a < b
  <2>1. a \in 1..Len(turns) /\ b \in 1..Len(turns)
        BY <1>1, <1>2, <1>3, <1>4
  <2> QED BY <1>1, <1>2, <1>4, <2>1 DEF InTurn
<1>5. InTurn(q, Append(turns, x))
      BY <1>1, <1>4 DEF InTurn
<1>6. ASSUME NEW i \in 1..(Len(q) + 1), NEW j \in 1..(Len(q) + 1), i < j,
             NEW a \in 1..(Len(turns) + 1), NEW b \in 1..(Len(turns) + 1),
             Append(turns, x)[a] = Append(q, x)[i], Append(turns, x)[b] = Append(q, x)[j]
      PROVE  a < b
  <2>1. i \in 1..Len(q)
        BY <1>1, <1>6
  <2>2. CASE j \in 1..Len(q)
        BY <1>2, <1>4, <1>6, <2>1, <2>2
  <2>3. CASE j = Len(q) + 1
    <3>1. a \in 1..Len(turns) /\ b = Len(turns) + 1
          BY <1>1, <1>2, <1>3, <1>6, <2>1, <2>3
    <3> QED BY <1>1, <3>1
  <2> QED BY <1>1, <1>3, <2>2, <2>3
<1>7. InTurn(Append(q, x), Append(turns, x))
      BY <1>1, <1>6 DEF InTurn
<1> QED BY <1>5, <1>7

-----------------------------------------------------------------------------
(* Open quantities.                                                          *)

\* The orders of the set have something left to trade.
HaveOpen(orders, S) == \A id \in S : orders[id].open \in Nat \ {0}

\* What rests in a queue: nothing in an empty one, something in any other.
LEMMA OpenFacts ==
    ASSUME NEW orders, NEW q \in Seq(OrderIds), HaveOpen(orders, ToSet(q))
    PROVE  /\ Open(orders, q) \in Nat
           /\ q = << >> => Open(orders, q) = 0
           /\ q # << >> => Open(orders, q) > 0
<1>1. PICK f, S : S = ToSet(q) /\ f = [id \in S |-> orders[id].open]
      OBVIOUS
<1>2. IsFiniteSet(S) /\ (S = {} <=> q = << >>)
      BY <1>1, ElementsFinite
<1>3. \A x \in S : f[x] \in Nat \ {0} /\ f[x] \in Nat /\ f[x] \in Int
      BY <1>1 DEF HaveOpen
<1>4. Open(orders, q) = SumFunctionOnSet(f, S)
      BY <1>1 DEF Open
<1>5. Open(orders, q) \in Nat
      BY <1>2, <1>3, <1>4, SumIsNat
<1>6. /\ SumFunctionOnSet(f, {}) = 0
      /\ \A x \in S : SumFunctionOnSet(f, S) = f[x] + SumFunctionOnSet(f, S \ {x})
      BY <1>2, <1>3, SumSplits
<1>7. ASSUME q # << >> PROVE Open(orders, q) > 0
  <2>1. PICK x : x \in S
        BY <1>2, <1>7
  <2>2. IsFiniteSet(S \ {x}) /\ \A y \in S \ {x} : f[y] \in Nat
        BY <1>2, <1>3, FS_Subset
  <2>3. SumFunctionOnSet(f, S \ {x}) \in Nat
        BY <2>2, SumIsNat
  <2> QED BY <1>3, <1>4, <1>6, <2>1, <2>3
<1> QED BY <1>2, <1>4, <1>5, <1>6, <1>7

\* It depends on the orders in the queue only.
LEMMA OpenSame ==
    ASSUME NEW orders, NEW others, NEW q, \A id \in ToSet(q) : others[id].open = orders[id].open
    PROVE  Open(others, q) = Open(orders, q)
<1>1. [id \in ToSet(q) |-> others[id].open] = [id \in ToSet(q) |-> orders[id].open]
      OBVIOUS
<1> QED BY <1>1 DEF Open

\* One order less, or more.
LEMMA OpenDiffers ==
    ASSUME NEW orders, NEW others, NEW q \in Seq(OrderIds), NEW r \in Seq(OrderIds), NEW x \in ToSet(q),
           ToSet(r) = ToSet(q) \ {x}, HaveOpen(orders, ToSet(q)),
           \A id \in ToSet(r) : others[id].open = orders[id].open
    PROVE  Open(orders, q) = orders[x].open + Open(others, r) /\ Open(others, r) \in Nat
<1>1. PICK f, g, S, T : /\ S = ToSet(q) /\ f = [id \in S |-> orders[id].open]
                        /\ T = ToSet(r) /\ g = [id \in T |-> others[id].open]
      OBVIOUS
<1>2. IsFiniteSet(S) /\ IsFiniteSet(T) /\ T = S \ {x} /\ x \in S
      BY <1>1, ElementsFinite
<1>3. \A id \in S : f[id] \in Int
      BY <1>1 DEF HaveOpen
<1>4. \A id \in T : f[id] \in Int /\ g[id] = f[id]
      BY <1>1, <1>2, <1>3
<1>5. SumFunctionOnSet(f, S) = f[x] + SumFunctionOnSet(f, S \ {x})
      BY <1>2, <1>3, SumSplits
<1>6. SumFunctionOnSet(g, T) = SumFunctionOnSet(f, T)
      BY <1>2, <1>4, SumOfEquals
<1>7. HaveOpen(others, ToSet(r))
      BY <1>1, <1>2 DEF HaveOpen
<1> QED BY <1>1, <1>2, <1>5, <1>6, <1>7, OpenFacts DEF Open

-----------------------------------------------------------------------------
(* Levels and the best price.                                                *)

\* The levels of a side are finitely many, and the best price is one of them.
LEMMA BestIsBest ==
    ASSUME BookTypes, QueuesOK, ArrivalOK, NEW s \in Sides
    PROVE  /\ IsFiniteSet(Levels(s)) /\ Levels(s) \subseteq Nat
           /\ Levels(s) # {} =>
                /\ BestPrice(s) \in Levels(s)
                /\ \A p \in Levels(s) : IF s = "sell" THEN BestPrice(s) <= p ELSE BestPrice(s) >= p
<1>1. PICK f : f = [id \in DOMAIN live |-> live[id].price]
      OBVIOUS
<1>2. IsFiniteSet(DOMAIN live)
      BY ElementsFinite DEF BookTypes, ArrivalOK
<1>3. IsFiniteSet({f[id] : id \in DOMAIN live})
      BY <1>2, ImageFinite
<1>4. ASSUME NEW p \in Levels(s) PROVE p \in {f[id] : id \in DOMAIN live}
  <2>1. p \in Prices /\ book[s][p] \in Seq(OrderIds) /\ book[s][p] # << >>
        BY <1>4 DEF Levels, BookTypes
  <2>2. PICK id : id \in ToSet(book[s][p])
        BY <2>1, ElementsFinite
  <2>3. id \in DOMAIN live /\ live[id].price = p
        BY <2>1, <2>2 DEF QueuesOK, At
  <2> QED BY <1>1, <2>3
<1>5. IsFiniteSet(Levels(s))
  <2>1. Levels(s) \subseteq {f[id] : id \in DOMAIN live}
        BY <1>4
  <2> QED BY <1>3, <2>1, FS_Subset
<1>6. Levels(s) \subseteq Nat
      BY PricesAssumption DEF Levels
<1>7. ASSUME Levels(s) # {}, s = "sell"
      PROVE  BestPrice(s) \in Levels(s) /\ \A p \in Levels(s) : BestPrice(s) <= p
  <2>1. \E x \in Levels(s) : \A y \in Levels(s) : x <= y
        BY <1>6, <1>7, LeastNumber
  <2>2. BestPrice(s) = Min(Levels(s))
        BY <1>7 DEF BestPrice
  <2> QED BY <2>1, <2>2 DEF Min
<1>8. ASSUME Levels(s) # {}, s # "sell"
      PROVE  BestPrice(s) \in Levels(s) /\ \A p \in Levels(s) : BestPrice(s) >= p
  <2>1. \E x \in Levels(s) : \A y \in Levels(s) : x >= y
        BY <1>5, <1>6, <1>8, GreatestNumber
  <2>2. BestPrice(s) = Max(Levels(s))
        BY <1>8 DEF BestPrice
  <2> QED BY <2>1, <2>2 DEF Max
<1> QED BY <1>5, <1>6, <1>7, <1>8

\* What a request looks like.
LEMMA RequestFacts ==
    ASSUME NEW r \in Requests
    PROVE  /\ r.side \in Sides /\ Opposite(r.side) \in Sides /\ Opposite(r.side) # r.side
           /\ r.qty \in Nat /\ r.price \in Nat /\ r.type \in {"limit", "market"}
           /\ r.type = "limit" => r.price \in Prices
           /\ r.id \in OrderIds \cup {NoId} /\ r.tif \in Tifs
<1>1. /\ r.side \in Sides /\ r.qty \in Quantities /\ r.type \in {"limit", "market"}
      /\ r.type = "limit" => r.price \in Prices
      /\ r.price \in Prices \cup {0}
      /\ r.id \in OrderIds \cup {NoId} /\ r.tif \in Tifs
      BY DEF Requests
<1>2. Opposite(r.side) \in Sides /\ Opposite(r.side) # r.side
      BY <1>1 DEF Opposite, Sides
<1>3. r.qty \in Nat
      BY <1>1, QuantitiesAssumption
<1>4. r.price \in Nat
  <2>1. \A p \in Prices : p \in Nat
        BY PricesAssumption
  <2> QED BY <1>1, <2>1
<1> QED BY <1>1, <1>2, <1>3, <1>4

\* A taker that may not trade at the best price may not trade at any.
LEMMA NoneReachable ==
    ASSUME BookTypes, QueuesOK, ArrivalOK, NEW r \in Requests, ~WouldCross(r)
    PROVE  Reachable(r) = {}
<1>1. PICK s : s = Opposite(r.side)
      OBVIOUS
<1>2. s \in Sides /\ r.side \in Sides /\ r.price \in Nat
      BY <1>1, RequestFacts
<1>3. SUFFICES ASSUME NEW p \in Levels(s), PriceAllows(r, p) PROVE FALSE
      BY <1>1 DEF Reachable
<1>4. /\ BestPrice(s) \in Levels(s) /\ Levels(s) \subseteq Nat
      /\ IF s = "sell" THEN BestPrice(s) <= p ELSE BestPrice(s) >= p
      BY <1>2, <1>3, BestIsBest
<1>5. ~PriceAllows(r, BestPrice(s))
      BY <1>1, <1>4 DEF WouldCross
<1>6. CASE r.side = "buy"
  <2>1. s = "sell" /\ r.side # "sell"
        BY <1>1, <1>6 DEF Opposite
  <2>2. BestPrice(s) <= p /\ p \in Nat /\ BestPrice(s) \in Nat
        BY <1>4, <2>1
  <2> QED BY <1>2, <1>3, <1>5, <1>6, <2>1, <2>2 DEF PriceAllows
<1>7. CASE r.side = "sell"
  <2>1. s = "buy" /\ r.side # "buy"
        BY <1>1, <1>7 DEF Opposite
  <2>2. BestPrice(s) >= p /\ p \in Nat /\ BestPrice(s) \in Nat
        BY <1>4, <2>1
  <2> QED BY <1>2, <1>3, <1>5, <1>7, <2>1, <2>2 DEF PriceAllows
<1> QED BY <1>2, <1>6, <1>7 DEF Sides

\* A change of one cell.
LEMMA OneCell ==
    ASSUME NEW S, NEW f \in [Sides -> [Prices -> S]], NEW s \in Sides, NEW p \in Prices, NEW v \in S,
           NEW g, g = [f EXCEPT ![s][p] = v]
    PROVE  /\ g \in [Sides -> [Prices -> S]]
           /\ \A t \in Sides : \A q \in Prices : g[t][q] = IF t = s /\ q = p THEN v ELSE f[t][q]
  OBVIOUS

-----------------------------------------------------------------------------
(* The three changes of the book.                                            *)

\* An order leaves the book.
LEMMA RemovalKeepsBook ==
    ASSUME BookInv, NEW id \in DOMAIN live, RemoveResting(id)
    PROVE  /\ BookInv' /\ live' = Without(live, id)
           /\ \A s \in Sides : \A p \in Prices :
                 s # live[id].side \/ p # live[id].price => book'[s][p] = book[s][p]
<1>1. PICK s0, p0, q, r : /\ s0 = live[id].side /\ p0 = live[id].price
                          /\ q = book[s0][p0] /\ r = RemoveFirst(q, id)
      OBVIOUS
<1>2. s0 \in Sides /\ p0 \in Prices /\ q \in Seq(OrderIds) /\ id \in OrderIds
      BY <1>1 DEF BookInv, BookTypes, Orders
<1>3. IsInjective(q) /\ ToSet(q) = At(live, s0, p0) /\ id \in ToSet(q)
      BY <1>1, <1>2 DEF BookInv, QueuesOK, At
<1>4. r \in Seq(OrderIds) /\ Thins(q, r, id)
      BY <1>1, <1>2, <1>3, RemoveFirstThins
<1>5. /\ book' = [book EXCEPT ![s0][p0] = r] /\ live' = Without(live, id)
      /\ depth' = [depth EXCEPT ![s0][p0] = Open(live, r)] /\ arrival' = RemoveFirst(arrival, id)
      BY <1>1 DEF RemoveResting, DepthUpdate
<1>6. /\ DOMAIN live' = DOMAIN live \ {id}
      /\ \A x \in DOMAIN live \ {id} : live'[x] = live[x]
      BY <1>5 DEF Without
<1>7. HaveOpen(live, DOMAIN live)
      BY DEF HaveOpen, BookInv, BookTypes, Orders
<1>8. ToSet(r) = ToSet(q) \ {id} /\ IsInjective(r)
      BY <1>4 DEF Thins
<1>9. HaveOpen(live, ToSet(r)) /\ ToSet(r) \subseteq DOMAIN live \ {id}
      BY <1>3, <1>7, <1>8 DEF HaveOpen, At
<1>10. PICK d : d = Open(live, r)
      OBVIOUS
<1>11. d \in Nat /\ (r = << >> => d = 0) /\ (r # << >> => d > 0)
      BY <1>4, <1>9, <1>10, OpenFacts
<1>12. d = Open(live', r)
  <2>1. \A x \in ToSet(r) : live'[x].open = live[x].open
        BY <1>6, <1>9
  <2> QED BY <1>10, <2>1, OpenSame
<1>13. /\ book' \in [Sides -> [Prices -> Seq(OrderIds)]]
       /\ \A s \in Sides : \A p \in Prices :
             book'[s][p] = IF s = s0 /\ p = p0 THEN r ELSE book[s][p]
       BY <1>2, <1>4, <1>5, OneCell DEF BookInv, BookTypes
<1>14. /\ depth' \in [Sides -> [Prices -> Nat]]
       /\ \A s \in Sides : \A p \in Prices :
             depth'[s][p] = IF s = s0 /\ p = p0 THEN d ELSE depth[s][p]
       BY <1>2, <1>5, <1>10, <1>11, OneCell DEF BookInv, BookTypes
<1>15. arrival' \in Seq(OrderIds) /\ Thins(arrival, arrival', id)
  <2>1. id \in ToSet(arrival) /\ IsInjective(arrival) /\ arrival \in Seq(OrderIds)
        BY DEF BookInv, ArrivalOK, BookTypes
  <2> QED BY <1>5, <2>1, RemoveFirstThins
<1>16. BookTypes'
       BY <1>6, <1>13, <1>14, <1>15 DEF BookInv, BookTypes
<1>17. ASSUME NEW s \in Sides, NEW p \in Prices, ~(s = s0 /\ p = p0)
       PROVE  /\ At(live', s, p) = At(live, s, p) /\ id \notin At(live, s, p)
              /\ book'[s][p] = book[s][p] /\ depth'[s][p] = depth[s][p]
       BY <1>1, <1>6, <1>13, <1>14, <1>17 DEF At
<1>18. /\ At(live', s0, p0) = At(live, s0, p0) \ {id}
       /\ book'[s0][p0] = r /\ depth'[s0][p0] = d
       BY <1>2, <1>6, <1>13, <1>14 DEF At
<1>19. ASSUME NEW s \in Sides, NEW p \in Prices
       PROVE  IsInjective(book'[s][p]) /\ ToSet(book'[s][p]) = At(live', s, p)
  <2>1. CASE s = s0 /\ p = p0
        BY <1>3, <1>8, <1>18, <2>1
  <2>2. CASE ~(s = s0 /\ p = p0)
        BY <1>17, <2>2 DEF BookInv, QueuesOK
  <2> QED BY <2>1, <2>2
<1>20. ASSUME NEW s \in Sides, NEW p \in Prices
       PROVE  (depth'[s][p] > 0 <=> p \in Levels(s)') /\ depth'[s][p] <= Open(live', book'[s][p])
  <2>1. CASE s = s0 /\ p = p0
        BY <1>2, <1>11, <1>12, <1>18, <2>1 DEF Levels
  <2>2. CASE ~(s = s0 /\ p = p0)
    <3>1. ToSet(book[s][p]) = At(live, s, p)
          BY DEF BookInv, QueuesOK
    <3>2. \A x \in ToSet(book[s][p]) : live'[x].open = live[x].open
          BY <1>6, <1>17, <2>2, <3>1 DEF At
    <3>3. Open(live', book[s][p]) = Open(live, book[s][p])
          BY <3>2, OpenSame
    <3>4. p \in Levels(s)' <=> p \in Levels(s)
          BY <1>17, <2>2 DEF Levels
    <3> QED BY <1>17, <2>2, <3>3, <3>4 DEF BookInv, DepthWithinBook
  <2> QED BY <2>1, <2>2
<1>21. ASSUME NEW s \in Sides, NEW p \in Prices
       PROVE  InTurn(book'[s][p], arrival')
  <2>1. InTurn(book[s][p], arrival) /\ IsInjective(book[s][p]) /\ arrival \in Seq(OrderIds)
        BY DEF BookInv, ArrivalOK, QueuesOK, BookTypes
  <2>2. InTurn(book'[s][p], arrival) /\ IsInjective(book'[s][p])
    <3>1. CASE s = s0 /\ p = p0
          BY <1>1, <1>4, <1>8, <1>18, <2>1, <3>1, TurnsKept
    <3>2. CASE ~(s = s0 /\ p = p0)
          BY <1>17, <2>1, <3>2
    <3> QED BY <3>1, <3>2
  <2> QED BY <1>15, <2>1, <2>2, TurnsKept
<1>22. ArrivalOK'
  <2>1. IsInjective(arrival') /\ ToSet(arrival') = DOMAIN live'
        BY <1>6, <1>15 DEF Thins, BookInv, ArrivalOK
  <2> QED BY <1>21, <2>1 DEF ArrivalOK
<1>23. ASSUME NEW s \in Sides PROVE Levels(s)' \subseteq Levels(s)
  <2>1. ASSUME NEW p \in Prices, book'[s][p] # << >> PROVE book[s][p] # << >>
    <3>1. CASE s = s0 /\ p = p0
      <4>1. ToSet(q) # {}
            BY <1>3
      <4> QED BY <1>1, <1>2, <3>1, <4>1, ElementsFinite
    <3>2. CASE ~(s = s0 /\ p = p0)
          BY <1>17, <2>1, <3>2
    <3> QED BY <3>1, <3>2
  <2> QED BY <2>1 DEF Levels
<1>24. BookUncrossed'
  <2>1. Levels("buy")' \subseteq Levels("buy") /\ Levels("sell")' \subseteq Levels("sell")
        BY <1>23 DEF Sides
  <2> QED BY <2>1 DEF BookInv, BookUncrossed
<1>25. QueuesOK' /\ DepthWithinBook'
       BY <1>19, <1>20 DEF QueuesOK, DepthWithinBook
<1>26. \A s \in Sides : \A p \in Prices :
          s # live[id].side \/ p # live[id].price => book'[s][p] = book[s][p]
       BY <1>1, <1>17
<1> QED BY <1>5, <1>16, <1>22, <1>24, <1>25, <1>26 DEF BookInv

\* An order comes to rest, with nobody on the other side it could trade with.
LEMMA ArrivalKeepsBook ==
    ASSUME BookInv, NEW r \in Requests, r.type = "limit", r.id \in OrderIds, r.id \notin DOMAIN live,
           NEW left \in Nat, left > 0, ~WouldCross(r), AddResting(r, left)
    PROVE  BookInv' /\ live' = With(live, r.id, [side |-> r.side, price |-> r.price, open |-> left])
<1>1. PICK id, s0, p0, q, o, n : /\ id = r.id /\ s0 = r.side /\ p0 = r.price /\ q = book[s0][p0]
                                 /\ o = [side |-> s0, price |-> p0, open |-> left]
                                 /\ n = Append(q, id)
      OBVIOUS
<1>2. s0 \in Sides /\ p0 \in Prices /\ q \in Seq(OrderIds) /\ id \in OrderIds /\ id \notin DOMAIN live
      BY <1>1, RequestFacts DEF BookInv, BookTypes
<1>3. IsInjective(q) /\ ToSet(q) = At(live, s0, p0) /\ id \notin ToSet(q)
      BY <1>1, <1>2 DEF BookInv, QueuesOK, At
<1>4. /\ n \in Seq(OrderIds) /\ n # << >> /\ ToSet(n) = ToSet(q) \cup {id} /\ IsInjective(n)
      BY <1>1, <1>2, <1>3, AppendedFacts
<1>5. /\ book' = [book EXCEPT ![s0][p0] = n] /\ live' = With(live, id, o)
      /\ depth' = [depth EXCEPT ![s0][p0] = left] /\ arrival' = Append(arrival, id)
      BY <1>1 DEF AddResting, DepthUpdate
<1>6. /\ DOMAIN live' = DOMAIN live \cup {id} /\ live'[id] = o
      /\ \A x \in DOMAIN live : live'[x] = live[x]
      BY <1>2, <1>5 DEF With
<1>7. o \in Orders
      BY <1>1, <1>2 DEF Orders
<1>8. /\ book' \in [Sides -> [Prices -> Seq(OrderIds)]]
      /\ \A s \in Sides : \A p \in Prices :
            book'[s][p] = IF s = s0 /\ p = p0 THEN n ELSE book[s][p]
      BY <1>2, <1>4, <1>5, OneCell DEF BookInv, BookTypes
<1>9. /\ depth' \in [Sides -> [Prices -> Nat]]
      /\ \A s \in Sides : \A p \in Prices :
            depth'[s][p] = IF s = s0 /\ p = p0 THEN left ELSE depth[s][p]
      BY <1>2, <1>5, OneCell DEF BookInv, BookTypes
<1>10. /\ arrival \in Seq(OrderIds) /\ arrival' \in Seq(OrderIds) /\ id \notin ToSet(arrival)
       /\ ToSet(arrival') = DOMAIN live' /\ IsInjective(arrival')
  <2>1. arrival \in Seq(OrderIds) /\ IsInjective(arrival) /\ ToSet(arrival) = DOMAIN live
        BY DEF BookInv, ArrivalOK, BookTypes
  <2> QED BY <1>2, <1>5, <1>6, <2>1, AppendedFacts
<1>11. BookTypes'
       BY <1>2, <1>6, <1>7, <1>8, <1>9, <1>10 DEF BookInv, BookTypes
<1>12. ASSUME NEW s \in Sides, NEW p \in Prices, ~(s = s0 /\ p = p0)
       PROVE  /\ At(live', s, p) = At(live, s, p)
              /\ book'[s][p] = book[s][p] /\ depth'[s][p] = depth[s][p]
  <2>1. o.side = s0 /\ o.price = p0
        BY <1>1
  <2> QED BY <1>6, <1>8, <1>9, <1>12, <2>1 DEF At
<1>13. /\ At(live', s0, p0) = At(live, s0, p0) \cup {id}
       /\ book'[s0][p0] = n /\ depth'[s0][p0] = left
  <2>1. o.side = s0 /\ o.price = p0
        BY <1>1
  <2> QED BY <1>2, <1>6, <1>8, <1>9, <2>1 DEF At
<1>14. ASSUME NEW s \in Sides, NEW p \in Prices
       PROVE  IsInjective(book'[s][p]) /\ ToSet(book'[s][p]) = At(live', s, p)
  <2>1. CASE s = s0 /\ p = p0
        BY <1>3, <1>4, <1>13, <2>1
  <2>2. CASE ~(s = s0 /\ p = p0)
        BY <1>12, <2>2 DEF BookInv, QueuesOK
  <2> QED BY <2>1, <2>2
<1>15. left <= Open(live', n)
  <2>1. HaveOpen(live', ToSet(n))
        BY <1>11, <1>3, <1>4, <1>6 DEF HaveOpen, BookTypes, Orders, At
  <2>2. ToSet(q) = ToSet(n) \ {id} /\ id \in ToSet(n)
        BY <1>3, <1>4
  <2>3. \A x \in ToSet(q) : live[x].open = live'[x].open
        BY <1>3, <1>6 DEF At
  <2>4. Open(live', n) = live'[id].open + Open(live, q) /\ Open(live, q) \in Nat
        BY <1>2, <1>4, <2>1, <2>2, <2>3, OpenDiffers
  <2>5. live'[id].open = left
        BY <1>1, <1>6
  <2> QED BY <2>4, <2>5
<1>16. ASSUME NEW s \in Sides, NEW p \in Prices
       PROVE  (depth'[s][p] > 0 <=> p \in Levels(s)') /\ depth'[s][p] <= Open(live', book'[s][p])
  <2>1. CASE s = s0 /\ p = p0
        BY <1>2, <1>4, <1>13, <1>15, <2>1 DEF Levels
  <2>2. CASE ~(s = s0 /\ p = p0)
    <3>1. ToSet(book[s][p]) = At(live, s, p)
          BY DEF BookInv, QueuesOK
    <3>2. \A x \in ToSet(book[s][p]) : live'[x].open = live[x].open
          BY <1>6, <3>1 DEF At
    <3>3. Open(live', book[s][p]) = Open(live, book[s][p])
          BY <3>2, OpenSame
    <3>4. p \in Levels(s)' <=> p \in Levels(s)
          BY <1>12, <2>2 DEF Levels
    <3> QED BY <1>12, <2>2, <3>3, <3>4 DEF BookInv, DepthWithinBook
  <2> QED BY <2>1, <2>2
<1>17. ASSUME NEW s \in Sides, NEW p \in Prices
       PROVE  InTurn(book'[s][p], arrival')
  <2>1. /\ InTurn(book[s][p], arrival) /\ book[s][p] \in Seq(OrderIds)
        /\ ToSet(book[s][p]) \subseteq ToSet(arrival) /\ id \notin ToSet(book[s][p])
        BY <1>2 DEF BookInv, ArrivalOK, QueuesOK, BookTypes, At
  <2>2. /\ InTurn(book[s][p], Append(arrival, id))
        /\ InTurn(Append(book[s][p], id), Append(arrival, id))
        BY <1>2, <1>10, <2>1, TurnsAppended
  <2>3. CASE s = s0 /\ p = p0
        BY <1>1, <1>5, <1>13, <2>2, <2>3
  <2>4. CASE ~(s = s0 /\ p = p0)
        BY <1>5, <1>12, <2>2, <2>4
  <2> QED BY <2>3, <2>4
<1>18. BookUncrossed'
  <2>1. Reachable(r) = {}
        BY NoneReachable DEF BookInv
  <2>2. ASSUME NEW s \in Sides, NEW p \in Levels(s)'
        PROVE  p \in Levels(s) \/ (s = s0 /\ p = p0)
    <3>1. p \in Prices /\ book'[s][p] # << >>
          BY <2>2 DEF Levels
    <3> QED BY <1>12, <3>1 DEF Levels
  <2>3. s0 = r.side /\ p0 = r.price /\ p0 \in Nat
        BY <1>1, RequestFacts
  <2>4. ASSUME NEW b \in Levels("buy")', NEW a \in Levels("sell")' PROVE b < a
    <3>1. "buy" \in Sides /\ "sell" \in Sides
          BY DEF Sides
    <3>2. /\ b \in Levels("buy") \/ (s0 = "buy" /\ b = p0)
          /\ a \in Levels("sell") \/ (s0 = "sell" /\ a = p0)
          BY <2>2, <2>4, <3>1
    <3>3. b \in Nat /\ a \in Nat
          BY PricesAssumption DEF Levels
    <3>4. CASE b \in Levels("buy") /\ a \in Levels("sell")
          BY <3>4 DEF BookInv, BookUncrossed
    <3>5. CASE s0 = "buy" /\ b = p0 /\ a \in Levels("sell")
      <4>1. ~PriceAllows(r, a)
            BY <2>1, <2>3, <3>5 DEF Reachable, Opposite
      <4>2. ~(a <= p0)
            BY <2>3, <3>5, <4>1 DEF PriceAllows
      <4> QED BY <3>3, <3>5, <4>2
    <3>6. CASE s0 = "sell" /\ a = p0 /\ b \in Levels("buy")
      <4>1. ~PriceAllows(r, b)
            BY <2>1, <2>3, <3>6 DEF Reachable, Opposite
      <4>2. ~(b >= p0)
            BY <2>3, <3>6, <4>1 DEF PriceAllows
      <4> QED BY <3>3, <3>6, <4>2
    <3> QED BY <3>2, <3>4, <3>5, <3>6
  <2> QED BY <2>4 DEF BookUncrossed
<1>19. QueuesOK' /\ DepthWithinBook' /\ ArrivalOK'
       BY <1>10, <1>14, <1>16, <1>17 DEF QueuesOK, DepthWithinBook, ArrivalOK
<1> QED BY <1>1, <1>5, <1>11, <1>18, <1>19 DEF BookInv

\* A partial fill: the order keeps its place.
Shrinks(id, rest) ==
    /\ live' = [live EXCEPT ![id].open = rest]
    /\ depth' = DepthUpdate(live[id].side, live[id].price,
                            Open(live', book[live[id].side][live[id].price]))
    /\ UNCHANGED <<book, arrival>>

\* The book after it.
LEMMA ShrinkKeepsBook ==
    ASSUME BookInv, NEW id \in DOMAIN live, NEW rest \in Nat \ {0}, Shrinks(id, rest)
    PROVE  BookInv'
<1>1. PICK s0, p0, q, o, d :
          /\ s0 = live[id].side /\ p0 = live[id].price /\ q = book[s0][p0]
          /\ o = [live[id] EXCEPT !.open = rest] /\ d = Open(live', q)
      OBVIOUS
<1>2. s0 \in Sides /\ p0 \in Prices /\ q \in Seq(OrderIds) /\ id \in OrderIds
      BY <1>1 DEF BookInv, BookTypes, Orders
<1>3. o \in Orders /\ o.side = s0 /\ o.price = p0
      BY <1>1 DEF BookInv, BookTypes, Orders
<1>4. live' = [live EXCEPT ![id] = o] /\ book' = book /\ arrival' = arrival
      BY <1>1 DEF Shrinks
<1>5. /\ DOMAIN live' = DOMAIN live /\ live'[id] = o
      /\ \A x \in DOMAIN live \ {id} : live'[x] = live[x]
      BY <1>4
<1>6. \A s \in Sides : \A p \in Prices : At(live', s, p) = At(live, s, p)
      BY <1>1, <1>3, <1>5 DEF At
<1>7. QueuesOK' /\ ArrivalOK' /\ BookUncrossed'
      BY <1>4, <1>5, <1>6 DEF BookInv, QueuesOK, ArrivalOK, BookUncrossed, Levels
<1>8. HaveOpen(live', DOMAIN live)
      BY <1>3, <1>5 DEF HaveOpen, BookInv, BookTypes, Orders
<1>9. ToSet(q) \subseteq DOMAIN live /\ HaveOpen(live', ToSet(q)) /\ q # << >>
  <2>1. ToSet(q) = At(live, s0, p0) /\ id \in ToSet(q)
        BY <1>1, <1>2 DEF BookInv, QueuesOK, At
  <2>2. ToSet(q) \subseteq DOMAIN live
        BY <2>1 DEF At
  <2> QED BY <1>2, <1>8, <2>1, <2>2, ElementsFinite DEF HaveOpen
<1>10. d \in Nat /\ d > 0
       BY <1>1, <1>2, <1>9, OpenFacts
<1>11. depth' = [depth EXCEPT ![s0][p0] = d]
       BY <1>1 DEF DepthUpdate, Shrinks
<1>12. /\ depth' \in [Sides -> [Prices -> Nat]]
       /\ \A s \in Sides : \A p \in Prices :
             depth'[s][p] = IF s = s0 /\ p = p0 THEN d ELSE depth[s][p]
       BY <1>2, <1>10, <1>11, OneCell DEF BookInv, BookTypes
<1>13. BookTypes'
       BY <1>3, <1>4, <1>5, <1>12 DEF BookInv, BookTypes
<1>14. ASSUME NEW s \in Sides, NEW p \in Prices
       PROVE  (depth'[s][p] > 0 <=> p \in Levels(s)') /\ depth'[s][p] <= Open(live', book'[s][p])
  <2>1. p \in Levels(s)' <=> p \in Levels(s)
        BY <1>4 DEF Levels
  <2>2. CASE s = s0 /\ p = p0
    <3>1. depth'[s][p] = d /\ book'[s][p] = q /\ p \in Levels(s)
          BY <1>1, <1>2, <1>4, <1>9, <1>12, <2>2 DEF Levels
    <3> QED BY <1>1, <1>10, <2>1, <3>1
  <2>3. CASE ~(s = s0 /\ p = p0)
    <3>1. ToSet(book[s][p]) = At(live, s, p) /\ id \notin At(live, s, p)
          BY <1>1, <2>3 DEF BookInv, QueuesOK, At
    <3>2. \A x \in ToSet(book[s][p]) : live'[x].open = live[x].open
          BY <1>5, <3>1 DEF At
    <3>3. Open(live', book[s][p]) = Open(live, book[s][p])
          BY <3>2, OpenSame
    <3> QED BY <1>4, <1>12, <2>1, <2>3, <3>3 DEF BookInv, DepthWithinBook
  <2> QED BY <2>2, <2>3
<1> QED BY <1>7, <1>13, <1>14 DEF BookInv, DepthWithinBook

-----------------------------------------------------------------------------
(* What a call reports.                                                      *)

\* The three kinds of events.
LEMMA EventFacts ==
    /\ \A id \in OrderIds, status \in Statuses, reason \in Reasons, n \in Nat :
          /\ OrderEvent(id, status, reason, n) \in Events
          /\ OrderEvent(id, status, reason, n).topic = "orders"
          /\ OrderEvent(id, status, reason, n).id = id
          /\ OrderEvent(id, status, reason, n).open = n
    /\ \A t \in Trades : /\ TradeEvent(t) \in Events /\ TradeEvent(t).topic = "trades"
                         /\ TradeEvent(t).maker = t.maker /\ TradeEvent(t).qty = t.qty
    /\ \A d \in [Sides -> [Prices -> Nat]] :
          DepthEvent(d) \in Events /\ DepthEvent(d).topic = "depth"
    /\ \A e \in Events : e.topic = "trades" => e.qty \in Nat /\ e.maker \in OrderIds
<1>1. \A id \in OrderIds, status \in Statuses, reason \in Reasons, n \in Nat :
          /\ OrderEvent(id, status, reason, n) \in Events
          /\ OrderEvent(id, status, reason, n).topic = "orders"
          /\ OrderEvent(id, status, reason, n).id = id
          /\ OrderEvent(id, status, reason, n).open = n
      BY DEF OrderEvent, Events
<1>2. \A t \in Trades : /\ TradeEvent(t) \in Events /\ TradeEvent(t).topic = "trades"
                        /\ TradeEvent(t).maker = t.maker /\ TradeEvent(t).qty = t.qty
      BY DEF TradeEvent, Events, Trades
<1>3. \A d : DepthEvent(d).topic = "depth"
      BY DEF DepthEvent
<1>4. \A d \in [Sides -> [Prices -> Nat]] : DepthEvent(d) \in Events
      BY DEF Events
<1>5. \A e \in Events : e.topic = "trades" => e.qty \in Nat /\ e.maker \in OrderIds
      BY <1>3 DEF Events
<1> QED BY <1>1, <1>2, <1>3, <1>4, <1>5

\* The log grew by n events.
Extends(log, longer, n) ==
    /\ log \in Seq(Events) /\ longer \in Seq(Events)
    /\ Len(longer) = Len(log) + n /\ DOMAIN log = 1..Len(log)
    /\ DOMAIN longer = 1..(Len(log) + n)
    /\ \A i \in 1..Len(log) : longer[i] = log[i]

\* A fill: the trade, what is left of the maker, the depth.
FillEvents(log, longer, t, status, left, d) ==
    /\ Extends(log, longer, 3)
    /\ longer[Len(log) + 1] = TradeEvent(t)
    /\ longer[Len(log) + 2] = OrderEvent(t.maker, status, "none", left)
    /\ longer[Len(log) + 3] = DepthEvent(d)

\* Only the order id changes, to what is left of it.
OnlyOpen(orders, others, id, left) ==
    /\ OpenOf(others, id) = left
    /\ \A x \in OrderIds \ {id} : OpenOf(others, x) = OpenOf(orders, x)

\* One trade more, and the makers are told.
TradeReported(log, longer, t, others) ==
    /\ Traded(longer) = Traded(log) + t.qty
    /\ MakersTold(longer, others)
    /\ \A i \in TradesIn(longer) : \/ longer[i].maker = t.maker
                                   \/ (i \in TradesIn(log) /\ longer[i] = log[i])

\* The report stays true.
LEMMA FillReported ==
    ASSUME NEW log, NEW longer, NEW t \in Trades, NEW status \in Statuses, NEW left \in Nat,
           NEW d \in [Sides -> [Prices -> Nat]], FillEvents(log, longer, t, status, left, d),
           NEW orders, NEW others, MakersTold(log, orders), OnlyOpen(orders, others, t.maker, left)
    PROVE  TradeReported(log, longer, t, others)
<1>1. PICK n : n = Len(log)
      OBVIOUS
<1>2. /\ n \in Nat /\ DOMAIN log = 1..n /\ DOMAIN longer = 1..(n + 3)
      /\ log \in Seq(Events) /\ longer \in Seq(Events)
      /\ \A i \in 1..n : longer[i] = log[i] /\ log[i] \in Events
      BY <1>1 DEF FillEvents, Extends
<1>3. t.maker \in OrderIds /\ t.qty \in Nat /\ "none" \in Reasons
      BY DEF Trades, Reasons
<1>4. longer[n + 1].topic = "trades" /\ longer[n + 1].maker = t.maker /\ longer[n + 1].qty = t.qty
      BY <1>1, EventFacts DEF FillEvents
<1>5. longer[n + 2].topic = "orders" /\ longer[n + 2].id = t.maker /\ longer[n + 2].open = left
      BY <1>1, <1>3, EventFacts DEF FillEvents
<1>6. longer[n + 3].topic = "depth"
      BY <1>1, EventFacts DEF FillEvents
<1>7. \A i \in 1..(n + 3) : i \in 1..n \/ i = n + 1 \/ i = n + 2 \/ i = n + 3
      BY <1>2
<1>8. {n + 1, n + 2, n + 3} \subseteq 1..(n + 3) /\ 1..n \subseteq 1..(n + 3)
      BY <1>2
<1>9. TradesIn(longer) = TradesIn(log) \cup {n + 1}
      BY <1>2, <1>4, <1>5, <1>6, <1>7, <1>8 DEF TradesIn
<1>10. ASSUME NEW id PROVE About(longer, id) = About(log, id) \cup (IF id = t.maker THEN {n + 2} ELSE {})
       BY <1>2, <1>4, <1>5, <1>6, <1>7, <1>8 DEF About
<1>11. TradesIn(log) \subseteq 1..n /\ n + 1 \notin 1..n /\ \A id : About(log, id) \subseteq 1..n
       BY <1>2 DEF TradesIn, About
<1>12. Traded(longer) = Traded(log) + t.qty
  <2>1. PICK f, S, g, T : /\ S = TradesIn(log) /\ f = [i \in S |-> log[i].qty]
                          /\ T = TradesIn(longer) /\ g = [i \in T |-> longer[i].qty]
        OBVIOUS
  <2>2. IsFiniteSet(S) /\ IsFiniteSet(T)
    <3>1. IsFiniteSet(1..n) /\ IsFiniteSet(1..(n + 3))
          BY <1>2, FS_Interval
    <3>2. S \subseteq 1..n /\ T \subseteq 1..(n + 3)
          BY <1>2, <2>1 DEF TradesIn
    <3> QED BY <3>1, <3>2, FS_Subset
  <2>3. \A i \in S : f[i] \in Int
        BY <1>2, <1>11, <2>1, EventFacts DEF TradesIn
  <2>4. \A i \in S : i \in T /\ g[i] = f[i]
        BY <1>2, <1>9, <1>11, <2>1
  <2>5. T \ {n + 1} = S \ {n + 1} /\ n + 1 \in T /\ n + 1 \notin S /\ g[n + 1] = t.qty
        BY <1>4, <1>9, <1>11, <2>1
  <2>6. \A i \in T : g[i] \in Int
        BY <1>3, <1>9, <2>1, <2>3, <2>4, <2>5
  <2>7. SumFunctionOnSet(g, T) = SumFunctionOnSet(f, S) + (IF n + 1 \in T THEN g[n + 1] ELSE 0)
                                                        - (IF n + 1 \in S THEN f[n + 1] ELSE 0)
        BY <2>2, <2>3, <2>4, <2>5, <2>6, SumChange
  <2>8. SumFunctionOnSet(f, S) \in Int
        BY <2>2, <2>3, SumSplits
  <2>9. Traded(longer) = SumFunctionOnSet(g, T) /\ Traded(log) = SumFunctionOnSet(f, S)
        BY <2>1 DEF Traded, SumFunction
  <2> QED BY <1>3, <2>5, <2>7, <2>8, <2>9
<1>13. ASSUME NEW i \in TradesIn(longer)
       PROVE  longer[i].maker = t.maker \/ (i \in TradesIn(log) /\ longer[i] = log[i])
       BY <1>2, <1>4, <1>9, <1>11
<1>14. ASSUME NEW i \in TradesIn(longer)
       PROVE  \E k \in About(longer, longer[i].maker) :
                  /\ i < k /\ longer[k].open = OpenOf(others, longer[i].maker)
                  /\ \A j \in About(longer, longer[i].maker) : j <= k
  <2>1. CASE longer[i].maker = t.maker
    <3>1. n + 2 \in About(longer, longer[i].maker)
          BY <1>10, <2>1
    <3>2. i \in 1..n \/ i = n + 1
          BY <1>9, <1>11
    <3>3. i < n + 2
          BY <1>2, <3>2
    <3>4. \A j \in About(longer, longer[i].maker) : j \in 1..n \/ j = n + 2
          BY <1>10, <1>11, <2>1
    <3>5. \A j \in About(longer, longer[i].maker) : j <= n + 2
          BY <1>2, <3>4
    <3> QED BY <1>5, <2>1, <3>1, <3>3, <3>5 DEF OnlyOpen
  <2>2. CASE longer[i].maker # t.maker
    <3>1. i \in TradesIn(log) /\ longer[i] = log[i]
          BY <1>13, <2>2
    <3>2. About(longer, longer[i].maker) = About(log, log[i].maker)
          BY <1>10, <2>2, <3>1
    <3>3. log[i].maker \in OrderIds \ {t.maker}
          BY <1>2, <1>11, <2>2, <3>1, EventFacts DEF TradesIn
    <3>4. PICK k \in About(log, log[i].maker) :
              /\ i < k /\ log[k].open = OpenOf(orders, log[i].maker)
              /\ \A j \in About(log, log[i].maker) : j <= k
          BY <3>1 DEF MakersTold
    <3>5. longer[k] = log[k]
          BY <1>2, <1>11, <3>4
    <3> QED BY <3>1, <3>2, <3>3, <3>4, <3>5 DEF OnlyOpen
  <2> QED BY <2>1, <2>2
<1> QED BY <1>12, <1>13, <1>14 DEF MakersTold, TradeReported

\* The end of a call: the depth if the order rests, and the taker's last message.
EndEvents(log, longer, n, id, status, reason, left) ==
    /\ n \in {1, 2} /\ Extends(log, longer, n)
    /\ n = 2 => \E d \in [Sides -> [Prices -> Nat]] : longer[Len(log) + 1] = DepthEvent(d)
    /\ longer[Len(log) + n] = OrderEvent(id, status, reason, left)

\* No order but id changes.
SameBut(orders, others, id) == \A x \in OrderIds \ {id} : OpenOf(others, x) = OpenOf(orders, x)

\* No trade more, the makers are told, and e is the last message.
EndTold(log, longer, others, e) ==
    /\ Traded(longer) = Traded(log) /\ MakersTold(longer, others)
    /\ longer # << >> /\ longer[Len(longer)] = e

\* The report stays true.
LEMMA EndReported ==
    ASSUME NEW log, NEW longer, NEW n, NEW id \in OrderIds, NEW status \in Statuses,
           NEW reason \in Reasons, NEW left \in Nat,
           EndEvents(log, longer, n, id, status, reason, left),
           NEW orders, NEW others, MakersTold(log, orders), SameBut(orders, others, id),
           \A i \in TradesIn(log) : log[i].maker # id
    PROVE  EndTold(log, longer, others, OrderEvent(id, status, reason, left))
<1>1. PICK m : m = Len(log)
      OBVIOUS
<1>2. /\ m \in Nat /\ n \in {1, 2} /\ DOMAIN log = 1..m /\ DOMAIN longer = 1..(m + n)
      /\ Len(longer) = m + n /\ log \in Seq(Events) /\ longer \in Seq(Events)
      /\ \A i \in 1..m : longer[i] = log[i] /\ log[i] \in Events
      BY <1>1 DEF EndEvents, Extends
<1>3. longer[m + n].topic = "orders" /\ longer[m + n].id = id
      BY <1>1, EventFacts DEF EndEvents
<1>4. n = 2 => longer[m + 1].topic = "depth"
      BY <1>1, EventFacts DEF EndEvents
<1>5. \A i \in 1..(m + n) : i \in 1..m \/ i = m + n \/ (n = 2 /\ i = m + 1)
      BY <1>2
<1>6. 1..m \subseteq 1..(m + n)
      BY <1>2
<1>7. TradesIn(longer) = TradesIn(log)
      BY <1>2, <1>3, <1>4, <1>5, <1>6 DEF TradesIn
<1>8. ASSUME NEW x, x # id PROVE About(longer, x) = About(log, x)
      BY <1>2, <1>3, <1>4, <1>5, <1>6, <1>8 DEF About
<1>9. TradesIn(log) \subseteq 1..m /\ \A x : About(log, x) \subseteq 1..m
      BY <1>2 DEF TradesIn, About
<1>10. Traded(longer) = Traded(log)
  <2>1. [i \in TradesIn(longer) |-> longer[i].qty] = [i \in TradesIn(log) |-> log[i].qty]
        BY <1>2, <1>7, <1>9
  <2> QED BY <2>1 DEF Traded
<1>11. ASSUME NEW i \in TradesIn(longer)
       PROVE  \E k \in About(longer, longer[i].maker) :
                  /\ i < k /\ longer[k].open = OpenOf(others, longer[i].maker)
                  /\ \A j \in About(longer, longer[i].maker) : j <= k
  <2>1. i \in TradesIn(log) /\ longer[i] = log[i] /\ log[i].maker # id
        BY <1>2, <1>7, <1>9
  <2>2. About(longer, longer[i].maker) = About(log, log[i].maker)
        BY <1>8, <2>1
  <2>3. log[i].maker \in OrderIds \ {id}
        BY <1>2, <1>9, <2>1, EventFacts DEF TradesIn
  <2>4. PICK k \in About(log, log[i].maker) :
            /\ i < k /\ log[k].open = OpenOf(orders, log[i].maker)
            /\ \A j \in About(log, log[i].maker) : j <= k
        BY <2>1 DEF MakersTold
  <2>5. longer[k] = log[k]
        BY <1>2, <1>9, <2>4
  <2> QED BY <2>1, <2>2, <2>3, <2>4, <2>5 DEF SameBut
<1>12. longer # << >> /\ longer[Len(longer)] = OrderEvent(id, status, reason, left)
  <2>1. Len(longer) # 0
        BY <1>2
  <2> QED BY <1>1, <1>2, <2>1 DEF EndEvents
<1> QED BY <1>10, <1>11, <1>12 DEF MakersTold, EndTold

-----------------------------------------------------------------------------
(* The fill loop.                                                            *)

\* The maker is first of the best level, and there is something to trade.
LEMMA MakerFacts ==
    ASSUME BookInv, call \in Requests, remaining \in Nat, CanMatch
    PROVE  /\ Maker \in DOMAIN live /\ Maker \in OrderIds /\ live[Maker] \in Orders
           /\ live[Maker].side = Opposite(call.side)
           /\ live[Maker].price = BestPrice(Opposite(call.side))
           /\ live[Maker].price \in Reachable(call)
           /\ 1 \in DOMAIN book[live[Maker].side][live[Maker].price]
           /\ Maker = book[live[Maker].side][live[Maker].price][1]
           /\ Fill \in Nat \ {0} /\ Fill <= remaining
           /\ Fill = (IF remaining <= live[Maker].open THEN remaining ELSE live[Maker].open)
<1>1. PICK s, p, q : s = Opposite(call.side) /\ p = BestPrice(s) /\ q = book[s][p]
      OBVIOUS
<1>2. s \in Sides
      BY <1>1, RequestFacts
<1>3. remaining > 0 /\ Levels(s) # {} /\ PriceAllows(call, p)
      BY <1>1 DEF CanMatch
<1>4. p \in Levels(s)
      BY <1>1, <1>2, <1>3, BestIsBest DEF BookInv
<1>5. p \in Prices /\ q \in Seq(OrderIds) /\ q # << >> /\ ToSet(q) = At(live, s, p)
      BY <1>1, <1>2, <1>4 DEF Levels, BookInv, BookTypes, QueuesOK
<1>6. 1 \in DOMAIN q /\ Maker = q[1]
      BY <1>1, <1>5 DEF Maker
<1>7. Maker \in DOMAIN live /\ live[Maker].side = s /\ live[Maker].price = p
      BY <1>5, <1>6 DEF ToSet, At
<1>8. Maker \in OrderIds /\ live[Maker] \in Orders
      BY <1>7 DEF BookInv, BookTypes
<1>9. p \in Reachable(call)
      BY <1>1, <1>3, <1>4 DEF Reachable
<1>10. live[Maker].open \in Nat \ {0}
      BY <1>8 DEF Orders
<1>11. Fill = (IF remaining <= live[Maker].open THEN remaining ELSE live[Maker].open)
      BY <1>10, MinOfTwo DEF Fill
<1>12. Fill \in Nat \ {0} /\ Fill <= remaining
      BY <1>3, <1>10, <1>11
<1> QED BY <1>1, <1>6, <1>7, <1>8, <1>9, <1>11, <1>12

\* What rests within reach is a number.
LEMMA RestingIsNat ==
    ASSUME BookInv, NEW r \in Requests
    PROVE  /\ Resting(Opposite(r.side), Reachable(r)) \in Nat
           /\ Reachable(r) = {} => Resting(Opposite(r.side), Reachable(r)) = 0
           /\ IsFiniteSet(Reachable(r))
           /\ \A p \in Reachable(r) : Open(live, book[Opposite(r.side)][p]) \in Nat
<1>1. PICK s, S, f : /\ s = Opposite(r.side) /\ S = Reachable(r)
                     /\ f = [p \in S |-> Open(live, book[s][p])]
      OBVIOUS
<1>2. s \in Sides
      BY <1>1, RequestFacts
<1>3. IsFiniteSet(Levels(s)) /\ S \subseteq Levels(s)
      BY <1>1, <1>2, BestIsBest DEF BookInv, Reachable
<1>4. IsFiniteSet(S)
      BY <1>3, FS_Subset
<1>5. ASSUME NEW p \in S PROVE Open(live, book[s][p]) \in Nat
  <2>1. p \in Prices /\ book[s][p] \in Seq(OrderIds) /\ ToSet(book[s][p]) = At(live, s, p)
        BY <1>2, <1>3 DEF Levels, BookInv, BookTypes, QueuesOK
  <2>2. HaveOpen(live, ToSet(book[s][p]))
        BY <2>1 DEF HaveOpen, At, BookInv, BookTypes, Orders
  <2> QED BY <2>1, <2>2, OpenFacts
<1>6. \A p \in S : f[p] \in Nat /\ f[p] \in Int
      BY <1>1, <1>5
<1>7. Resting(s, S) = SumFunctionOnSet(f, S)
      BY <1>1 DEF Resting
<1>8. SumFunctionOnSet(f, S) \in Nat
      BY <1>4, <1>6, SumIsNat
<1>9. SumFunctionOnSet(f, {}) = 0
      BY <1>4, <1>6, SumSplits
<1> QED BY <1>1, <1>4, <1>5, <1>7, <1>8, <1>9

\* A filled maker takes exactly its open quantity from what is within reach.
LEMMA ReachAfterFill ==
    ASSUME BookInv, NEW r \in Requests, NEW m \in DOMAIN live, RemoveResting(m),
           live[m].side = Opposite(r.side), live[m].price \in Reachable(r)
    PROVE  Resting(Opposite(r.side), Reachable(r))'
              = Resting(Opposite(r.side), Reachable(r)) - live[m].open
<1>1. PICK s, x, S, T : /\ s = Opposite(r.side) /\ x = live[m].price
                        /\ S = Reachable(r) /\ T = Reachable(r)'
      OBVIOUS
<1>2. PICK f, g : /\ f = [p \in S |-> Open(live, book[s][p])]
                  /\ g = [p \in T |-> Open(live', book'[s][p])]
      OBVIOUS
<1>3. /\ BookInv' /\ live' = Without(live, m)
      /\ \A p \in Prices : p # x => book'[s][p] = book[s][p]
  <2>1. s \in Sides
        BY <1>1, RequestFacts
  <2> QED BY <1>1, <2>1, RemovalKeepsBook
<1>4. /\ DOMAIN live' = DOMAIN live \ {m} /\ \A y \in DOMAIN live' : live'[y] = live[y]
      BY <1>3 DEF Without
<1>5. s \in Sides /\ x \in S /\ x \in Prices
      BY <1>1, RequestFacts DEF Reachable, Levels
<1>6. S \subseteq Prices /\ T \subseteq Prices
      BY <1>1 DEF Reachable, Levels
<1>7. S \ {x} = T \ {x}
  <2>1. ASSUME NEW p \in Prices, p # x PROVE p \in S <=> p \in T
        BY <1>1, <1>3, <2>1 DEF Reachable, Levels
  <2> QED BY <1>6, <2>1
<1>8. IsFiniteSet(S) /\ \A p \in S : f[p] \in Nat
      BY <1>1, <1>2, RestingIsNat
<1>10. PICK q, n : q = book[s][x] /\ n = book'[s][x]
       OBVIOUS
<1>11. /\ q \in Seq(OrderIds) /\ n \in Seq(OrderIds)
       /\ ToSet(q) = At(live, s, x) /\ ToSet(n) = At(live', s, x)
       BY <1>3, <1>5, <1>10 DEF BookInv, BookTypes, QueuesOK
<1>12. m \in ToSet(q) /\ ToSet(n) = ToSet(q) \ {m} /\ ToSet(n) \subseteq DOMAIN live'
       BY <1>1, <1>4, <1>11 DEF At
<1>13. Open(live, q) = live[m].open + Open(live', n) /\ Open(live', n) \in Nat
  <2>1. HaveOpen(live, ToSet(q))
        BY <1>11 DEF HaveOpen, At, BookInv, BookTypes, Orders
  <2>2. \A y \in ToSet(n) : live'[y].open = live[y].open
        BY <1>4, <1>12
  <2> QED BY <1>11, <1>12, <2>1, <2>2, OpenDiffers
<1>14. ASSUME NEW p \in S \ {x} PROVE g[p] = f[p]
  <2>1. p \in T /\ p \in Prices /\ book'[s][p] = book[s][p]
        BY <1>3, <1>6, <1>7
  <2>2. ToSet(book[s][p]) = At(live', s, p)
        BY <1>3, <1>5, <2>1 DEF BookInv, QueuesOK
  <2>3. \A y \in ToSet(book[s][p]) : live'[y].open = live[y].open
        BY <1>4, <2>2 DEF At
  <2>4. Open(live', book[s][p]) = Open(live, book[s][p])
        BY <2>3, OpenSame
  <2> QED BY <1>2, <2>1, <2>4
<1>9. IsFiniteSet(T) /\ \A p \in T : g[p] \in Nat
  <2>1. T \subseteq S
        BY <1>5, <1>7
  <2>2. x \in T => g[x] \in Nat
        BY <1>2, <1>10, <1>13
  <2> QED BY <1>7, <1>8, <1>14, <2>1, <2>2, FS_Subset
<1>15. SumFunctionOnSet(g, T) = SumFunctionOnSet(f, S) + (IF x \in T THEN g[x] ELSE 0)
                                                       - (IF x \in S THEN f[x] ELSE 0)
  <2>1. (\A p \in S : f[p] \in Int) /\ (\A p \in T : g[p] \in Int)
        BY <1>8, <1>9
  <2> QED BY <1>7, <1>8, <1>9, <1>14, <2>1, SumChange
<1>16. (IF x \in T THEN g[x] ELSE 0) = Open(live', n)
  <2>1. CASE x \in T
        BY <1>2, <1>10, <2>1
  <2>2. CASE x \notin T
    <3>1. PriceAllows(r, x)
          BY <1>1, <1>5 DEF Reachable
    <3>2. n = << >>
          BY <1>1, <1>5, <1>10, <2>2, <3>1 DEF Reachable, Levels
    <3>3. HaveOpen(live', ToSet(n))
          BY <1>3, <1>12 DEF HaveOpen, BookInv, BookTypes, Orders
    <3> QED BY <1>11, <2>2, <3>2, <3>3, OpenFacts
  <2> QED BY <2>1, <2>2
<1>17. f[x] = Open(live, q) /\ SumFunctionOnSet(f, S) \in Nat
       BY <1>2, <1>5, <1>8, <1>10, SumIsNat
<1>18. /\ Resting(Opposite(r.side), Reachable(r)) = SumFunctionOnSet(f, S)
       /\ Resting(Opposite(r.side), Reachable(r))' = SumFunctionOnSet(g, T)
       BY <1>1, <1>2 DEF Resting
<1>19. live[m].open \in Nat
       BY DEF BookInv, BookTypes, Orders
<1> QED BY <1>5, <1>13, <1>15, <1>16, <1>17, <1>18, <1>19

\* The longer log is the log and then r.
Follows(log, longer, r) ==
    Extends(log, longer, Len(r)) /\ \A i \in 1..Len(r) : longer[Len(log) + i] = r[i]

\* Events at the end of a log.
LEMMA LogsGrow ==
    ASSUME NEW log \in Seq(Events), NEW r \in Seq(Events)
    PROVE  Follows(log, log \o r, r)
<1>0. PICK n : n = Len(r) /\ n \in Nat
      OBVIOUS
<1>1. Len(log) \in Nat /\ DOMAIN log = 1..Len(log)
      OBVIOUS
<1>2. /\ log \o r \in Seq(Events) /\ Len(log \o r) = Len(log) + n
      /\ \A i \in 1..(Len(log) + n) :
            (log \o r)[i] = IF i <= Len(log) THEN log[i] ELSE r[i - Len(log)]
      BY <1>0, ConcatProperties
<1>3. DOMAIN (log \o r) = 1..(Len(log) + n)
      BY <1>2
<1>4. \A i \in 1..Len(log) : (log \o r)[i] = log[i]
      BY <1>1, <1>2
<1>5. ASSUME NEW i \in 1..n PROVE (log \o r)[Len(log) + i] = r[i]
  <2>1. /\ Len(log) + i \in 1..(Len(log) + n) /\ ~(Len(log) + i <= Len(log))
        /\ Len(log) + i - Len(log) = i
        BY <1>0, <1>1
  <2> QED BY <1>2, <2>1
<1> QED BY <1>0, <1>1, <1>2, <1>3, <1>4, <1>5 DEF Extends, Follows

\* What a fill does to the call, when the book is taken care of.
Fills(status, left) ==
    /\ pc = "match" /\ pending = << >> /\ CanMatch /\ Execute
    /\ pending' = <<TradeEvent(trades'[Len(trades')]), OrderEvent(Maker, status, "none", left),
                    DepthEvent(depth')>>
    /\ UNCHANGED <<pc, call, result, published>>

\* A fill keeps the invariant.
LEMMA FillKeeps ==
    ASSUME IInv, NEW status \in Statuses, NEW left \in Nat, Fills(status, left),
           BookInv', DOMAIN live' \subseteq DOMAIN live, OnlyOpen(live, live', Maker, left),
           call.tif = "fok" => remaining' <= Resting(Opposite(call.side), Reachable(call))'
    PROVE  IInv'
<1>1. PICK m, f, t : /\ m = Maker /\ f = Fill
                     /\ t = [maker |-> m, price |-> live[m].price, qty |-> f]
      OBVIOUS
<1>2. /\ pc = "match" /\ pending = << >> /\ CanMatch /\ pc' = pc /\ call' = call
      /\ published' = published /\ remaining' = remaining - f /\ trades' = Append(trades, t)
      BY <1>1 DEF Fills, Execute
<1>3. /\ call \in Requests /\ call.id \in OrderIds /\ call.id \notin DOMAIN live
      /\ remaining \in Nat /\ remaining <= call.qty /\ call.qty \in Nat
      /\ trades \in Seq(Trades) /\ published \in Seq(Events)
      BY <1>2, RequestFacts DEF IInv, CallInv, MatchingOK, CallTypes
<1>4. /\ m \in DOMAIN live /\ m \in OrderIds /\ live[m] \in Orders
      /\ f \in Nat \ {0} /\ f <= remaining
      BY <1>1, <1>2, <1>3, MakerFacts DEF IInv
<1>5. t \in Trades /\ t.maker = m /\ t.qty = f
      BY <1>1, <1>4 DEF Trades, Orders
<1>6. /\ trades' \in Seq(Trades) /\ trades'[Len(trades')] = t /\ trades' # << >>
      BY <1>2, <1>3, <1>5
<1>7. remaining' \in Nat /\ remaining' < call.qty
      BY <1>2, <1>3, <1>4
<1>8. depth' \in [Sides -> [Prices -> Nat]]
      BY DEF BookInv, BookTypes
<1>9. PICK a, b, c : /\ a = TradeEvent(t) /\ b = OrderEvent(m, status, "none", left)
                     /\ c = DepthEvent(depth')
      OBVIOUS
<1>10. a \in Events /\ b \in Events /\ c \in Events
  <2>1. "none" \in Reasons
        BY DEF Reasons
  <2> QED BY <1>4, <1>5, <1>8, <1>9, <2>1, EventFacts
<1>11. pending' = <<a, b, c>>
       BY <1>1, <1>6, <1>9 DEF Fills
<1>12. pending' \in Seq(Events)
       BY <1>10, <1>11
<1>13. CallTypes'
       BY <1>2, <1>3, <1>6, <1>7, <1>12 DEF CallTypes
<1>14. ~(call.type = "limit" /\ call.tif = "gtx")
       BY <1>2 DEF IInv, CallInv, MatchingOK, CanMatch, WouldCross
<1>15. MatchingOK'
  <2>1. call.id \notin DOMAIN live'
        BY <1>3
  <2>2. remaining' <= call.qty /\ ~(remaining' = call.qty)
        BY <1>3, <1>7
  <2> QED BY <1>2, <1>3, <1>6, <1>14, <2>1, <2>2 DEF MatchingOK
<1>16. IdleOK' /\ TimeInForceHonoured'
       BY <1>2 DEF IdleOK, TimeInForceHonoured
<1>17. Log = published /\ Log' = published \o <<a, b, c>>
  <2>1. published \o << >> = published
        BY <1>3, ConcatEmptySeq
  <2> QED BY <1>2, <1>11, <2>1 DEF Log
<1>18. FillEvents(Log, Log', t, status, left, depth')
  <2>1. PICK longer : longer = published \o <<a, b, c>>
        OBVIOUS
  <2>2. /\ Extends(published, longer, 3) /\ longer[Len(published) + 1] = a
        /\ longer[Len(published) + 2] = b /\ longer[Len(published) + 3] = c
    <3>1. PICK r : r = <<a, b, c>>
          OBVIOUS
    <3>2. r \in Seq(Events) /\ Len(r) = 3 /\ r[1] = a /\ r[2] = b /\ r[3] = c
          BY <1>10, <3>1
    <3>3. Follows(published, published \o r, r) /\ longer = published \o r
          BY <1>3, <2>1, <3>1, <3>2, LogsGrow
    <3>4. 1 \in 1..3 /\ 2 \in 1..3 /\ 3 \in 1..3
          OBVIOUS
    <3> QED BY <3>2, <3>3, <3>4 DEF Follows
  <2>3. FillEvents(published, longer, t, status, left, depth')
        BY <1>5, <1>9, <2>2 DEF FillEvents
  <2> QED BY <1>17, <2>1, <2>3
<1>19. /\ Traded(Log) = call.qty - remaining /\ MakersTold(Log, live)
       /\ \A i \in TradesIn(Log) : Log[i].maker # call.id
       BY <1>2 DEF IInv, ReportInv
<1>20. PICK log, longer : log = Log /\ longer = Log'
       OBVIOUS
<1>21. /\ Traded(longer) = Traded(log) + t.qty /\ MakersTold(longer, live')
       /\ \A i \in TradesIn(longer) : \/ longer[i].maker = t.maker
                                      \/ (i \in TradesIn(log) /\ longer[i] = log[i])
  <2>1. PICK d, orders, others : d = depth' /\ orders = live /\ others = live'
        OBVIOUS
  <2>2. /\ d \in [Sides -> [Prices -> Nat]] /\ FillEvents(log, longer, t, status, left, d)
        BY <1>8, <1>18, <1>20, <2>1
  <2>3. MakersTold(log, orders)
        BY <1>19, <1>20, <2>1
  <2>4. OnlyOpen(orders, others, t.maker, left)
        BY <1>1, <1>5, <2>1
  <2>5. TradeReported(log, longer, t, others)
        BY <1>5, <2>2, <2>3, <2>4, FillReported
  <2> QED BY <2>1, <2>5 DEF TradeReported
<1>22. \A i \in TradesIn(longer) : longer[i].maker # call.id
       BY <1>3, <1>4, <1>5, <1>19, <1>20, <1>21
<1>23. Traded(longer) = call.qty - remaining'
       BY <1>2, <1>3, <1>4, <1>5, <1>19, <1>20, <1>21
<1>24. /\ Traded(Log') = call'.qty - remaining' /\ MakersTold(Log', live')
       /\ \A i \in TradesIn(Log') : Log'[i].maker # call'.id
       BY <1>2, <1>20, <1>21, <1>22, <1>23
<1>25. ReportInv'
       BY <1>2, <1>24 DEF ReportInv, Traded, MakersTold, TradesIn, About
<1> QED BY <1>13, <1>15, <1>16, <1>25 DEF IInv, CallInv

\* The maker is used up and leaves the book.
LEMMA FillMakerKeeps == ASSUME IInv, FillMaker PROVE IInv'
<1>1. PICK m : m = Maker
      OBVIOUS
<1>2. /\ pc = "match" /\ CanMatch /\ Fill = live[m].open /\ RemoveResting(m)
      /\ remaining' = remaining - Fill /\ call' = call
      BY <1>1 DEF FillMaker, Execute
<1>3. call \in Requests /\ remaining \in Nat /\ BookInv
      /\ (call.tif = "fok" => remaining <= Resting(Opposite(call.side), Reachable(call)))
      BY <1>2 DEF IInv, CallInv, MatchingOK, CallTypes
<1>4. /\ m \in DOMAIN live /\ live[m] \in Orders /\ live[m].side = Opposite(call.side)
      /\ live[m].price \in Reachable(call)
      BY <1>1, <1>2, <1>3, MakerFacts
<1>5. BookInv' /\ live' = Without(live, m)
      BY <1>2, <1>3, <1>4, RemovalKeepsBook
<1>6. DOMAIN live' = DOMAIN live \ {m} /\ \A x \in DOMAIN live' : live'[x] = live[x]
      BY <1>5 DEF Without
<1>7. OnlyOpen(live, live', Maker, 0)
      BY <1>1, <1>6 DEF OnlyOpen, OpenOf
<1>8. Fills("filled", 0)
      BY DEF FillMaker, Fills
<1>9. ASSUME call.tif = "fok"
      PROVE  remaining' <= Resting(Opposite(call.side), Reachable(call))'
  <2>1. PICK r : r = call
        OBVIOUS
  <2>2. Resting(Opposite(r.side), Reachable(r))'
           = Resting(Opposite(r.side), Reachable(r)) - live[m].open
        BY <1>2, <1>3, <1>4, <2>1, ReachAfterFill
  <2>3. Resting(Opposite(r.side), Reachable(r)) \in Nat /\ live[m].open \in Nat
        BY <1>3, <1>4, <2>1, RestingIsNat DEF Orders
  <2>4. remaining' <= Resting(Opposite(r.side), Reachable(r))'
        BY <1>2, <1>3, <1>9, <2>1, <2>2, <2>3
  <2>5. Resting(Opposite(call.side), Reachable(call))' = Resting(Opposite(r.side), Reachable(r))'
        BY <1>2, <2>1 DEF Resting, Reachable, Levels
  <2> QED BY <2>4, <2>5
<1>10. "filled" \in Statuses /\ 0 \in Nat /\ DOMAIN live' \subseteq DOMAIN live
      BY <1>6 DEF Statuses
<1> QED BY <1>5, <1>7, <1>8, <1>9, <1>10, FillKeeps

\* The taker is used up and the maker keeps its place.
LEMMA FillPartlyKeeps == ASSUME IInv, FillPartly PROVE IInv'
<1>1. PICK m, rest : m = Maker /\ rest = live[m].open - Fill
      OBVIOUS
<1>2. /\ pc = "match" /\ CanMatch /\ Fill < live[m].open
      /\ remaining' = remaining - Fill /\ call' = call
      BY <1>1 DEF FillPartly, Execute
<1>3. call \in Requests /\ remaining \in Nat /\ BookInv
      BY <1>2 DEF IInv, CallInv, MatchingOK, CallTypes
<1>4. /\ m \in DOMAIN live /\ live[m] \in Orders /\ Fill \in Nat \ {0}
      /\ Fill = (IF remaining <= live[m].open THEN remaining ELSE live[m].open)
      BY <1>1, <1>2, <1>3, MakerFacts
<1>5. rest \in Nat \ {0} /\ live[m].open \in Nat
      BY <1>1, <1>2, <1>4 DEF Orders
<1>6. Shrinks(m, rest)
      BY <1>1 DEF FillPartly, Shrinks
<1>7. BookInv'
      BY <1>3, <1>4, <1>5, <1>6, ShrinkKeepsBook
<1>8. PICK o : o = [live[m] EXCEPT !.open = rest]
      OBVIOUS
<1>9. live' = [live EXCEPT ![m] = o] /\ o.open = rest
      BY <1>4, <1>6, <1>8 DEF Shrinks, Orders
<1>10. DOMAIN live' = DOMAIN live /\ live'[m].open = rest
       /\ \A x \in DOMAIN live \ {m} : live'[x] = live[x]
      BY <1>4, <1>9
<1>11. OnlyOpen(live, live', Maker, rest)
      BY <1>1, <1>4, <1>10 DEF OnlyOpen, OpenOf
<1>12. Fills("partially_filled", rest)
      BY <1>1 DEF FillPartly, Fills
<1>13. remaining' = 0
      BY <1>2, <1>3, <1>4, <1>5
<1>14. Resting(Opposite(call.side), Reachable(call))' \in Nat
  <2>1. PICK r : r = call
        OBVIOUS
  <2>2. book' = book /\ Reachable(r)' = Reachable(r) /\ Opposite(r.side) \in Sides
        BY <1>3, <1>6, <2>1, RequestFacts DEF Shrinks, Reachable, Levels
  <2>3. PICK s, S, f : /\ s = Opposite(r.side) /\ S = Reachable(r)
                       /\ f = [p \in S |-> Open(live', book[s][p])]
        OBVIOUS
  <2>4. IsFiniteSet(S) /\ S \subseteq Prices
        BY <1>3, <2>1, <2>3, RestingIsNat DEF Reachable, Levels
  <2>5. ASSUME NEW p \in S PROVE f[p] \in Nat
    <3>1. book[s][p] \in Seq(OrderIds) /\ ToSet(book[s][p]) = At(live', s, p)
          BY <1>7, <2>2, <2>3, <2>4 DEF BookInv, BookTypes, QueuesOK
    <3>2. HaveOpen(live', ToSet(book[s][p]))
          BY <1>7, <3>1 DEF HaveOpen, At, BookInv, BookTypes, Orders
    <3> QED BY <2>3, <3>1, <3>2, OpenFacts
  <2>6. SumFunctionOnSet(f, S) \in Nat
        BY <2>4, <2>5, SumIsNat
  <2>7. Resting(Opposite(r.side), Reachable(r))' = SumFunctionOnSet(f, S)
        BY <2>2, <2>3 DEF Resting
  <2>8. Resting(Opposite(call.side), Reachable(call))' = Resting(Opposite(r.side), Reachable(r))'
        BY <1>2, <2>1 DEF Resting, Reachable, Levels
  <2> QED BY <2>6, <2>7, <2>8
<1>15. remaining' <= Resting(Opposite(call.side), Reachable(call))'
      BY <1>13, <1>14
<1>16. "partially_filled" \in Statuses /\ rest \in Nat /\ DOMAIN live' \subseteq DOMAIN live
      BY <1>5, <1>10 DEF Statuses
<1> QED BY <1>7, <1>11, <1>12, <1>15, <1>16, FillKeeps

-----------------------------------------------------------------------------
(* The end of a submit.                                                      *)

\* What finishing does to the call, with n events.
Ends(n, accepted, status, reason) ==
    /\ Finishing
    /\ Answer(call, Result(accepted, status, reason, Executed, remaining))
    /\ pending' = IF n = 1 THEN <<OrderEvent(call.id, status, reason, remaining)>>
                  ELSE <<DepthEvent(depth'), OrderEvent(call.id, status, reason, remaining)>>
    /\ UNCHANGED <<remaining, trades, published>>

\* What a call that is being matched is like.
LEMMA MatchingFacts ==
    ASSUME IInv, pc = "match"
    PROVE  /\ BookInv /\ call \in Requests /\ call.id \in OrderIds /\ call.id \notin DOMAIN live
           /\ remaining \in Nat /\ call.qty \in Nat /\ remaining <= call.qty
           /\ (remaining = call.qty <=> trades = << >>)
           /\ (call.type = "limit" /\ call.tif = "gtx" => trades = << >>)
           /\ (call.tif = "fok" => remaining <= Resting(Opposite(call.side), Reachable(call)))
           /\ Executed \in Nat /\ Executed + remaining = call.qty
           /\ trades \in Seq(Trades) /\ published \in Seq(Events)
<1>1. /\ BookInv /\ call \in Requests /\ call.id \in OrderIds /\ call.id \notin DOMAIN live
      /\ remaining \in Nat /\ remaining <= call.qty
      /\ (remaining = call.qty <=> trades = << >>)
      /\ (call.type = "limit" /\ call.tif = "gtx" => trades = << >>)
      /\ (call.tif = "fok" => remaining <= Resting(Opposite(call.side), Reachable(call)))
      /\ trades \in Seq(Trades) /\ published \in Seq(Events)
      BY DEF IInv, CallInv, MatchingOK, CallTypes
<1>2. call.qty \in Nat
      BY <1>1, RequestFacts
<1>3. Executed \in Nat /\ Executed + remaining = call.qty
      BY <1>1, <1>2 DEF Executed
<1> QED BY <1>1, <1>2, <1>3

\* With nobody left to trade with, a fill-or-kill order has all it wanted.
LEMMA NobodyLeft ==
    ASSUME IInv, Finishing, remaining > 0
    PROVE  ~WouldCross(call) /\ call.tif # "fok"
<1>1. pc = "match" /\ ~CanMatch
      BY DEF Finishing
<1>2. call \in Requests /\ BookInv /\ remaining \in Nat
      BY <1>1, MatchingFacts
<1>3. ~WouldCross(call)
      BY <1>1 DEF CanMatch, WouldCross
<1>4. Reachable(call) = {}
      BY <1>2, <1>3, NoneReachable DEF BookInv
<1>5. Resting(Opposite(call.side), Reachable(call)) = 0
      BY <1>2, <1>4, RestingIsNat
<1>6. ASSUME call.tif = "fok" PROVE FALSE
  <2>1. remaining <= 0
        BY <1>1, <1>5, <1>6, MatchingFacts
  <2> QED BY <1>2, <2>1
<1> QED BY <1>3, <1>6

\* The times in force are honoured.
LEMMA EndHonours ==
    ASSUME IInv, NEW n, NEW accepted \in BOOLEAN, NEW status, NEW reason,
           Ends(n, accepted, status, reason), accepted \/ Executed = 0,
           \/ DOMAIN live' = DOMAIN live
           \/ call.type = "limit" /\ call.tif # "ioc" /\ remaining > 0
    PROVE  TimeInForceHonoured'
<1>1. PICK res : res = Result(accepted, status, reason, Executed, remaining)
      OBVIOUS
<1>2. res.accepted = accepted /\ res.executed = Executed
      BY <1>1 DEF Result
<1>3. /\ pc = "match" /\ pc' = "return" /\ call' = call /\ result' = res /\ trades' = trades
      BY <1>1 DEF Ends, Answer, Finishing
<1>4. /\ remaining \in Nat /\ call.qty \in Nat /\ Executed \in Nat /\ Executed + remaining = call.qty
      /\ (remaining = call.qty <=> trades = << >>)
      /\ (call.type = "limit" /\ call.tif = "gtx" => trades = << >>) /\ call.id \notin DOMAIN live
      BY <1>3, MatchingFacts
<1>5. call.tif = "fok" => remaining = 0
  <2>1. Finishing
        BY DEF Ends
  <2>2. remaining > 0 => call.tif # "fok"
        BY <2>1, NobodyLeft
  <2> QED BY <1>4, <2>2
<1>6. call.tif = "fok" => Executed = call.qty
      BY <1>4, <1>5
<1>7. ~accepted => trades = << >>
  <2>1. Executed = 0 => remaining = call.qty
        BY <1>4
  <2> QED BY <1>4, <2>1
<1>8. call.tif \in {"ioc", "fok"} \/ call.type = "market" => call.id \notin DOMAIN live'
      BY <1>4, <1>5
<1> QED BY <1>2, <1>3, <1>4, <1>6, <1>7, <1>8 DEF TimeInForceHonoured

\* The end of a submit keeps the invariant.
LEMMA EndKeeps ==
    ASSUME IInv, NEW n \in {1, 2}, NEW accepted \in BOOLEAN, NEW status \in Statuses,
           NEW reason \in Reasons, Ends(n, accepted, status, reason),
           accepted \/ Executed = 0, reason = "none" \/ ~accepted,
           BookInv', SameBut(live, live', call.id),
           \/ DOMAIN live' = DOMAIN live
           \/ call.type = "limit" /\ call.tif # "ioc" /\ remaining > 0
    PROVE  IInv'
<1>1. PICK id, rest, res, e : /\ id = call.id /\ rest = remaining
                              /\ res = Result(accepted, status, reason, Executed, rest)
                              /\ e = OrderEvent(id, status, reason, rest)
      OBVIOUS
<1>2. res.executed = Executed /\ res.remaining = rest /\ res.status = status
      BY <1>1 DEF Result
<1>3. /\ pc = "match" /\ pending = << >> /\ pc' = "return" /\ call' = call /\ result' = res
      /\ trades' = trades /\ remaining' = remaining /\ published' = published
      BY <1>1 DEF Ends, Answer, Finishing
<1>4. /\ id \in OrderIds /\ rest \in Nat /\ call.qty \in Nat /\ Executed \in Nat
      /\ Executed + rest = call.qty /\ (rest = call.qty <=> trades = << >>)
      /\ trades \in Seq(Trades) /\ published \in Seq(Events)
      BY <1>1, <1>3, MatchingFacts
<1>5. e \in Events
      BY <1>1, <1>4, EventFacts
<1>6. PICK d : d = depth'
      OBVIOUS
<1>7. d \in [Sides -> [Prices -> Nat]] /\ DepthEvent(d) \in Events
  <2>1. d \in [Sides -> [Prices -> Nat]]
        BY <1>6 DEF BookInv, BookTypes
  <2> QED BY <2>1, EventFacts
<1>8. PICK r : r = pending'
      OBVIOUS
<1>9. r = IF n = 1 THEN <<e>> ELSE <<DepthEvent(d), e>>
      BY <1>1, <1>6, <1>8 DEF Ends
<1>10. /\ r \in Seq(Events) /\ Len(r) = n /\ r[n] = e /\ (n = 2 => r[1] = DepthEvent(d))
  <2>1. CASE n = 1
    <3>1. r = <<e>>
          BY <1>9, <2>1
    <3> QED BY <1>5, <2>1, <3>1
  <2>2. CASE n = 2
    <3>1. r = <<DepthEvent(d), e>>
          BY <1>9, <2>2
    <3> QED BY <1>5, <1>7, <2>2, <3>1
  <2> QED BY <2>1, <2>2
<1>11. CallTypes'
       BY <1>3, <1>4, <1>1, <1>8, <1>10 DEF CallTypes
<1>12. TimeInForceHonoured'
       BY EndHonours
<1>13. IdleOK' /\ MatchingOK'
       BY <1>3 DEF IdleOK, MatchingOK
<1>14. PICK log, longer : log = published /\ longer = published \o r
       OBVIOUS
<1>15. Log = log /\ Log' = longer
  <2>1. published \o << >> = published
        BY <1>4, ConcatEmptySeq
  <2> QED BY <1>3, <1>8, <1>14, <2>1 DEF Log
<1>16. EndEvents(log, longer, n, id, status, reason, rest)
  <2>1. Follows(log, longer, r)
        BY <1>4, <1>10, <1>14, LogsGrow
  <2>2. n \in 1..n /\ (n = 2 => 1 \in 1..n)
        OBVIOUS
  <2>3. /\ Extends(log, longer, n) /\ longer[Len(log) + n] = e
        /\ (n = 2 => longer[Len(log) + 1] = DepthEvent(d))
        BY <1>10, <2>1, <2>2 DEF Follows
  <2> QED BY <1>1, <1>7, <2>3 DEF EndEvents
<1>17. /\ Traded(log) = Executed /\ MakersTold(log, live)
       /\ \A i \in TradesIn(log) : log[i].maker # id
       BY <1>1, <1>3, <1>15 DEF IInv, ReportInv, Executed
<1>18. EndTold(log, longer, live', e)
  <2>1. PICK orders, others : orders = live /\ others = live'
        OBVIOUS
  <2>2. MakersTold(log, orders) /\ SameBut(orders, others, id)
        BY <1>1, <1>17, <2>1
  <2>3. EndTold(log, longer, others, OrderEvent(id, status, reason, rest))
        BY <1>4, <1>16, <1>17, <2>2, EndReported
  <2> QED BY <1>1, <2>1, <2>3
<1>19. trades # << >> => reason = "none"
  <2>1. Executed = 0 => rest = call.qty
        BY <1>4
  <2> QED BY <1>4, <2>1
<1>20. ASSUME trades # << >>
       PROVE  /\ Traded(Log') = result'.executed /\ result'.executed + result'.remaining = call'.qty
              /\ Log' # << >> /\ MakersTold(Log', live')
              /\ Log'[Len(Log')] = OrderEvent(call'.id, result'.status, "none", result'.remaining)
       BY <1>1, <1>2, <1>3, <1>4, <1>15, <1>17, <1>18, <1>19, <1>20 DEF EndTold
<1>21. ReportInv'
       BY <1>3, <1>20 DEF ReportInv, Traded, MakersTold, TradesIn, About
<1> QED BY <1>11, <1>12, <1>13, <1>21 DEF IInv, CallInv

\* The four ways a submit ends.
LEMMA FinishKeeps == ASSUME IInv, Finish PROVE IInv'
<1>1. SameBut(live, live, call.id)
      BY DEF SameBut
<1>2. {"filled", "partially_filled", "cancelled", "rejected", "accepted"} \subseteq Statuses
      /\ {"none", "market_order_would_rest"} \subseteq Reasons
      BY DEF Statuses, Reasons
<1>3. Finishing /\ pc = "match"
      BY DEF Finish, FinishFilled, FinishDropped, FinishMarketRejected, FinishResting, Finishing
<1>4. /\ remaining \in Nat /\ BookInv /\ call \in Requests /\ call.id \in OrderIds
      /\ call.id \notin DOMAIN live
      BY <1>3, MatchingFacts
<1>5. ASSUME live' = live, book' = book, depth' = depth, arrival' = arrival
      PROVE  BookInv' /\ SameBut(live, live', call.id) /\ DOMAIN live' = DOMAIN live
  <2>1. BookInv'
        BY <1>4, <1>5 DEF BookInv, BookTypes, QueuesOK, DepthWithinBook, ArrivalOK, BookUncrossed, Levels
  <2> QED BY <1>1, <1>5, <2>1
<1>6. CASE FinishFilled
  <2>1. Ends(1, TRUE, "filled", "none") /\ live' = live /\ book' = book /\ depth' = depth /\ arrival' = arrival
        BY <1>6 DEF FinishFilled, Ends, bookVars
  <2> QED BY <1>2, <1>5, <2>1, EndKeeps
<1>7. CASE FinishDropped
  <2>1. PICK status \in {"partially_filled", "cancelled"} :
            /\ Answer(call, Result(TRUE, status, "none", Executed, remaining))
            /\ pending' = <<OrderEvent(call.id, status, "none", remaining)>>
        BY <1>7 DEF FinishDropped
  <2>2. /\ Ends(1, TRUE, status, "none")
        /\ live' = live /\ book' = book /\ depth' = depth /\ arrival' = arrival
        BY <1>3, <1>7, <2>1 DEF FinishDropped, Ends, bookVars
  <2> QED BY <1>2, <1>5, <2>1, <2>2, EndKeeps
<1>8. CASE FinishMarketRejected
  <2>1. /\ Ends(1, FALSE, "rejected", "market_order_would_rest") /\ Executed = 0
        /\ live' = live /\ book' = book /\ depth' = depth /\ arrival' = arrival
        BY <1>8 DEF FinishMarketRejected, Ends, bookVars
  <2> QED BY <1>2, <1>5, <2>1, EndKeeps
<1>9. CASE FinishResting
  <2>1. PICK status \in {"partially_filled", "accepted"} :
            /\ Answer(call, Result(TRUE, status, "none", Executed, remaining))
            /\ pending' = <<DepthEvent(depth'), OrderEvent(call.id, status, "none", remaining)>>
        BY <1>9 DEF FinishResting
  <2>2. Ends(2, TRUE, status, "none")
    <3>1. UNCHANGED <<remaining, trades, published>>
          BY <1>9 DEF FinishResting
    <3>2. 2 # 1
          OBVIOUS
    <3> QED BY <1>3, <2>1, <3>1, <3>2, Zenon DEF Ends
  <2>3. remaining > 0 /\ call.type = "limit" /\ call.tif # "ioc" /\ AddResting(call, remaining)
        BY <1>9 DEF FinishResting
  <2>4. ~WouldCross(call)
        BY <1>3, <2>3, NobodyLeft
  <2>5. PICK id, o : /\ id = call.id
                     /\ o = [side |-> call.side, price |-> call.price, open |-> remaining]
        OBVIOUS
  <2>6. BookInv' /\ live' = With(live, id, o)
        BY <1>4, <2>3, <2>4, <2>5, ArrivalKeepsBook
  <2>7. DOMAIN live' = DOMAIN live \cup {id} /\ \A x \in DOMAIN live \ {id} : live'[x] = live[x]
        BY <2>6 DEF With
  <2>8. SameBut(live, live', call.id)
        BY <2>5, <2>7 DEF SameBut, OpenOf
  <2> QED BY <1>2, <2>1, <2>2, <2>3, <2>6, <2>8, EndKeeps
<1> QED BY <1>6, <1>7, <1>8, <1>9 DEF Finish

-----------------------------------------------------------------------------
(* The other steps.                                                          *)

\* A step that leaves the book alone keeps it.
LEMMA SameBook == ASSUME BookInv, UNCHANGED bookVars PROVE BookInv'
  BY DEF bookVars, BookInv, BookTypes, QueuesOK, DepthWithinBook, ArrivalOK, BookUncrossed, Levels

\* A call that is answered without a trade: refused requests and cancels.
AnsweredAtOnce ==
    /\ pc = "idle" /\ pc' = "return" /\ UNCHANGED <<remaining, trades, published>>
    /\ pending' \in Seq(Events)
    /\ call' \in Requests => ~result'.accepted

\* It keeps the invariant.
LEMMA AnswerKeeps == ASSUME IInv, AnsweredAtOnce, BookInv' PROVE IInv'
<1>1. /\ pc = "idle" /\ trades = << >> /\ remaining \in Nat
      /\ trades \in Seq(Trades) /\ published \in Seq(Events)
      BY DEF IInv, CallInv, CallTypes, IdleOK, AnsweredAtOnce
<1>2. CallTypes'
      BY <1>1 DEF AnsweredAtOnce, CallTypes
<1>3. IdleOK' /\ MatchingOK' /\ ReportInv'
      BY <1>1 DEF AnsweredAtOnce, IdleOK, MatchingOK, ReportInv
<1>4. TimeInForceHonoured'
      BY <1>1 DEF AnsweredAtOnce, TimeInForceHonoured
<1> QED BY <1>2, <1>3, <1>4 DEF IInv, CallInv

\* submit before the fill loop.
LEMMA SubmitKeeps == ASSUME IInv, NEW r \in Requests, Submit(r) PROVE IInv'
<1>1. /\ r.side \in Sides /\ r.qty \in Nat /\ r.type \in {"limit", "market"} /\ r.tif \in Tifs
      /\ r.id \in OrderIds \cup {NoId}
      BY RequestFacts
<1>2. pc = "idle" /\ trades = << >> /\ pending = << >> /\ published = << >>
      BY DEF Submit, SubmitInvalid, SubmitRefused, SubmitAccepted, IInv, CallInv, IdleOK
<1>3. BookInv /\ BookInv' /\ UNCHANGED bookVars
  <2>1. UNCHANGED bookVars
        BY DEF Submit, SubmitInvalid, SubmitRefused, SubmitAccepted
  <2> QED BY <2>1, SameBook DEF IInv
<1>4. CASE SubmitInvalid(r)
  <2>1. result' = Rejected("insufficient_liquidity", r.qty) /\ pending' = << >>
        BY <1>2, <1>4 DEF SubmitInvalid, Answer
  <2>2. ~result'.accepted /\ pending' \in Seq(Events)
        BY <2>1 DEF Rejected, Result
  <2>3. AnsweredAtOnce
        BY <1>4, <2>2 DEF SubmitInvalid, Answer, AnsweredAtOnce
  <2> QED BY <1>3, <2>3, AnswerKeeps
<1>5. CASE SubmitRefused(r)
  <2>1. PICK reason : reason = Refusal(r)
        OBVIOUS
  <2>2. reason \in Reasons
        BY <2>1 DEF Refusal, Reasons
  <2>3. /\ result' = Rejected(reason, r.qty) /\ r.id \in OrderIds
        /\ pending' = <<OrderEvent(r.id, "rejected", reason, r.qty)>>
        BY <1>1, <1>5, <2>1 DEF SubmitRefused, Answer
  <2>4. OrderEvent(r.id, "rejected", reason, r.qty) \in Events
    <3>1. "rejected" \in Statuses
          BY DEF Statuses
    <3> QED BY <1>1, <2>2, <2>3, <3>1, EventFacts
  <2>5. ~result'.accepted /\ pending' \in Seq(Events)
        BY <2>3, <2>4 DEF Rejected, Result
  <2>6. AnsweredAtOnce
        BY <1>5, <2>5 DEF SubmitRefused, Answer, AnsweredAtOnce
  <2> QED BY <1>3, <2>6, AnswerKeeps
<1>6. CASE SubmitAccepted(r)
  <2>1. /\ pc' = "match" /\ call' = r /\ remaining' = r.qty /\ r.id \in OrderIds /\ r.qty > 0
        /\ UNCHANGED <<trades, result, pending, published>> /\ Refusal(r) = "none"
        BY <1>1, <1>6 DEF SubmitAccepted
  <2>2. /\ r.id \notin DOMAIN live
        /\ r.type = "limit" /\ r.tif = "gtx" => ~WouldCross(r)
        /\ r.tif = "fok" => CanFillFully(r)
    <3>1. r.id \notin DOMAIN live
          BY <2>1 DEF Refusal
    <3>2. ASSUME r.type = "limit", r.tif = "gtx", WouldCross(r) PROVE FALSE
          BY <2>1, <3>1, <3>2 DEF Refusal
    <3>3. ASSUME r.tif = "fok", ~CanFillFully(r) PROVE FALSE
          BY <2>1, <3>1, <3>3 DEF Refusal
    <3> QED BY <3>1, <3>2, <3>3
  <2>3. /\ r.type = "limit" /\ r.tif = "gtx" => ~WouldCross(r)'
        /\ Resting(Opposite(r.side), Reachable(r))' = Resting(Opposite(r.side), Reachable(r))
    <3>1. book' = book /\ live' = live
          BY <1>3 DEF bookVars
    <3>2. Levels("buy")' = Levels("buy") /\ Levels("sell")' = Levels("sell")
          BY <3>1 DEF Levels
    <3> QED BY <2>2, <3>1, <3>2 DEF WouldCross, BestPrice, Resting, Reachable, Levels
  <2>4. r.tif = "fok" => r.qty <= Resting(Opposite(r.side), Reachable(r))'
    <3>1. Resting(Opposite(r.side), Reachable(r)) \in Nat
          BY <1>3, RestingIsNat
    <3> QED BY <1>1, <2>2, <2>3, <3>1 DEF CanFillFully
  <2>5. MatchingOK'
    <3>1. /\ call' \in Requests /\ call'.id \in OrderIds /\ call'.id \notin DOMAIN live'
          /\ remaining' <= call'.qty /\ remaining' = call'.qty /\ trades' = << >>
          BY <1>1, <1>2, <1>3, <2>1, <2>2 DEF bookVars
    <3>2. call'.type = "limit" /\ call'.tif = "gtx" => ~(WouldCross(call)')
          BY <2>1, <2>3 DEF WouldCross, BestPrice, Levels
    <3>3. call'.tif = "fok" => remaining' <= Resting(Opposite(call.side), Reachable(call))'
          BY <2>1, <2>4 DEF Resting, Reachable, Levels
    <3> QED BY <3>1, <3>2, <3>3 DEF MatchingOK
  <2>6. CallTypes' /\ IdleOK' /\ TimeInForceHonoured'
        BY <1>1, <2>1 DEF IInv, CallInv, CallTypes, IdleOK, TimeInForceHonoured
  <2>7. ReportInv'
    <3>1. Log' = << >>
          BY <1>2, <2>1 DEF Log
    <3>2. TradesIn(<< >>) = {}
          BY DEF TradesIn
    <3>3. Traded(<< >>) = 0
      <4>1. PICK f : f = [i \in {} |-> << >>[i].qty]
            OBVIOUS
      <4>2. DOMAIN f = {} /\ IsFiniteSet({}) /\ \A x \in {} : f[x] \in Int
            BY <4>1, FS_EmptySet
      <4>3. SumFunctionOnSet(f, {}) = 0
            BY <4>2, SumSplits
      <4> QED BY <3>2, <4>1, <4>2, <4>3 DEF Traded, SumFunction
    <3>4. /\ Traded(Log') = call'.qty - remaining' /\ MakersTold(Log', live')
          /\ \A i \in TradesIn(Log') : Log'[i].maker # call'.id
          BY <1>1, <2>1, <3>1, <3>2, <3>3 DEF MakersTold
    <3> QED BY <2>1, <3>4 DEF ReportInv, Traded, MakersTold, TradesIn, About
  <2> QED BY <1>3, <2>5, <2>6, <2>7 DEF IInv, CallInv
<1> QED BY <1>4, <1>5, <1>6 DEF Submit

\* cancel.
LEMMA CancelKeeps == ASSUME IInv, NEW id \in OrderIds, Cancel(id) PROVE IInv'
<1>1. CancelRequest(id) \notin Requests
      BY DEF CancelRequest, Requests
<1>2. pc = "idle" /\ pending = << >> /\ call' = CancelRequest(id)
      BY DEF Cancel, CancelUnknown, CancelLive, Answer, IInv, CallInv, IdleOK
<1>3. CASE CancelUnknown(id)
  <2>1. BookInv'
        BY <1>3, SameBook DEF CancelUnknown, IInv
  <2>2. AnsweredAtOnce
        BY <1>1, <1>2, <1>3 DEF CancelUnknown, AnsweredAtOnce, Answer
  <2> QED BY <2>1, <2>2, AnswerKeeps
<1>4. CASE CancelLive(id)
  <2>1. id \in DOMAIN live /\ RemoveResting(id)
        BY <1>4 DEF CancelLive
  <2>2. BookInv'
        BY <2>1, RemovalKeepsBook DEF IInv
  <2>3. /\ DepthEvent(depth') \in Events
        /\ OrderEvent(id, "cancelled", "none", 0) \in Events
    <3>1. depth' \in [Sides -> [Prices -> Nat]]
          BY <2>2 DEF BookInv, BookTypes
    <3>2. "cancelled" \in Statuses /\ "none" \in Reasons /\ 0 \in Nat
          BY DEF Statuses, Reasons
    <3> QED BY <3>1, <3>2, EventFacts
  <2>4. pending' \in Seq(Events)
        BY <1>4, <2>3 DEF CancelLive
  <2>5. AnsweredAtOnce
        BY <1>1, <1>2, <1>4, <2>4 DEF CancelLive, AnsweredAtOnce, Answer
  <2> QED BY <2>2, <2>5, AnswerKeeps
<1> QED BY <1>3, <1>4 DEF Cancel

\* Emitting an event moves it within the log.
LEMMA EmitKeeps == ASSUME IInv, EmitEvent PROVE IInv'
<1>1. /\ pending # << >> /\ pending' = Tail(pending) /\ published' = Append(published, Head(pending))
      /\ UNCHANGED bookVars /\ UNCHANGED callVars
      BY DEF EmitEvent
<1>2. pending \in Seq(Events) /\ published \in Seq(Events)
      BY DEF IInv, CallInv, CallTypes
<1>3. BookInv'
      BY <1>1, SameBook DEF IInv
<1>4. /\ Head(pending) \in Events /\ pending' \in Seq(Events) /\ published' \in Seq(Events)
      BY <1>1, <1>2
<1>5. Log' = Log
  <2>1. PICK e, p, q : e = Head(pending) /\ p = Tail(pending) /\ q = pending
        OBVIOUS
  <2>2. /\ e \in Events /\ p \in Seq(Events) /\ q \in Seq(Events)
        /\ Len(p) = Len(q) - 1 /\ Len(q) \in Nat \ {0} /\ q[1] = e
        /\ \A i \in 1..Len(p) : p[i] = q[i + 1]
        BY <1>1, <1>2, <2>1
  <2>3. PICK h, n : h = Append(published, e) /\ n = Len(published)
        OBVIOUS
  <2>4. /\ n \in Nat /\ Len(h) = n + 1 /\ h \in Seq(Events)
        /\ (\A i \in 1..n : h[i] = published[i])
        /\ h[n + 1] = e
        BY <1>2, <2>2, <2>3
  <2>10. PICK a, b : a = published \o q /\ b = h \o p
        OBVIOUS
  <2>5. /\ a \in Seq(Events) /\ Len(a) = n + Len(q)
        /\ \A i \in 1..(n + Len(q)) : a[i] = IF i <= n THEN published[i] ELSE q[i - n]
        BY <1>2, <2>2, <2>3, <2>10, ConcatProperties
  <2>6. /\ b \in Seq(Events) /\ Len(b) = n + 1 + Len(p)
        /\ \A i \in 1..(n + 1 + Len(p)) :
              b[i] = IF i <= n + 1 THEN h[i] ELSE p[i - (n + 1)]
    <3>1. /\ b \in Seq(Events) /\ Len(b) = Len(h) + Len(p)
          /\ \A i \in 1..(Len(h) + Len(p)) : b[i] = IF i <= Len(h) THEN h[i] ELSE p[i - Len(h)]
          BY <2>2, <2>4, <2>10, ConcatProperties
    <3> QED BY <2>4, <3>1
  <2>7. Len(a) = Len(b)
        BY <2>2, <2>4, <2>5, <2>6
  <2>8. ASSUME NEW i \in 1..Len(a) PROVE a[i] = b[i]
    <3>1. i \in 1..(n + Len(q)) /\ i \in 1..(n + 1 + Len(p))
          BY <2>5, <2>6, <2>7, <2>8
    <3>2. CASE i <= n
      <4>1. i \in 1..n /\ i <= n + 1
            BY <2>4, <3>1, <3>2
      <4> QED BY <2>4, <2>5, <2>6, <3>1, <3>2, <4>1
    <3>3. CASE i = n + 1
      <4>1. ~(i <= n) /\ i - n = 1 /\ i <= n + 1
            BY <2>4, <3>3
      <4>2. a[i] = q[1] /\ b[i] = h[n + 1]
            BY <2>5, <2>6, <3>1, <3>3, <4>1
      <4> QED BY <2>2, <2>4, <4>2
    <3>4. CASE i > n + 1
      <4>1. ~(i <= n) /\ ~(i <= n + 1) /\ i - (n + 1) \in 1..Len(p) /\ (i - (n + 1)) + 1 = i - n
            BY <2>2, <2>4, <3>1, <3>4
      <4>2. a[i] = q[i - n] /\ b[i] = p[i - (n + 1)]
            BY <2>5, <2>6, <3>1, <4>1
      <4>3. p[i - (n + 1)] = q[(i - (n + 1)) + 1]
            BY <2>2, <4>1
      <4> QED BY <4>1, <4>2, <4>3
    <3> QED BY <2>4, <3>1, <3>2, <3>3, <3>4
  <2>9. a = b
        BY <2>5, <2>6, <2>7, <2>8, SeqEqual
  <2> QED BY <1>1, <2>1, <2>3, <2>9, <2>10 DEF Log
<1>6. pc # "idle"
      BY <1>1 DEF IInv, CallInv, IdleOK
<1>7. CallTypes' /\ IdleOK' /\ TimeInForceHonoured'
      BY <1>1, <1>4, <1>6 DEF IInv, CallInv, CallTypes, IdleOK, TimeInForceHonoured, callVars, bookVars
<1>8. MatchingOK'
      BY <1>1 DEF IInv, CallInv, MatchingOK, callVars, bookVars, WouldCross, BestPrice, Resting,
                  Reachable, Levels
<1>9. ReportInv'
      BY <1>1, <1>5 DEF IInv, ReportInv, callVars, bookVars, MakersTold, Traded, TradesIn, About
<1> QED BY <1>3, <1>7, <1>8, <1>9 DEF IInv, CallInv

\* A step that changes nothing but event_queue_.
LEMMA PollKeeps ==
    ASSUME IInv, UNCHANGED <<bookVars, callVars, pending, published>>
    PROVE  IInv'
<1>1. BookInv'
      BY SameBook DEF IInv
<1>2. CallTypes' /\ IdleOK' /\ TimeInForceHonoured'
      BY DEF IInv, CallInv, CallTypes, IdleOK, TimeInForceHonoured, callVars, bookVars
<1>3. MatchingOK'
      BY DEF IInv, CallInv, MatchingOK, callVars, bookVars, WouldCross, BestPrice, Resting,
             Reachable, Levels
<1>4. Log' = Log
      BY DEF Log
<1>5. ReportInv'
      BY <1>4 DEF IInv, ReportInv, callVars, bookVars, MakersTold, Traded, TradesIn, About
<1> QED BY <1>1, <1>2, <1>3, <1>5 DEF IInv, CallInv

\* The call returns.
LEMMA ReturnKeeps == ASSUME IInv, Return PROVE IInv'
<1>1. BookInv'
      BY SameBook DEF Return, IInv
<1>2. CallTypes' /\ IdleOK' /\ TimeInForceHonoured' /\ MatchingOK' /\ ReportInv'
      BY DEF Return, IInv, CallInv, CallTypes, IdleOK, TimeInForceHonoured, MatchingOK, ReportInv
<1> QED BY <1>1, <1>2 DEF IInv, CallInv

\* The engine starts with an empty book.
LEMMA InitInv == Init => IInv
<1>1. SUFFICES ASSUME Init PROVE IInv
      OBVIOUS
<1>2. ToSet(<< >>) = {} /\ IsInjective(<< >>) /\ DOMAIN live = {} /\ DOMAIN << >> = {}
      BY <1>1 DEF ToSet, IsInjective, Init, EmptyMap
<1>3. BookTypes
      BY <1>1, <1>2 DEF BookTypes, Init
<1>4. QueuesOK
      BY <1>1, <1>2 DEF QueuesOK, Init, At
<1>5. ArrivalOK
      BY <1>1, <1>2 DEF ArrivalOK, Init, InTurn
<1>6. DepthWithinBook /\ BookUncrossed
  <2>1. HaveOpen(live, ToSet(<< >>)) /\ << >> \in Seq(OrderIds)
        BY <1>2 DEF HaveOpen
  <2>2. Open(live, << >>) = 0
        BY <2>1, OpenFacts
  <2>3. \A s \in Sides : Levels(s) = {}
        BY <1>1 DEF Levels, Init
  <2> QED BY <1>1, <2>2, <2>3 DEF DepthWithinBook, BookUncrossed, Init, Sides
<1>7. CallInv /\ ReportInv
      BY <1>1 DEF Init, CallInv, CallTypes, IdleOK, MatchingOK, TimeInForceHonoured, ReportInv
<1> QED BY <1>3, <1>4, <1>5, <1>6, <1>7 DEF IInv, BookInv

\* Every step keeps the invariant.
LEMMA NextInv == IInv /\ [Next]_vars => IInv'
<1>1. SUFFICES ASSUME IInv, [Next]_vars PROVE IInv'
      OBVIOUS
<1>2. CASE UNCHANGED vars
      BY <1>1, <1>2, PollKeeps DEF vars
<1>3. CASE \E r \in Requests : Submit(r)
      BY <1>1, <1>3, SubmitKeeps
<1>4. CASE \E id \in OrderIds : Cancel(id)
      BY <1>1, <1>4, CancelKeeps
<1>5. CASE Match
      BY <1>1, <1>5, FillMakerKeeps, FillPartlyKeeps DEF Match
<1>6. CASE Finish
      BY <1>1, <1>6, FinishKeeps
<1>7. CASE EmitEvent
      BY <1>1, <1>7, EmitKeeps
<1>8. CASE Return
      BY <1>1, <1>8, ReturnKeeps
<1>9. CASE PollEvent
      BY <1>1, <1>9, PollKeeps DEF PollEvent
<1> QED BY <1>1, <1>2, <1>3, <1>4, <1>5, <1>6, <1>7, <1>8, <1>9 DEF Next

-----------------------------------------------------------------------------
(* The theorems.                                                             *)

\* The invariant holds in every state.
LEMMA Invariance == Spec => []IInv
<1> QED BY InitInv, NextInv, PTL DEF Spec

\* The best bid stays below the best ask, at every point of every call of
\* submit and cancel.
THEOREM BooksNeverCross == Spec => []BookUncrossed
<1>1. IInv => BookUncrossed
      BY DEF IInv, BookInv
<1> QED BY <1>1, Invariance, PTL

\* The levels' queues, live_orders_ and the depth agree at every point of every
\* call: an order is in exactly the queue of its side and price, once, while it
\* is live and has something left.
THEOREM BookAndLiveAgree == Spec => []BookMatchesLive
<1>1. ASSUME IInv PROVE BookMatchesLive
  <2>1. BookTypes /\ QueuesOK /\ DepthWithinBook
        BY <1>1 DEF IInv, BookInv
  <2>2. ASSUME NEW s \in Sides, NEW p \in Prices, NEW i \in DOMAIN book[s][p]
        PROVE  /\ book[s][p][i] \in DOMAIN live
               /\ live[book[s][p][i]].side = s /\ live[book[s][p][i]].price = p
               /\ live[book[s][p][i]].open > 0
               /\ \A j \in DOMAIN book[s][p] : book[s][p][j] = book[s][p][i] => i = j
    <3>1. PICK q, id : q = book[s][p] /\ id = q[i]
          OBVIOUS
    <3>2. IsInjective(q) /\ ToSet(q) = At(live, s, p)
          BY <2>1, <3>1 DEF QueuesOK
    <3>3. id \in At(live, s, p)
          BY <2>2, <3>1, <3>2 DEF ToSet
    <3>4. id \in DOMAIN live /\ live[id].side = s /\ live[id].price = p
          BY <3>3 DEF At
    <3>5. live[id].open > 0
          BY <2>1, <3>4 DEF BookTypes, Orders
    <3>6. \A j \in DOMAIN q : q[j] = q[i] => i = j
          BY <2>2, <3>1, <3>2 DEF IsInjective
    <3> QED BY <3>1, <3>4, <3>5, <3>6
  <2>3. ASSUME NEW id \in DOMAIN live
        PROVE  \E i \in DOMAIN book[live[id].side][live[id].price] :
                  book[live[id].side][live[id].price][i] = id
    <3>1. live[id].side \in Sides /\ live[id].price \in Prices
          BY <2>1, <2>3 DEF BookTypes, Orders
    <3>2. id \in ToSet(book[live[id].side][live[id].price])
          BY <2>1, <2>3, <3>1 DEF QueuesOK, At
    <3> QED BY <3>2 DEF ToSet
  <2> QED BY <2>1, <2>2, <2>3 DEF BookMatchesLive
<1> QED BY <1>1, Invariance, PTL

\* A fill-or-kill order is filled or refused, a post-only order never takes, an
\* IOC or market order never rests, a refused order has no trades.
THEOREM TimesInForceAreHonoured == Spec => []TimeInForceHonoured
<1>1. IInv => TimeInForceHonoured
      BY DEF IInv, CallInv
<1> QED BY <1>1, Invariance, PTL

\* What a submit that traded has published when it returns is a true account of
\* what it did to the taker and to every maker.
THEOREM ReportsAreTrue == Spec => []ReportMatchesOutcome
<1>1. ASSUME IInv, pc = "return", pending = << >>, trades # << >>
      PROVE  /\ Traded(published) = result.executed
             /\ result.executed + result.remaining = call.qty
             /\ published[Len(published)] =
                   OrderEvent(call.id, result.status, "none", result.remaining)
             /\ MakersTold(published, live)
  <2>1. published \in Seq(Events)
        BY <1>1 DEF IInv, CallInv, CallTypes
  <2>2. Log = published
        BY <1>1, <2>1, ConcatEmptySeq DEF Log
  <2> QED BY <1>1, <2>2 DEF IInv, ReportInv
<1>2. ASSUME IInv, pc = "return", pending = << >>, trades # << >>,
             NEW i \in TradesIn(published)
      PROVE  /\ i < Max(About(published, published[i].maker))
             /\ published[Max(About(published, published[i].maker))].open
                   = OpenOf(live, published[i].maker)
  <2>1. PICK A : A = About(published, published[i].maker)
        OBVIOUS
  <2>2. PICK k \in A : /\ i < k /\ published[k].open = OpenOf(live, published[i].maker)
                       /\ \A j \in A : j <= k
        BY <1>1, <1>2, <2>1 DEF MakersTold
  <2>3. published \in Seq(Events)
        BY <1>2 DEF IInv, CallInv, CallTypes
  <2>4. A \subseteq Nat
        BY <2>1, <2>3 DEF About
  <2>5. Max(A) \in A /\ \A j \in A : Max(A) >= j
    <3>1. \E x \in A : \A y \in A : x >= y
          BY <2>2, <2>4
    <3> QED BY <3>1 DEF Max
  <2>6. Max(A) = k
    <3>1. PICK z : z = Max(A)
          OBVIOUS
    <3>2. z \in A /\ z >= k /\ z <= k /\ z \in Nat /\ k \in Nat
          BY <2>2, <2>4, <2>5, <3>1
    <3>3. z = k
          BY <3>2
    <3> QED BY <3>1, <3>3
  <2> QED BY <2>1, <2>2, <2>6
<1>3. IInv => ReportMatchesOutcome
      BY <1>1, <1>2 DEF ReportMatchesOutcome, Traded, TradesIn, About, OpenOf
<1> QED BY <1>3, Invariance, PTL

\* A fill of the request that is being matched goes to the first order of the
\* best price of the other side.
LEMMA FillTakesBest ==
    ASSUME IInv, Match
    PROVE  FillInPriority
<1>1. pc = "match" /\ CanMatch /\ Execute
      BY DEF Match, FillMaker, FillPartly
<1>2. BookInv /\ call \in Requests /\ remaining \in Nat /\ trades \in Seq(Trades)
      BY <1>1 DEF IInv, CallInv, CallTypes, MatchingOK
<1>3. PICK m, s, p, q : m = Maker /\ s = live[m].side /\ p = live[m].price /\ q = book[s][p]
      OBVIOUS
<1>4. /\ m \in DOMAIN live /\ s = Opposite(call.side) /\ p = BestPrice(s)
      /\ 1 \in DOMAIN q /\ m = q[1] /\ live[m] \in Orders
      BY <1>1, <1>2, <1>3, MakerFacts
<1>5. trades'[Len(trades')].maker = m
  <2>1. PICK e : e = [maker |-> Maker, price |-> live[Maker].price, qty |-> Fill]
        OBVIOUS
  <2>2. e.maker = m
        BY <1>3, <2>1
  <2>3. trades' = Append(trades, e)
        BY <1>1, <2>1 DEF Execute
  <2>4. Append(trades, e)[Len(Append(trades, e))] = e
        BY <1>2
  <2> QED BY <2>2, <2>3, <2>4
<1>6. s \in Sides /\ p \in Prices
      BY <1>3, <1>4 DEF Orders
<1>7. Levels(s) # {} /\ BookTypes /\ QueuesOK /\ ArrivalOK
      BY <1>1, <1>2, <1>4 DEF CanMatch, BookInv
<1>8. \A x \in Levels(s) : IF s = "sell" THEN p <= x ELSE p >= x
      BY <1>4, <1>6, <1>7, BestIsBest
<1> DEFINE rank(id) == CHOOSE i \in DOMAIN arrival : arrival[i] = id
<1>9. \A id \in DOMAIN live : rank(id) \in DOMAIN arrival /\ arrival[rank(id)] = id
      BY <1>7 DEF ArrivalOK, ToSet
<1>10. ASSUME NEW id \in DOMAIN live \ {m}, live[id].side = s
       PROVE  /\ ~(IF s = "sell" THEN live[id].price < p ELSE live[id].price > p)
              /\ live[id].price = p => rank(m) < rank(id)
  <2>1. live[id].price \in Prices /\ live[id].price \in Nat /\ p \in Nat
        BY <1>6, <1>7, <1>10, PricesAssumption DEF BookTypes, Orders
  <2>2. PICK x : x = live[id].price
        OBVIOUS
  <2>3. id \in ToSet(book[s][x])
        BY <1>6, <1>7, <1>10, <2>1, <2>2 DEF QueuesOK, At
  <2>4. PICK j \in DOMAIN book[s][x] : book[s][x][j] = id
        BY <2>3 DEF ToSet
  <2>5. x \in Levels(s)
    <3>1. book[s][x] # << >>
          BY <2>4
    <3> QED BY <2>1, <2>2, <3>1 DEF Levels
  <2>6. ~(IF s = "sell" THEN x < p ELSE x > p)
        BY <1>8, <2>1, <2>2, <2>5
  <2>7. ASSUME x = p PROVE rank(m) < rank(id)
    <3>1. j \in DOMAIN q /\ q[j] = id
          BY <1>3, <2>4, <2>7
    <3>2. q \in Seq(OrderIds)
          BY <1>3, <1>6, <1>7 DEF BookTypes
    <3>3. 1 < j
      <4>1. j # 1
            BY <1>4, <1>10, <3>1
      <4> QED BY <3>1, <3>2, <4>1
    <3>4. InTurn(q, arrival)
          BY <1>3, <1>6, <1>7 DEF ArrivalOK
    <3>5. /\ rank(m) \in DOMAIN arrival /\ arrival[rank(m)] = q[1]
          /\ rank(id) \in DOMAIN arrival /\ arrival[rank(id)] = q[j]
          BY <1>4, <1>9, <1>10, <3>1
    <3> HIDE DEF rank
    <3> QED BY <1>4, <3>1, <3>3, <3>4, <3>5 DEF InTurn
  <2> QED BY <2>2, <2>6, <2>7
<1> QED BY <1>3, <1>5, <1>10 DEF FillInPriority

\* Only a fill adds to the trades of a call, so that every trade keeps price-time
\* priority: the best price first, and among the orders of one price the one
\* that came to rest first, whatever was cancelled or partly filled before.
THEOREM PriorityIsKept == Spec => PriceTimePriority
<1>1. ASSUME IInv, [Next]_vars PROVE [FillInPriority]_vars
  <2>1. CASE Match
        BY <1>1, <2>1, FillTakesBest
  <2>2. CASE ~Match
    <3>1. trades' = trades \/ trades' = << >>
          BY <1>1, <2>2 DEF Next, vars, callVars, Submit, SubmitInvalid, SubmitRefused, SubmitAccepted,
             Cancel, CancelUnknown, CancelLive, Finish, FinishFilled, FinishDropped,
             FinishMarketRejected, FinishResting, EmitEvent, Return, PollEvent
    <3> QED BY <3>1 DEF FillInPriority
  <2> QED BY <2>1, <2>2
<1> QED BY <1>1, Invariance, PTL DEF Spec, PriceTimePriority

=============================================================================
