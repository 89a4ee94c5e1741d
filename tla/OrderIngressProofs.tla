------------------------- MODULE OrderIngressProofs -------------------------
(* The way of an order to the risk engine, for every number of users,        *)
(* requests, limits and sessions.                                            *)
EXTENDS OrderIngress, LibraryTheorems, TLAPS

-----------------------------------------------------------------------------
(* Request windows.                                                          *)

\* An entry of a log of requests judged.
EntryOK(e) ==
    /\ e.time \in Int /\ e.limit.max \in Nat /\ e.limit.window \in Int

\* Entry k counts for a window of this length that ends at this time.
Counts(log, k, time, length) == log[k].counted /\ log[k].time >= time - length

\* KeepsLimit, for one entry.
KeepsLimitAt(log, j) ==
    /\ log[j].passed =>
          \A i \in 1 .. j : Orderly(log, i, j) =>
              Cardinality({k \in i .. j : Counts(log, k, log[j].time, log[j].limit.window)})
                  <= log[j].limit.max
    /\ log[j].held =>
          Cardinality({k \in 1 .. (j - 1) : Counts(log, k, log[j].time, log[j].limit.window)})
              >= log[j].limit.max

\* p gives for every place of the window the entry of the log it stems from.
Stems(p, w, log) ==
    /\ p \in [1 .. Len(w) -> 1 .. Len(log)]
    /\ \A a, b \in 1 .. Len(w) : p[a] = p[b] => a = b
    /\ \A a \in 1 .. Len(w) : w[a] = log[p[a]].time /\ log[p[a]].counted

\* The entries that count for the last one are still in the window, if they
\* came in order.
Retains(p, w, log) ==
    LET n == Len(log)
    IN  \A i \in 1 .. n : Orderly(log, i, n) =>
           \A k \in i .. n : Counts(log, k, log[n].time, log[n].limit.window) =>
              \E a \in 1 .. Len(w) : p[a] = k

\* The window is what the log makes it, and the log keeps its limits.
WindowOK(w, log) ==
    /\ w \in Seq(Int)
    /\ IsSequence(log)
    /\ \A k \in 1 .. Len(log) : EntryOK(log[k])
    /\ \E p : Stems(p, w, log) /\ Retains(p, w, log)
    /\ \A j \in 1 .. Len(log) : KeepsLimitAt(log, j)

\* That is KeepsLimit.
LEMMA KeepsLimitHolds ==
    ASSUME NEW w, NEW log, WindowOK(w, log)
    PROVE  KeepsLimit(log)
<1>1. IsSequence(log) /\ \A j \in 1 .. Len(log) : KeepsLimitAt(log, j)
      BY DEF WindowOK
<1>2. DOMAIN log = 1 .. Len(log)
      BY <1>1, SequenceFacts
<1> QED BY <1>1, <1>2 DEF KeepsLimit, KeepsLimitAt, Counts

\* Before the first request.
LEMMA EmptyWindow == WindowOK(<< >>, << >>)
<1>1. << >> \in Seq(Int) /\ Len(<< >>) = 0
      OBVIOUS
<1>2. PICK p : p = [a \in 1 .. 0 |-> 0]
      OBVIOUS
<1>3. Stems(p, << >>, << >>)
      BY <1>1, <1>2 DEF Stems
<1>4. Retains(p, << >>, << >>)
      BY <1>1 DEF Retains
<1>5. \A k \in 1 .. 0 : FALSE
      OBVIOUS
<1> QED BY <1>1, <1>3, <1>4, <1>5, EmptySequence DEF WindowOK

\* What is said of an entry is said of the log up to it.
LEMMA PrefixKeeps ==
    ASSUME NEW log, NEW log2, NEW j \in Nat, KeepsLimitAt(log, j), j >= 1,
           \A k \in 1 .. j : log2[k] = log[k]
    PROVE  KeepsLimitAt(log2, j)
<1>1. ASSUME NEW i \in 1 .. j PROVE Orderly(log2, i, j) <=> Orderly(log, i, j)
  <2>1. \A k \in i .. j : log2[k] = log[k] /\ (k < j => log2[k + 1] = log[k + 1])
        OBVIOUS
  <2>2. log2[j] = log[j]
        OBVIOUS
  <2> QED BY <2>1, <2>2 DEF Orderly
<1>2. log2[j] = log[j]
      OBVIOUS
<1>3. ASSUME NEW i \in 1 .. j
      PROVE  {k \in i .. j : Counts(log2, k, log2[j].time, log2[j].limit.window)}
             = {k \in i .. j : Counts(log, k, log[j].time, log[j].limit.window)}
  <2>1. \A k \in i .. j : log2[k] = log[k]
        OBVIOUS
  <2> QED BY <1>2, <2>1 DEF Counts
<1>4. {k \in 1 .. (j - 1) : Counts(log2, k, log2[j].time, log2[j].limit.window)}
      = {k \in 1 .. (j - 1) : Counts(log, k, log[j].time, log[j].limit.window)}
  <2>1. \A k \in 1 .. (j - 1) : log2[k] = log[k]
        OBVIOUS
  <2> QED BY <1>2, <2>1 DEF Counts
<1>5. log2[j].passed =>
          \A i \in 1 .. j : Orderly(log2, i, j) =>
              Cardinality({k \in i .. j : Counts(log2, k, log2[j].time, log2[j].limit.window)})
                  <= log2[j].limit.max
      BY <1>1, <1>2, <1>3 DEF KeepsLimitAt
<1>6. log2[j].held =>
          Cardinality({k \in 1 .. (j - 1) : Counts(log2, k, log2[j].time, log2[j].limit.window)})
              >= log2[j].limit.max
      BY <1>2, <1>4 DEF KeepsLimitAt
<1> QED BY <1>5, <1>6 DEF KeepsLimitAt

\* A window has as many places as the log has entries it stems from.
LEMMA StemsCount ==
    ASSUME NEW n \in Nat, NEW m \in Nat, NEW p \in [1 .. m -> 1 .. n],
           \A a, b \in 1 .. m : p[a] = p[b] => a = b
    PROVE  LET from == {p[a] : a \in 1 .. m}
           IN  Cardinality(from) = m /\ IsFiniteSet(from)
<1>1. PICK from : from = {p[a] : a \in 1 .. m}
      OBVIOUS
<1>2. p \in Bijection(1 .. m, from)
      BY <1>1 DEF Bijection, Injection, IsInjective, Surjection
<1>3. Cardinality(from) = m
      BY <1>2, FS_CountingElements DEF ExistsBijection
<1>4. IsFiniteSet(from)
      BY <1>2, FS_NatBijection DEF ExistsBijection
<1> QED BY <1>1, <1>3, <1>4

\* w2 is what is left of w from the time `cut` on, by the entries they stem from.
Trimmed(p2, w2, p, w, log, cut) ==
    /\ Stems(p2, w2, log)
    /\ \A a \in 1 .. Len(w2) : w2[a] >= cut
    /\ \A a \in 1 .. Len(w) : w[a] >= cut => \E b \in 1 .. Len(w2) : p2[b] = p[a]

\* Trimming keeps the places of the window that are recent enough.
LEMMA TrimStems ==
    ASSUME NEW w \in Seq(Int), NEW log, IsSequence(log), NEW p, Stems(p, w, log),
           NEW now \in Int, NEW length \in Int
    PROVE  LET w2 == Trim(w, now, length)
           IN  w2 \in Seq(Int) /\ \E p2 : Trimmed(p2, w2, p, w, log, now - length)
<1>1. PICK w2 : w2 = Trim(w, now, length)
      OBVIOUS
<1>2. PICK n \in Nat : n = Len(w)
      OBVIOUS
<1>3. PICK Q : Q = {a \in 1 .. n : w[a] >= now - length}
      OBVIOUS
<1>4. w2 = Picked(w, Q)
  <2>1. DOMAIN w = 1 .. n
        BY <1>2
  <2> QED BY <1>1, <1>3, <2>1 DEF Trim, Filter
<1>5. Q \in SUBSET (1 .. n)
      BY <1>3
<1>6. PICK m \in Nat : m = Cardinality(Q)
      BY <1>5, RankFacts
<1>7. PICK q : Enumerates(q, m, Q) /\ w2 = Along(w, q, m)
      BY <1>4, <1>5, <1>6, PickedFacts
<1>8. /\ q \in [1 .. m -> Q]
      /\ \A k, l \in 1 .. m : k < l => q[k] < q[l]
      /\ \A i \in Q : \E k \in 1 .. m : q[k] = i
      BY <1>7 DEF Enumerates
<1>9. w2 \in Seq(Int) /\ Len(w2) = m
      BY <1>2, <1>4, <1>5, <1>6, PickedType
<1>10. \A b \in 1 .. m : q[b] \in 1 .. n /\ w2[b] = w[q[b]] /\ w[q[b]] >= now - length
      BY <1>3, <1>7, <1>8 DEF Along
<1>11. /\ p \in [1 .. n -> 1 .. Len(log)]
       /\ \A a, b \in 1 .. n : p[a] = p[b] => a = b
       /\ \A a \in 1 .. n : w[a] = log[p[a]].time /\ log[p[a]].counted
      BY <1>2 DEF Stems
<1>12. PICK p2 : p2 = [b \in 1 .. m |-> p[q[b]]]
      OBVIOUS
<1>13. p2 \in [1 .. m -> 1 .. Len(log)]
      BY <1>10, <1>11, <1>12
<1>14. ASSUME NEW a \in 1 .. m, NEW b \in 1 .. m, p2[a] = p2[b] PROVE a = b
  <2>1. q[a] = q[b]
        BY <1>10, <1>11, <1>12, <1>14
  <2>2. q[a] \in Nat /\ q[b] \in Nat
        BY <1>10
  <2> QED BY <1>8, <2>1, <2>2
<1>15. ASSUME NEW a \in 1 .. m PROVE w2[a] = log[p2[a]].time /\ log[p2[a]].counted
      BY <1>10, <1>11, <1>12
<1>16. Stems(p2, w2, log)
      BY <1>9, <1>13, <1>14, <1>15 DEF Stems
<1>17. \A b \in 1 .. Len(w2) : w2[b] >= now - length
      BY <1>9, <1>10
<1>18. ASSUME NEW a \in 1 .. Len(w), w[a] >= now - length
       PROVE  \E b \in 1 .. Len(w2) : p2[b] = p[a]
  <2>1. PICK b \in 1 .. m : q[b] = a
        BY <1>2, <1>3, <1>8, <1>18
  <2> QED BY <1>9, <1>12, <2>1
<1>19. Trimmed(p2, w2, p, w, log, now - length)
      BY <1>16, <1>17, <1>18 DEF Trimmed
<1> QED BY <1>1, <1>9, <1>19

\* The part of an orderly run before its last entry is orderly, and nothing
\* that counts at the end of the run had stopped to count before.
LEMMA OrderlyBefore ==
    ASSUME NEW log, NEW log2, NEW n \in Nat, NEW i \in 1 .. n, NEW k \in i .. n,
           \A x \in 1 .. n + 1 : EntryOK(log2[x]),
           \A x \in 1 .. n : log2[x] = log[x],
           Orderly(log2, i, n + 1),
           Counts(log2, k, log2[n + 1].time, log2[n + 1].limit.window)
    PROVE  /\ Orderly(log, i, n)
           /\ Counts(log, k, log[n].time, log[n].limit.window)
<1>1. /\ n \in i .. n /\ n \in i .. n + 1 /\ n \in 1 .. n /\ n < n + 1
      /\ k \in i .. n + 1 /\ k \in 1 .. n
      OBVIOUS
<1>2. \A x \in i .. n + 1 : log2[x].limit = log2[n + 1].limit
      BY DEF Orderly
<1>3. ASSUME NEW x \in i .. n, x < n PROVE log[x].time <= log[x + 1].time
  <2>1. x \in i .. n + 1 /\ x < n + 1 /\ x \in 1 .. n /\ x + 1 \in 1 .. n
        BY <1>3
  <2>2. log2[x].time <= log2[x + 1].time
        BY <2>1 DEF Orderly
  <2> QED BY <2>1, <2>2
<1>4. ASSUME NEW x \in i .. n PROVE log[x].limit = log[n].limit
  <2>1. x \in i .. n + 1 /\ x \in 1 .. n
        OBVIOUS
  <2> QED BY <1>1, <1>2, <2>1
<1>5. Orderly(log, i, n)
      BY <1>3, <1>4 DEF Orderly
<1>6. log2[n].time <= log2[n + 1].time
      BY <1>1 DEF Orderly
<1>7. log[n] = log2[n] /\ log[k] = log2[k]
      BY <1>1
<1>8. log[n].limit = log2[n + 1].limit
      BY <1>1, <1>2, <1>7
<1>9. log2[k].counted /\ log2[k].time >= log2[n + 1].time - log2[n + 1].limit.window
      BY DEF Counts
<1>10. /\ log2[k].time \in Int /\ log2[n].time \in Int /\ log2[n + 1].time \in Int
       /\ log2[n + 1].limit.window \in Int
  <2>1. k \in 1 .. n + 1 /\ n \in 1 .. n + 1 /\ n + 1 \in 1 .. n + 1
        OBVIOUS
  <2> QED BY <2>1 DEF EntryOK
<1>11. log2[k].time >= log2[n].time - log2[n + 1].limit.window
      BY <1>6, <1>9, <1>10
<1> QED BY <1>5, <1>7, <1>8, <1>9, <1>11 DEF Counts

\* One more request: the window is trimmed, and takes the request if it is
\* counted.  Who passes found room, who is held up found none.
LEMMA WindowStep ==
    ASSUME NEW w, NEW log, WindowOK(w, log), NEW e, EntryOK(e),
           NEW w2, w2 = Trim(w, e.time, e.limit.window),
           NEW w3, w3 = IF e.counted THEN Append(w2, e.time) ELSE w2,
           e.passed => e.counted /\ Len(w2) < e.limit.max,
           e.held => Len(w2) >= e.limit.max
    PROVE  WindowOK(w3, Append(log, e))
<1>1. /\ w \in Seq(Int) /\ IsSequence(log) /\ \A k \in 1 .. Len(log) : EntryOK(log[k])
      /\ \A j \in 1 .. Len(log) : KeepsLimitAt(log, j)
      BY DEF WindowOK
<1>2. PICK p : Stems(p, w, log) /\ Retains(p, w, log)
      BY DEF WindowOK
<1>3. PICK n \in Nat : n = Len(log)
      BY <1>1, SequenceFacts
<1>4. PICK log2 : log2 = Append(log, e)
      OBVIOUS
<1>5. /\ IsSequence(log2) /\ Len(log2) = n + 1
      /\ \A k \in 1 .. n : log2[k] = log[k]
      /\ log2[n + 1] = e
      BY <1>1, <1>3, <1>4, AppendFacts
<1>6. \A k \in 1 .. n + 1 : EntryOK(log2[k])
      BY <1>1, <1>3, <1>5
<1>7. e.time \in Int /\ e.limit.window \in Int /\ e.limit.max \in Nat
      BY DEF EntryOK
<1>8. w2 \in Seq(Int) /\ \E x : Trimmed(x, w2, p, w, log, e.time - e.limit.window)
      BY <1>1, <1>2, <1>7, TrimStems
<1>20. PICK p2 : Trimmed(p2, w2, p, w, log, e.time - e.limit.window)
      BY <1>8
<1>9. /\ Stems(p2, w2, log)
      /\ \A a \in 1 .. Len(w2) : w2[a] >= e.time - e.limit.window
      /\ \A a \in 1 .. Len(w) : w[a] >= e.time - e.limit.window =>
             \E b \in 1 .. Len(w2) : p2[b] = p[a]
      BY <1>20 DEF Trimmed
<1>10. PICK m \in Nat : m = Len(w2)
      BY <1>8
<1>11. /\ p2 \in [1 .. m -> 1 .. n]
       /\ \A a, b \in 1 .. m : p2[a] = p2[b] => a = b
       /\ \A a \in 1 .. m : w2[a] = log[p2[a]].time /\ log[p2[a]].counted
      BY <1>3, <1>9, <1>10 DEF Stems
<1>12. ASSUME NEW i \in 1 .. n + 1, NEW k \in i .. n + 1, k # n + 1, Orderly(log2, i, n + 1),
              Counts(log2, k, e.time, e.limit.window)
       PROVE  \E b \in 1 .. m : p2[b] = k
  <2>1. i \in 1 .. n /\ k \in i .. n /\ k \in 1 .. n
        BY <1>12
  <2>2. Orderly(log, i, n) /\ Counts(log, k, log[n].time, log[n].limit.window)
        BY <1>5, <1>6, <1>12, <2>1, OrderlyBefore
  <2>3. PICK a \in 1 .. Len(w) : p[a] = k
        BY <1>2, <1>3, <2>1, <2>2 DEF Retains
  <2>4. w[a] = log2[k].time
        BY <1>2, <1>5, <2>1, <2>3 DEF Stems
  <2>5. w[a] >= e.time - e.limit.window
        BY <1>12, <2>4 DEF Counts
  <2> QED BY <1>9, <1>10, <2>3, <2>5
<1>13. \A j \in 1 .. n : KeepsLimitAt(log2, j)
  <2>1. ASSUME NEW j \in 1 .. n PROVE KeepsLimitAt(log2, j)
    <3>1. j \in Nat /\ j >= 1 /\ KeepsLimitAt(log, j)
          BY <1>1, <1>3
    <3>2. \A k \in 1 .. j : log2[k] = log[k]
          BY <1>5
    <3> QED BY <3>1, <3>2, PrefixKeeps
  <2> QED BY <2>1
<1>14. ASSUME e.held
       PROVE  Cardinality({k \in 1 .. n : Counts(log2, k, e.time, e.limit.window)}) >= e.limit.max
  <2>1. PICK A : A = {p2[a] : a \in 1 .. m}
        OBVIOUS
  <2>2. Cardinality(A) = m
        BY <1>11, <2>1, StemsCount
  <2>3. PICK B : B = {k \in 1 .. n : Counts(log2, k, e.time, e.limit.window)}
        OBVIOUS
  <2>4. ASSUME NEW a \in 1 .. m PROVE p2[a] \in B
    <3>1. p2[a] \in 1 .. n /\ log2[p2[a]] = log[p2[a]]
          BY <1>5, <1>11
    <3>2. log[p2[a]].counted /\ log[p2[a]].time >= e.time - e.limit.window
          BY <1>9, <1>10, <1>11
    <3> QED BY <2>3, <3>1, <3>2 DEF Counts
  <2>5. A \in SUBSET B
        BY <2>1, <2>4
  <2>6. B \in SUBSET (1 .. n)
        BY <2>3
  <2>7. IsFiniteSet(B) /\ Cardinality(B) \in Nat
        BY <2>6, RankFacts
  <2>8. Cardinality(A) <= Cardinality(B)
        BY <2>5, <2>7, FS_Subset
  <2>9. m >= e.limit.max
        BY <1>10, <1>14
  <2> QED BY <1>7, <2>2, <2>3, <2>7, <2>8, <2>9
<1>15. CASE ~e.counted
  <2>1. w3 = w2 /\ ~e.passed
        BY <1>15
  <2>2. Stems(p2, w2, log2)
    <3>1. p2 \in [1 .. m -> 1 .. n + 1]
          BY <1>11
    <3>2. \A a \in 1 .. m : w2[a] = log2[p2[a]].time /\ log2[p2[a]].counted
          BY <1>5, <1>11
    <3> QED BY <1>5, <1>10, <1>11, <3>1, <3>2 DEF Stems
  <2>3. Retains(p2, w2, log2)
    <3>1. ASSUME NEW i \in 1 .. n + 1, NEW k \in i .. n + 1, Orderly(log2, i, n + 1),
                 Counts(log2, k, e.time, e.limit.window)
          PROVE  \E b \in 1 .. m : p2[b] = k
      <4>1. k # n + 1
            BY <1>5, <1>15, <3>1 DEF Counts
      <4> QED BY <1>12, <3>1, <4>1
    <3> QED BY <1>5, <1>10, <3>1 DEF Retains
  <2>4. KeepsLimitAt(log2, n + 1)
    <3>1. n + 1 - 1 = n
          OBVIOUS
    <3> QED BY <1>5, <1>14, <2>1, <3>1 DEF KeepsLimitAt
  <2>5. \A j \in 1 .. n + 1 : KeepsLimitAt(log2, j)
    <3>1. \A j \in 1 .. n + 1 : j \in 1 .. n \/ j = n + 1
          OBVIOUS
    <3> QED BY <1>13, <2>4, <3>1
  <2> QED BY <1>4, <1>5, <1>6, <1>8, <2>1, <2>2, <2>3, <2>5 DEF WindowOK
<1>16. CASE e.counted
  <2>1. w3 = Append(w2, e.time)
        BY <1>16
  <2>2. /\ w3 \in Seq(Int) /\ Len(w3) = m + 1 /\ w3[m + 1] = e.time
        /\ \A a \in 1 .. m : w3[a] = w2[a]
        BY <1>7, <1>8, <1>10, <2>1
  <2>3. PICK p3 : p3 = [a \in 1 .. m + 1 |-> IF a = m + 1 THEN n + 1 ELSE p2[a]]
        OBVIOUS
  <2>4. p3[m + 1] = n + 1 /\ \A a \in 1 .. m : p3[a] = p2[a] /\ p3[a] \in 1 .. n
        BY <1>11, <2>3
  <2>5. \A a \in 1 .. m + 1 : a \in 1 .. m \/ a = m + 1
        OBVIOUS
  <2>6. p3 \in [1 .. m + 1 -> 1 .. n + 1]
    <3>1. \A a \in 1 .. m + 1 : p3[a] \in 1 .. n + 1
          BY <2>4, <2>5
    <3> QED BY <2>3, <3>1
  <2>7. \A a, b \in 1 .. m + 1 : p3[a] = p3[b] => a = b
    <3>1. n + 1 \notin 1 .. n
          OBVIOUS
    <3> QED BY <1>11, <2>4, <2>5, <3>1
  <2>8. ASSUME NEW a \in 1 .. m + 1 PROVE w3[a] = log2[p3[a]].time /\ log2[p3[a]].counted
    <3>1. CASE a = m + 1
      <4>1. w3[a] = e.time /\ log2[p3[a]] = e
            BY <1>5, <2>2, <2>4, <3>1
      <4> QED BY <1>16, <4>1
    <3>2. CASE a \in 1 .. m
      <4>1. w3[a] = w2[a] /\ p3[a] = p2[a] /\ log2[p2[a]] = log[p2[a]]
            BY <1>5, <1>11, <2>2, <2>4, <3>2
      <4> QED BY <1>11, <3>2, <4>1
    <3> QED BY <2>5, <3>1, <3>2
  <2>9. Stems(p3, w3, log2)
        BY <1>5, <2>2, <2>6, <2>7, <2>8 DEF Stems
  <2>10. ASSUME NEW i \in 1 .. n + 1, NEW k \in i .. n + 1, Orderly(log2, i, n + 1),
                 Counts(log2, k, e.time, e.limit.window)
         PROVE  \E b \in 1 .. m + 1 : p3[b] = k
    <3>1. CASE k = n + 1
      <4>1. m + 1 \in 1 .. m + 1
            OBVIOUS
      <4> QED BY <2>4, <3>1, <4>1
    <3>2. CASE k # n + 1
      <4>1. PICK b \in 1 .. m : p2[b] = k
            BY <1>12, <2>10, <3>2
      <4>2. b \in 1 .. m + 1 /\ p3[b] = k
            BY <2>4, <4>1
      <4> QED BY <4>2
    <3> QED BY <3>1, <3>2
  <2>11. Retains(p3, w3, log2)
        BY <1>5, <2>2, <2>10 DEF Retains
  <2>12. ASSUME e.passed, NEW i \in 1 .. n + 1, Orderly(log2, i, n + 1)
         PROVE  Cardinality({k \in i .. n + 1 : Counts(log2, k, e.time, e.limit.window)}) <= e.limit.max
    <3>1. PICK A : A = {p3[a] : a \in 1 .. m + 1}
          OBVIOUS
    <3>2. Cardinality(A) = m + 1 /\ IsFiniteSet(A)
      <4>1. PICK M \in Nat : M = m + 1
            OBVIOUS
      <4>2. PICK N \in Nat : N = n + 1
            OBVIOUS
      <4>3. p3 \in [1 .. M -> 1 .. N] /\ \A a, b \in 1 .. M : p3[a] = p3[b] => a = b
            BY <2>6, <2>7, <4>1, <4>2
      <4>4. A = {p3[a] : a \in 1 .. M}
            BY <3>1, <4>1
      <4>5. Cardinality(A) = M /\ IsFiniteSet(A)
            BY <4>3, <4>4, StemsCount
      <4> QED BY <4>1, <4>5
    <3>3. PICK B : B = {k \in i .. n + 1 : Counts(log2, k, e.time, e.limit.window)}
          OBVIOUS
    <3>4. B \in SUBSET A
          BY <2>10, <2>12, <3>1, <3>3
    <3>5. IsFiniteSet(B) /\ Cardinality(B) <= Cardinality(A)
          BY <3>2, <3>4, FS_Subset
    <3>6. Cardinality(B) \in Nat
          BY <3>5, FS_CardinalityType
    <3>7. m < e.limit.max
          BY <1>10, <2>12
    <3> QED BY <1>7, <3>2, <3>3, <3>5, <3>6, <3>7
  <2>13. KeepsLimitAt(log2, n + 1)
    <3>1. n + 1 - 1 = n
          OBVIOUS
    <3> QED BY <1>5, <1>14, <2>12, <3>1 DEF KeepsLimitAt
  <2>14. \A j \in 1 .. n + 1 : KeepsLimitAt(log2, j)
    <3>1. \A j \in 1 .. n + 1 : j \in 1 .. n \/ j = n + 1
          OBVIOUS
    <3> QED BY <1>13, <2>13, <3>1
  <2> QED BY <1>4, <1>5, <1>6, <2>2, <2>9, <2>11, <2>14 DEF WindowOK
<1> QED BY <1>15, <1>16

-----------------------------------------------------------------------------
(* The inductive invariant.                                                  *)

\* accepted is the log of decisions and then the queue, by id.
QueueOrdered(log, requests, acc) ==
    /\ IsSequence(log) /\ IsSequence(requests) /\ IsSequence(acc)
    /\ \A k \in 1 .. Len(requests) : requests[k].time \in Int
    /\ Len(acc) = Len(log) + Len(requests)
    /\ \A k \in 1 .. Len(log) : acc[k] = log[k].id
    /\ \A k \in 1 .. Len(requests) : acc[Len(log) + k] = requests[k].id

\* The events h, numbered without a gap up to n, tell of what was accepted, but
\* for the request route is still at.
EventsOrdered(h, n, at, acc) ==
    /\ IsSequence(h) /\ n \in Nat /\ Len(h) = n /\ IsSequence(acc)
    /\ \A k \in 1 .. n : h[k].sequence = k /\ h[k].payload = acc[k]
    /\ at = NoRequest => Len(acc) = n
    /\ at # NoRequest => Len(acc) = n + 1 /\ acc[n + 1] = at.id

\* The reader has the beginning of the events.
ReaderBehind(got, h) ==
    /\ IsSequence(got) /\ Len(got) <= Len(h)
    /\ \A k \in 1 .. Len(got) : got[k] = h[k]

\* A session and what was heard of it: its timeout runs from the last it sent,
\* which is the latest unless one arrived out of order.
SessionOK(session, beat) ==
    /\ session \in [timeout : Int, last : Int, live : BOOLEAN]
    /\ beat \in [heard : Seq(Int), ended : Seq(Int)]
    /\ Len(beat.heard) >= 1 /\ beat.heard[Len(beat.heard)] = session.last
    /\ \/ \E k \in 2 .. Len(beat.heard) : beat.heard[k] < beat.heard[k - 1]
       \/ \A k \in 1 .. Len(beat.heard) : beat.heard[k] <= session.last
    /\ session.live <=> beat.ended = Open
    /\ ~session.live => Len(beat.ended) = 1 /\ beat.ended[1] - session.last > session.timeout

SessionsOK(all, heard) ==
    /\ DOMAIN heard = DOMAIN all
    /\ \A s \in DOMAIN all : SessionOK(all[s], heard[s])

LimitOK(limit) == limit.max \in Nat /\ limit.window \in Int

\* The windows of the users match their arrivals.
UserWindowsOK(limit, window, log) ==
    /\ \A u \in DOMAIN limit : LimitOK(limit[u])
    /\ DOMAIN window = DOMAIN log
    /\ \A u \in DOMAIN log : WindowOK(window[u], log[u])

\* What the windows of the risk engine see of a decision, and of the log.
Judgement(d) ==
    [time |-> d.time, limit |-> d.limit, counted |-> TRUE,
     passed |-> d.reason = "none", held |-> d.reason = "rate_limited"]
IsJudged(d, key) == d.key = key /\ d.reason # "invalid_request"
JudgedPlaces(log, key) == {k \in DOMAIN log : IsJudged(log[k], key)}
JudgedIn(log, key) ==
    LET entries == Picked(log, JudgedPlaces(log, key))
    IN  [k \in DOMAIN entries |-> Judgement(entries[k])]
WindowIn(window, key) == IF key \in DOMAIN window THEN window[key] ELSE << >>

\* The windows of the risk engine match its log.
RiskWindowsOK(limit, window, log) ==
    /\ LimitOK(limit)
    /\ \A key : WindowOK(WindowIn(window, key), JudgedIn(log, key))

HistoryIn(h) == IF Topic \in DOMAIN h THEN h[Topic] ELSE << >>

IngressInv ==
    /\ calls \in Nat
    /\ QueueOrdered(auditLog, ingress, accepted)
    /\ EventsOrdered(HistoryIn(history), nextSequence, publishing, accepted)
    /\ ReaderBehind(seen, HistoryIn(history))
    /\ SessionsOK(sessions, beats)
    /\ UserWindowsOK(limits, windows, arrivals)
    /\ RiskWindowsOK(riskLimit, riskWindows, auditLog)

-----------------------------------------------------------------------------
(* What the invariant says.                                                  *)

\* Judged is what the windows see.
LEMMA JudgedIsJudgedIn ==
    ASSUME NEW key
    PROVE  Judged(key) = JudgedIn(auditLog, key)
  BY DEF Judged, JudgedIn, JudgedPlaces, IsJudged, Judgement, Filter

\* The rate limits.
LEMMA InvKeepsLimits == IngressInv => RateLimitsHonoured
<1> SUFFICES ASSUME IngressInv PROVE RateLimitsHonoured
    OBVIOUS
<1>1. ASSUME NEW user \in DOMAIN arrivals PROVE KeepsLimit(arrivals[user])
  <2>1. WindowOK(windows[user], arrivals[user])
        BY DEF IngressInv, UserWindowsOK
  <2> QED BY <2>1, KeepsLimitHolds
<1>2. ASSUME NEW key \in DOMAIN riskWindows PROVE KeepsLimit(Judged(key))
  <2>1. WindowOK(WindowIn(riskWindows, key), JudgedIn(auditLog, key))
        BY DEF IngressInv, RiskWindowsOK
  <2>2. KeepsLimit(JudgedIn(auditLog, key))
        BY <2>1, KeepsLimitHolds
  <2> QED BY <2>2, JudgedIsJudgedIn
<1> QED BY <1>1, <1>2 DEF RateLimitsHonoured

\* The sessions.
LEMMA InvEndsSessions == IngressInv => SessionsEndBySilence
<1> SUFFICES ASSUME IngressInv, NEW s \in DOMAIN sessions
             PROVE  LET heard == beats[s].heard
                    IN  /\ sessions[s].live <=> beats[s].ended = Open
                        /\ ~sessions[s].live =>
                              \/ \E k \in 2 .. Len(heard) : heard[k] < heard[k - 1]
                              \/ \A k \in DOMAIN heard :
                                    Head(beats[s].ended) - heard[k] > sessions[s].timeout
    BY DEF SessionsEndBySilence
<1>1. PICK session : session = sessions[s]
      OBVIOUS
<1>2. PICK beat : beat = beats[s]
      OBVIOUS
<1>3. SessionOK(session, beat)
      BY <1>1, <1>2 DEF IngressInv, SessionsOK
<1>4. /\ session.timeout \in Int /\ session.last \in Int
      /\ beat.heard \in Seq(Int) /\ beat.ended \in Seq(Int)
      BY <1>3 DEF SessionOK
<1>5. session.live <=> beat.ended = Open
      BY <1>3 DEF SessionOK
<1>6. ASSUME ~session.live, ~(\E k \in 2 .. Len(beat.heard) : beat.heard[k] < beat.heard[k - 1]),
             NEW k \in DOMAIN beat.heard
      PROVE  Head(beat.ended) - beat.heard[k] > session.timeout
  <2>1. Len(beat.ended) = 1 /\ beat.ended[1] - session.last > session.timeout
        BY <1>3, <1>6 DEF SessionOK
  <2>2. \A x \in 1 .. Len(beat.heard) : beat.heard[x] <= session.last
        BY <1>3, <1>6 DEF SessionOK
  <2>3. k \in 1 .. Len(beat.heard) /\ beat.heard[k] \in Int
        BY <1>4
  <2>4. beat.heard[k] <= session.last
        BY <2>2, <2>3
  <2>5. Head(beat.ended) = beat.ended[1] /\ beat.ended[1] \in Int
        BY <1>4, <2>1
  <2> QED BY <1>4, <2>1, <2>3, <2>4, <2>5
<1> QED BY <1>1, <1>2, <1>5, <1>6

\* The order.
LEMMA InvKeepsOrder == IngressInv => IngressOrder
<1> SUFFICES ASSUME IngressInv PROVE IngressOrder
    OBVIOUS
<1>1. PICK decided : decided = [k \in DOMAIN auditLog |-> auditLog[k].id]
      OBVIOUS
<1>2. PICK queued : queued = [k \in DOMAIN ingress |-> ingress[k].id]
      OBVIOUS
<1>3. PICK h : h = HistoryOf(Topic)
      OBVIOUS
<1>4. PICK told : told = [k \in DOMAIN h |-> h[k].payload]
      OBVIOUS
<1>5. QueueOrdered(auditLog, ingress, accepted)
      BY DEF IngressInv
<1>6. EventsOrdered(h, nextSequence, publishing, accepted) /\ ReaderBehind(seen, h)
      BY <1>3 DEF IngressInv, HistoryIn, HistoryOf
<1>7. PICK a \in Nat : a = Len(auditLog) /\ DOMAIN auditLog = 1 .. a
      BY <1>5, SequenceFacts DEF QueueOrdered
<1>8. PICK b \in Nat : b = Len(ingress) /\ DOMAIN ingress = 1 .. b
      BY <1>5, SequenceFacts DEF QueueOrdered
<1>9. IsSequence(decided) /\ Len(decided) = a
      BY <1>1, <1>7, FunctionSequence
<1>10. IsSequence(queued) /\ Len(queued) = b
      BY <1>2, <1>8, FunctionSequence
<1>11. decided \o queued = accepted
  <2>1. PICK both : both = decided \o queued
        OBVIOUS
  <2>2. /\ IsSequence(both) /\ Len(both) = a + b
        /\ \A k \in 1 .. a : both[k] = decided[k]
        /\ \A k \in 1 .. b : both[a + k] = queued[k]
    <3>1. /\ IsSequence(both) /\ Len(both) = Len(decided) + Len(queued)
          /\ \A k \in 1 .. Len(decided) : both[k] = decided[k]
          /\ \A k \in 1 .. Len(queued) : both[Len(decided) + k] = queued[k]
      <4>1. IsSequence(decided) /\ IsSequence(queued) /\ both = decided \o queued
            BY <1>9, <1>10, <2>1
      <4> QED BY <4>1, ConcatFacts
    <3> QED BY <1>9, <1>10, <3>1
  <2>3. /\ IsSequence(accepted) /\ Len(accepted) = a + b
        /\ \A k \in 1 .. a : accepted[k] = decided[k]
        /\ \A k \in 1 .. b : accepted[a + k] = queued[k]
        BY <1>1, <1>2, <1>5, <1>7, <1>8 DEF QueueOrdered
  <2>4. ASSUME NEW k \in 1 .. a + b PROVE both[k] = accepted[k]
    <3>1. CASE k \in 1 .. a
          BY <2>2, <2>3, <3>1
    <3>2. CASE k \notin 1 .. a
      <4>1. k - a \in 1 .. b /\ a + (k - a) = k
            BY <3>2
      <4> QED BY <2>2, <2>3, <4>1
    <3> QED BY <3>1, <3>2
  <2> QED BY <2>1, <2>2, <2>3, <2>4, SequencesEqual
<1>12. PICK n \in Nat : n = nextSequence /\ n = Len(h) /\ DOMAIN h = 1 .. n
      BY <1>6, SequenceFacts DEF EventsOrdered
<1>13. /\ IsSequence(told) /\ Len(told) = n
       /\ IsSequence(accepted) /\ \A k \in 1 .. n : told[k] = accepted[k]
      BY <1>4, <1>6, <1>12, FunctionSequence DEF EventsOrdered
<1>14. told \o (IF Idle THEN << >> ELSE <<publishing.id>>) = accepted
  <2>1. CASE Idle
    <3>1. Len(accepted) = n
          BY <1>6, <1>12, <2>1 DEF EventsOrdered, Idle
    <3>2. told = accepted
          BY <1>13, <3>1, SequencesEqual
    <3>3. PICK T : told \in Seq(T)
          BY <1>13 DEF IsSequence
    <3>4. told \o << >> = told
          BY <3>3
    <3> QED BY <2>1, <3>2, <3>4
  <2>2. CASE ~Idle
    <3>1. Len(accepted) = n + 1 /\ accepted[n + 1] = publishing.id
          BY <1>6, <1>12, <2>2 DEF EventsOrdered, Idle
    <3>2. PICK T : told \in Seq(T)
          BY <1>13 DEF IsSequence
    <3>3. PICK last : last = publishing.id
          OBVIOUS
    <3>4. told \in Seq(T \cup {last}) /\ <<last>> \in Seq(T \cup {last}) /\ Len(<<last>>) = 1
          BY <3>2
    <3>5. IsSequence(<<last>>)
          BY <3>4 DEF IsSequence
    <3>6. PICK both : both = told \o <<last>>
          OBVIOUS
    <3>7. /\ IsSequence(both) /\ Len(both) = n + 1
          /\ \A k \in 1 .. n : both[k] = told[k]
          /\ \A k \in 1 .. 1 : both[n + k] = <<last>>[k]
      <4>1. PICK one : one = <<last>>
            OBVIOUS
      <4>2. IsSequence(told) /\ IsSequence(one) /\ both = told \o one
            BY <1>13, <3>5, <3>6, <4>1
      <4>3. /\ IsSequence(both) /\ Len(both) = Len(told) + Len(one)
            /\ \A k \in 1 .. Len(told) : both[k] = told[k]
            /\ \A k \in 1 .. Len(one) : both[Len(told) + k] = one[k]
            BY <4>2, ConcatFacts
      <4>4. Len(one) = 1
            BY <3>4, <4>1
      <4> QED BY <1>13, <4>1, <4>3, <4>4
    <3>8. both[n + 1] = last
          BY <3>7
    <3>9. \A k \in 1 .. n + 1 : both[k] = accepted[k]
      <4>1. \A k \in 1 .. n + 1 : k \in 1 .. n \/ k = n + 1
            OBVIOUS
      <4> QED BY <1>13, <3>1, <3>3, <3>7, <3>8, <4>1
    <3>10. both = accepted
          BY <1>13, <3>1, <3>7, <3>9, SequencesEqual
    <3> QED BY <2>2, <3>3, <3>6, <3>10
  <2> QED BY <2>1, <2>2
<1>15. IsPrefix(seen, h)
  <2>1. PICK m \in Nat : m = Len(seen)
        BY <1>6, SequenceFacts DEF ReaderBehind
  <2>2. m <= n /\ \A k \in 1 .. m : seen[k] = h[k]
        BY <1>6, <1>12, <2>1 DEF ReaderBehind
  <2>3. SubSeq(seen, 1, m) = [k \in 1 .. m |-> seen[k]]
    <3>1. PICK T : seen \in Seq(T)
          BY <1>6 DEF ReaderBehind, IsSequence
    <3> QED BY <2>1, <3>1
  <2>4. SubSeq(h, 1, m) = [k \in 1 .. m |-> h[k]]
    <3>1. PICK T : h \in Seq(T)
          BY <1>6 DEF EventsOrdered, IsSequence
    <3> QED BY <1>12, <2>2, <3>1
  <2>5. [k \in 1 .. m |-> seen[k]] = [k \in 1 .. m |-> h[k]]
        BY <2>2
  <2> QED BY <1>12, <2>1, <2>2, <2>3, <2>4, <2>5 DEF IsPrefix
<1> QED BY <1>1, <1>2, <1>3, <1>4, <1>11, <1>14, <1>15 DEF IngressOrder

-----------------------------------------------------------------------------
(* The steps.                                                                *)

\* A request is pushed.
LEMMA PushKeepsOrder ==
    ASSUME NEW log, NEW requests, NEW acc, QueueOrdered(log, requests, acc),
           NEW r, r.time \in Int
    PROVE  QueueOrdered(log, Append(requests, r), Append(acc, r.id))
<1>1. PICK a \in Nat : a = Len(log)
      BY SequenceFacts DEF QueueOrdered
<1>2. PICK b \in Nat : b = Len(requests)
      BY SequenceFacts DEF QueueOrdered
<1>3. PICK requests2 : requests2 = Append(requests, r)
      OBVIOUS
<1>4. PICK acc2 : acc2 = Append(acc, r.id)
      OBVIOUS
<1>5. /\ IsSequence(requests2) /\ Len(requests2) = b + 1
      /\ \A k \in 1 .. b : requests2[k] = requests[k]
      /\ requests2[b + 1] = r
      BY <1>2, <1>3, AppendFacts DEF QueueOrdered
<1>6. /\ IsSequence(acc2) /\ Len(acc2) = Len(acc) + 1
      /\ \A k \in 1 .. Len(acc) : acc2[k] = acc[k]
      /\ acc2[Len(acc) + 1] = r.id
      BY <1>4, AppendFacts DEF QueueOrdered
<1>7. /\ IsSequence(log) /\ Len(acc) = a + b
      /\ \A k \in 1 .. b : requests[k].time \in Int
      /\ \A k \in 1 .. a : acc[k] = log[k].id
      /\ \A k \in 1 .. b : acc[a + k] = requests[k].id
      BY <1>1, <1>2 DEF QueueOrdered
<1>8. \A k \in 1 .. b + 1 : k \in 1 .. b \/ k = b + 1
      OBVIOUS
<1>9. \A k \in 1 .. a : acc2[k] = log[k].id
  <2>1. \A k \in 1 .. a : k \in 1 .. a + b
        OBVIOUS
  <2> QED BY <1>6, <1>7, <2>1
<1>10. ASSUME NEW k \in 1 .. b + 1 PROVE acc2[a + k] = requests2[k].id
  <2>1. CASE k = b + 1
        BY <1>5, <1>6, <1>7, <2>1
  <2>2. CASE k \in 1 .. b
    <3>1. a + k \in 1 .. a + b
          BY <2>2
    <3> QED BY <1>5, <1>6, <1>7, <2>2, <3>1
  <2> QED BY <1>8, <2>1, <2>2
<1>11. \A k \in 1 .. b + 1 : requests2[k].time \in Int
      BY <1>5, <1>7, <1>8
<1>12. Len(acc2) = Len(log) + Len(requests2)
      BY <1>1, <1>5, <1>6, <1>7
<1> QED BY <1>1, <1>3, <1>4, <1>5, <1>6, <1>7, <1>9, <1>10, <1>11, <1>12 DEF QueueOrdered

\* A request is polled and decided.
LEMMA DecideKeepsOrder ==
    ASSUME NEW log, NEW requests, NEW acc, QueueOrdered(log, requests, acc),
           requests # << >>, NEW d, d.id = Head(requests).id
    PROVE  /\ QueueOrdered(Append(log, d), Tail(requests), acc)
           /\ Head(requests).time \in Int
<1>1. PICK a \in Nat : a = Len(log)
      BY SequenceFacts DEF QueueOrdered
<1>2. PICK b \in Nat : b = Len(requests)
      BY SequenceFacts DEF QueueOrdered
<1>3. PICK requests2 : requests2 = Tail(requests)
      OBVIOUS
<1>4. PICK log2 : log2 = Append(log, d)
      OBVIOUS
<1>5. /\ IsSequence(requests2) /\ b >= 1 /\ Len(requests2) = b - 1
      /\ Head(requests) = requests[1]
      /\ \A k \in 1 .. b - 1 : requests2[k] = requests[k + 1]
      BY <1>2, <1>3, TailFacts DEF QueueOrdered
<1>6. /\ IsSequence(log2) /\ Len(log2) = a + 1
      /\ \A k \in 1 .. a : log2[k] = log[k]
      /\ log2[a + 1] = d
      BY <1>1, <1>4, AppendFacts DEF QueueOrdered
<1>7. /\ IsSequence(acc) /\ Len(acc) = a + b
      /\ \A k \in 1 .. b : requests[k].time \in Int
      /\ \A k \in 1 .. a : acc[k] = log[k].id
      /\ \A k \in 1 .. b : acc[a + k] = requests[k].id
      BY <1>1, <1>2 DEF QueueOrdered
<1>8. 1 \in 1 .. b
      BY <1>5
<1>9. ASSUME NEW k \in 1 .. a + 1 PROVE acc[k] = log2[k].id
  <2>1. CASE k = a + 1
        BY <1>5, <1>6, <1>7, <1>8, <2>1
  <2>2. CASE k # a + 1
    <3>1. k \in 1 .. a
          BY <2>2
    <3> QED BY <1>6, <1>7, <3>1
  <2> QED BY <2>1, <2>2
<1>10. ASSUME NEW k \in 1 .. b - 1
       PROVE  acc[a + 1 + k] = requests2[k].id /\ requests2[k].time \in Int
  <2>1. k + 1 \in 1 .. b /\ a + 1 + k = a + (k + 1)
        OBVIOUS
  <2> QED BY <1>5, <1>7, <2>1
<1>11. Len(acc) = Len(log2) + Len(requests2)
      BY <1>5, <1>6, <1>7
<1>12. QueueOrdered(log2, requests2, acc)
      BY <1>5, <1>6, <1>7, <1>9, <1>10, <1>11 DEF QueueOrdered
<1> QED BY <1>3, <1>4, <1>5, <1>7, <1>8, <1>12

\* route comes from the push with a request to publish.
LEMMA PushKeepsEvents ==
    ASSUME NEW h, NEW n, NEW acc, EventsOrdered(h, n, NoRequest, acc),
           NEW at, at # NoRequest
    PROVE  EventsOrdered(h, n, at, Append(acc, at.id))
<1>1. PICK acc2 : acc2 = Append(acc, at.id)
      OBVIOUS
<1>2. /\ IsSequence(h) /\ n \in Nat /\ Len(h) = n /\ IsSequence(acc) /\ Len(acc) = n
      /\ \A k \in 1 .. n : h[k].sequence = k /\ h[k].payload = acc[k]
      BY DEF EventsOrdered
<1>3. /\ IsSequence(acc2) /\ Len(acc2) = n + 1
      /\ \A k \in 1 .. n : acc2[k] = acc[k]
      /\ acc2[n + 1] = at.id
      BY <1>1, <1>2, AppendFacts
<1> QED BY <1>1, <1>2, <1>3 DEF EventsOrdered

\* The event is published.
LEMMA PublishKeepsEvents ==
    ASSUME NEW h, NEW n, NEW acc, NEW at, EventsOrdered(h, n, at, acc), at # NoRequest,
           NEW m, m = [sequence |-> n + 1, payload |-> at.id]
    PROVE  EventsOrdered(Append(h, m), n + 1, NoRequest, acc)
<1>1. PICK h2 : h2 = Append(h, m)
      OBVIOUS
<1>2. /\ IsSequence(h) /\ n \in Nat /\ Len(h) = n /\ IsSequence(acc)
      /\ Len(acc) = n + 1 /\ acc[n + 1] = at.id
      /\ \A k \in 1 .. n : h[k].sequence = k /\ h[k].payload = acc[k]
      BY DEF EventsOrdered
<1>3. /\ IsSequence(h2) /\ Len(h2) = n + 1
      /\ \A k \in 1 .. n : h2[k] = h[k]
      /\ h2[n + 1] = m
      BY <1>1, <1>2, AppendFacts
<1>4. m.sequence = n + 1 /\ m.payload = at.id
      OBVIOUS
<1>5. ASSUME NEW k \in 1 .. n + 1 PROVE h2[k].sequence = k /\ h2[k].payload = acc[k]
  <2>1. CASE k = n + 1
        BY <1>2, <1>3, <1>4, <2>1
  <2>2. CASE k # n + 1
    <3>1. k \in 1 .. n
          BY <1>2, <2>2
    <3> QED BY <1>2, <1>3, <3>1
  <2> QED BY <2>1, <2>2
<1> QED BY <1>1, <1>2, <1>3, <1>5 DEF EventsOrdered

\* Events that are added do not disturb the reader.
LEMMA ReaderStaysBehind ==
    ASSUME NEW got, NEW h, ReaderBehind(got, h), IsSequence(h), NEW m
    PROVE  ReaderBehind(got, Append(h, m))
<1>1. PICK h2 : h2 = Append(h, m)
      OBVIOUS
<1>2. PICK n \in Nat : n = Len(h)
      BY SequenceFacts
<1>3. PICK g \in Nat : g = Len(got)
      BY SequenceFacts DEF ReaderBehind
<1>4. IsSequence(h2) /\ Len(h2) = n + 1 /\ \A k \in 1 .. n : h2[k] = h[k]
      BY <1>1, <1>2, AppendFacts
<1>5. IsSequence(got) /\ g <= n /\ \A k \in 1 .. g : got[k] = h[k]
      BY <1>2, <1>3 DEF ReaderBehind
<1>6. \A k \in 1 .. g : k \in 1 .. n
      BY <1>5
<1> QED BY <1>1, <1>3, <1>4, <1>5, <1>6 DEF ReaderBehind

\* The reader takes what came after the last event it has: no gap, no event
\* twice, because the events are numbered without a gap.
LEMMA ReplayKeepsReader ==
    ASSUME NEW got, NEW h, NEW n, NEW at, NEW acc, EventsOrdered(h, n, at, acc),
           ReaderBehind(got, h), NEW after,
           after = IF got = << >> THEN 0 ELSE got[Len(got)].sequence
    PROVE  ReaderBehind(got \o Picked(h, {k \in DOMAIN h : h[k].sequence > after}), h)
<1>1. /\ n \in Nat /\ Len(h) = n /\ DOMAIN h = 1 .. n
      /\ \A k \in 1 .. n : h[k].sequence = k
      BY SequenceFacts DEF EventsOrdered
<1>2. PICK g \in Nat : g = Len(got)
      BY SequenceFacts DEF ReaderBehind
<1>3. IsSequence(got) /\ g <= n /\ \A k \in 1 .. g : got[k] = h[k]
      BY <1>1, <1>2 DEF ReaderBehind
<1>4. after = g
  <2>1. CASE got = << >>
        BY <1>2, <2>1, EmptySequence
  <2>2. CASE got # << >>
    <3>1. g >= 1
          BY <1>2, <1>3, <2>2, TailFacts
    <3>2. g \in 1 .. g /\ g \in 1 .. n
          BY <1>3, <3>1
    <3> QED BY <1>1, <1>2, <1>3, <2>2, <3>2
  <2> QED BY <2>1, <2>2
<1>5. {k \in DOMAIN h : h[k].sequence > after} = (g + 1) .. n
  <2>1. \A k \in 1 .. n : h[k].sequence > after <=> k \in (g + 1) .. n
        BY <1>1, <1>4
  <2>2. \A k \in (g + 1) .. n : k \in 1 .. n
        OBVIOUS
  <2> QED BY <1>1, <2>1, <2>2
<1>6. PICK rest : rest = Picked(h, (g + 1) .. n)
      OBVIOUS
<1>7. PICK c \in Nat : c = n - g
      BY <1>1, <1>3
<1>8. rest = [k \in 1 .. c |-> h[g + k]]
      BY <1>1, <1>3, <1>6, <1>7, PickedInterval
<1>9. IsSequence(rest) /\ Len(rest) = c /\ \A k \in 1 .. c : rest[k] = h[g + k]
      BY <1>8, FunctionSequence
<1>10. PICK all : all = got \o rest
      OBVIOUS
<1>11. /\ IsSequence(all) /\ Len(all) = Len(got) + Len(rest)
       /\ \A k \in 1 .. Len(got) : all[k] = got[k]
       /\ \A k \in 1 .. Len(rest) : all[Len(got) + k] = rest[k]
  <2>1. IsSequence(got) /\ IsSequence(rest) /\ all = got \o rest
        BY <1>3, <1>9, <1>10
  <2> QED BY <2>1, ConcatFacts
<1>12. /\ Len(all) = n
       /\ \A k \in 1 .. g : all[k] = got[k]
       /\ \A k \in 1 .. c : all[g + k] = rest[k]
      BY <1>1, <1>2, <1>7, <1>9, <1>11
<1>13. ASSUME NEW k \in 1 .. n PROVE all[k] = h[k]
  <2>1. CASE k \in 1 .. g
        BY <1>3, <1>12, <2>1
  <2>2. CASE k \notin 1 .. g
    <3>1. k - g \in 1 .. c /\ g + (k - g) = k
          BY <1>1, <1>7, <2>2
    <3> QED BY <1>9, <1>12, <3>1
  <2> QED BY <2>1, <2>2
<1>14. ReaderBehind(all, h)
      BY <1>1, <1>11, <1>12, <1>13 DEF ReaderBehind
<1> QED BY <1>5, <1>6, <1>10, <1>14

\* A session as it is opened.
LEMMA NewSession ==
    ASSUME NEW timeout \in Int, NEW now \in Int,
           NEW session, session = [timeout |-> timeout, last |-> now, live |-> TRUE],
           NEW beat, beat = [heard |-> <<now>>, ended |-> Open]
    PROVE  SessionOK(session, beat)
<1>1. session \in [timeout : Int, last : Int, live : BOOLEAN] /\ session.live /\ session.last = now
      OBVIOUS
<1>2. /\ beat \in [heard : Seq(Int), ended : Seq(Int)]
      /\ beat.ended = Open /\ beat.heard = <<now>>
      BY DEF Open
<1>3. Len(<<now>>) = 1 /\ <<now>>[1] = now
      OBVIOUS
<1>4. \A k \in 1 .. 1 : <<now>>[k] <= now
      BY <1>3
<1> QED BY <1>1, <1>2, <1>3, <1>4 DEF SessionOK

\* A session that is opened, again or for the first time.
LEMMA OpenKeepsSessions ==
    ASSUME NEW all, NEW heard, SessionsOK(all, heard), NEW s,
           NEW timeout \in Int, NEW now \in Int
    PROVE  SessionsOK(With(all, s, [timeout |-> timeout, last |-> now, live |-> TRUE]),
                      With(heard, s, [heard |-> <<now>>, ended |-> Open]))
<1>1. PICK session : session = [timeout |-> timeout, last |-> now, live |-> TRUE]
      OBVIOUS
<1>2. PICK beat : beat = [heard |-> <<now>>, ended |-> Open]
      OBVIOUS
<1>3. SessionOK(session, beat)
      BY <1>1, <1>2, NewSession
<1>4. PICK all2 : all2 = With(all, s, session)
      OBVIOUS
<1>5. PICK heard2 : heard2 = With(heard, s, beat)
      OBVIOUS
<1>6. DOMAIN heard = DOMAIN all /\ \A x \in DOMAIN all : SessionOK(all[x], heard[x])
      BY DEF SessionsOK
<1>7. /\ DOMAIN all2 = DOMAIN all \cup {s}
      /\ \A x \in DOMAIN all \cup {s} : all2[x] = IF x = s THEN session ELSE all[x]
      BY <1>4 DEF With
<1>8. /\ DOMAIN heard2 = DOMAIN heard \cup {s}
      /\ \A x \in DOMAIN heard \cup {s} : heard2[x] = IF x = s THEN beat ELSE heard[x]
      BY <1>5 DEF With
<1>9. SessionsOK(all2, heard2)
      BY <1>3, <1>6, <1>7, <1>8 DEF SessionsOK
<1> QED BY <1>1, <1>2, <1>4, <1>5, <1>9

\* A heartbeat of a live session.
LEMMA HeartbeatKeepsSession ==
    ASSUME NEW session, NEW beat, SessionOK(session, beat), session.live, NEW now \in Int
    PROVE  SessionOK([session EXCEPT !.last = now],
                     [beat EXCEPT !.heard = Append(beat.heard, now)])
<1>1. /\ session \in [timeout : Int, last : Int, live : BOOLEAN]
      /\ beat \in [heard : Seq(Int), ended : Seq(Int)]
      BY DEF SessionOK
<1>2. PICK session2 : session2 = [session EXCEPT !.last = now]
      OBVIOUS
<1>3. PICK heard : heard = beat.heard
      OBVIOUS
<1>4. PICK heard2 : heard2 = Append(heard, now)
      OBVIOUS
<1>5. PICK beat2 : beat2 = [beat EXCEPT !.heard = heard2]
      OBVIOUS
<1>6. /\ session2 \in [timeout : Int, last : Int, live : BOOLEAN]
      /\ session2.last = now /\ session2.live
      BY <1>1, <1>2
<1>7. PICK n \in Nat : n = Len(heard) /\ heard \in Seq(Int)
      BY <1>1, <1>3
<1>8. /\ heard2 \in Seq(Int) /\ Len(heard2) = n + 1 /\ heard2[n + 1] = now
      /\ \A k \in 1 .. n : heard2[k] = heard[k]
      BY <1>4, <1>7
<1>9. /\ beat2 \in [heard : Seq(Int), ended : Seq(Int)]
      /\ beat2.heard = heard2 /\ beat2.ended = beat.ended
      BY <1>1, <1>5, <1>8
<1>10. beat.ended = Open /\ n >= 1 /\ heard[n] = session.last
      BY <1>3, <1>7 DEF SessionOK
<1>11. session.last \in Int
      BY <1>1
<1>12. \/ \E k \in 2 .. n + 1 : heard2[k] < heard2[k - 1]
       \/ \A k \in 1 .. n + 1 : heard2[k] <= now
  <2>1. CASE \E k \in 2 .. n : heard[k] < heard[k - 1]
    <3>1. PICK k \in 2 .. n : heard[k] < heard[k - 1]
          BY <2>1
    <3>2. k \in 2 .. n + 1 /\ k \in 1 .. n /\ k - 1 \in 1 .. n
          BY <1>10
    <3>3. heard2[k] < heard2[k - 1]
          BY <1>8, <3>1, <3>2
    <3> QED BY <3>2, <3>3
  <2>2. CASE now < session.last
    <3>1. n + 1 \in 2 .. n + 1 /\ n + 1 - 1 = n /\ n \in 1 .. n
          BY <1>10
    <3>2. heard2[n + 1] < heard2[n + 1 - 1]
          BY <1>8, <1>10, <2>2, <3>1
    <3> QED BY <3>1, <3>2
  <2>3. CASE /\ ~(now < session.last)
             /\ ~(\E k \in 2 .. n : heard[k] < heard[k - 1])
    <3>1. \A k \in 1 .. n : heard[k] <= session.last
          BY <1>3, <1>7, <2>3 DEF SessionOK
    <3>2. ASSUME NEW k \in 1 .. n + 1 PROVE heard2[k] <= now
      <4>1. CASE k = n + 1
            BY <1>8, <4>1
      <4>2. CASE k # n + 1
        <5>1. k \in 1 .. n /\ heard[k] \in Int
              BY <1>7, <4>2
        <5>2. heard[k] <= session.last /\ session.last <= now
              BY <1>11, <2>3, <3>1, <5>1
        <5> QED BY <1>8, <1>11, <5>1, <5>2
      <4> QED BY <4>1, <4>2
    <3> QED BY <3>2
  <2> QED BY <2>1, <2>2, <2>3
<1>13. SessionOK(session2, beat2)
      BY <1>6, <1>8, <1>9, <1>10, <1>12 DEF SessionOK
<1> QED BY <1>2, <1>3, <1>4, <1>5, <1>13

\* A session whose timeout is over is closed.
LEMMA CloseKeepsSession ==
    ASSUME NEW session, NEW beat, SessionOK(session, beat), session.live, NEW now \in Int,
           now - session.last > session.timeout
    PROVE  SessionOK([session EXCEPT !.live = FALSE], [beat EXCEPT !.ended = <<now>>])
<1>1. /\ session \in [timeout : Int, last : Int, live : BOOLEAN]
      /\ beat \in [heard : Seq(Int), ended : Seq(Int)]
      BY DEF SessionOK
<1>2. PICK session2 : session2 = [session EXCEPT !.live = FALSE]
      OBVIOUS
<1>3. PICK beat2 : beat2 = [beat EXCEPT !.ended = <<now>>]
      OBVIOUS
<1>4. /\ session2 \in [timeout : Int, last : Int, live : BOOLEAN]
      /\ session2.last = session.last /\ session2.timeout = session.timeout /\ ~session2.live
      BY <1>1, <1>2
<1>5. <<now>> \in Seq(Int) /\ Len(<<now>>) = 1 /\ <<now>>[1] = now /\ <<now>> # << >>
      OBVIOUS
<1>6. /\ beat2 \in [heard : Seq(Int), ended : Seq(Int)]
      /\ beat2.heard = beat.heard /\ beat2.ended = <<now>>
      BY <1>1, <1>3, <1>5
<1>7. SessionOK(session2, beat2)
      BY <1>4, <1>5, <1>6 DEF SessionOK, Open
<1> QED BY <1>2, <1>3, <1>7

\* A user's request before its window.
LEMMA ConsumeKeepsWindows ==
    ASSUME UserWindowsOK(limits, windows, arrivals), NEW r, r.time \in Int,
           NEW pass \in BOOLEAN, ConsumeRateLimit(r, pass), limits' = limits
    PROVE  UserWindowsOK(limits', windows', arrivals')
<1>1. CASE r.user \notin DOMAIN limits
      BY <1>1 DEF ConsumeRateLimit
<1>2. CASE r.user \in DOMAIN limits
  <2>1. PICK u : u = r.user
        OBVIOUS
  <2>2. PICK limit : limit = limits[u]
        OBVIOUS
  <2>3. PICK w : w = IF u \in DOMAIN windows THEN windows[u] ELSE << >>
        OBVIOUS
  <2>4. PICK log : log = IF u \in DOMAIN arrivals THEN arrivals[u] ELSE << >>
        OBVIOUS
  <2>5. PICK w2 : w2 = Trim(w, r.time, limit.window)
        OBVIOUS
  <2>6. PICK e : e = [time |-> r.time, limit |-> limit, counted |-> pass, passed |-> pass, held |-> ~pass]
        OBVIOUS
  <2>7. PICK w3 : w3 = IF pass THEN Append(w2, r.time) ELSE w2
        OBVIOUS
  <2>8. /\ pass = (Len(w2) < limit.max)
        /\ windows' = With(windows, u, w3)
        /\ arrivals' = With(arrivals, u, Append(log, e))
        BY <1>2, <2>1, <2>2, <2>3, <2>4, <2>5, <2>6, <2>7 DEF ConsumeRateLimit
  <2>9. WindowOK(w, log)
        BY <2>3, <2>4, EmptyWindow DEF UserWindowsOK
  <2>10. /\ e.time = r.time /\ e.limit = limit /\ (e.counted <=> pass)
         /\ (e.passed <=> pass) /\ (e.held <=> ~pass)
        BY <2>6
  <2>11. LimitOK(limit)
        BY <1>2, <2>1, <2>2 DEF UserWindowsOK
  <2>12. EntryOK(e)
        BY <2>10, <2>11 DEF EntryOK, LimitOK
  <2>13. w2 \in Seq(Int)
    <3>1. w \in Seq(Int)
          BY <2>9 DEF WindowOK
    <3>2. PICK P : P = {i \in DOMAIN w : w[i] >= r.time - limit.window}
          OBVIOUS
    <3>3. P \in SUBSET (1 .. Len(w))
          BY <3>1, <3>2
    <3>4. w2 = Picked(w, P)
          BY <2>5, <3>2 DEF Trim, Filter
    <3> QED BY <3>1, <3>3, <3>4, PickedType
  <2>14. Len(w2) \in Nat /\ limit.max \in Nat
        BY <2>11, <2>13 DEF LimitOK
  <2>15. /\ w2 = Trim(w, e.time, e.limit.window)
         /\ w3 = IF e.counted THEN Append(w2, e.time) ELSE w2
         /\ e.passed => e.counted /\ Len(w2) < e.limit.max
         /\ e.held => Len(w2) >= e.limit.max
    <3>1. w2 = Trim(w, e.time, e.limit.window)
          BY <2>5, <2>10
    <3>2. w3 = IF e.counted THEN Append(w2, e.time) ELSE w2
          BY <2>7, <2>10
    <3>3. e.passed => e.counted /\ Len(w2) < e.limit.max
          BY <2>8, <2>10
    <3>4. ~pass => Len(w2) >= limit.max
      <4>1. ~(Len(w2) < limit.max) => Len(w2) >= limit.max
            BY <2>14
      <4>2. pass <=> Len(w2) < limit.max
            BY <2>8
      <4> QED BY <4>1, <4>2
    <3>5. e.held => Len(w2) >= e.limit.max
          BY <2>10, <3>4
    <3> QED BY <3>1, <3>2, <3>3, <3>5
  <2>16. WindowOK(w3, Append(log, e))
        BY <2>9, <2>12, <2>15, WindowStep
  <2>17. PICK log2 : log2 = Append(log, e)
        OBVIOUS
  <2>18. /\ DOMAIN windows' = DOMAIN windows \cup {u}
         /\ \A x \in DOMAIN windows \cup {u} : windows'[x] = IF x = u THEN w3 ELSE windows[x]
        BY <2>8 DEF With
  <2>19. /\ DOMAIN arrivals' = DOMAIN arrivals \cup {u}
         /\ \A x \in DOMAIN arrivals \cup {u} : arrivals'[x] = IF x = u THEN log2 ELSE arrivals[x]
        BY <2>8, <2>17 DEF With
  <2>20. /\ \A x \in DOMAIN limits : LimitOK(limits[x])
         /\ DOMAIN windows = DOMAIN arrivals
         /\ \A x \in DOMAIN arrivals : WindowOK(windows[x], arrivals[x])
        BY DEF UserWindowsOK
  <2>21. \A x \in DOMAIN arrivals' : WindowOK(windows'[x], arrivals'[x])
        BY <2>16, <2>17, <2>18, <2>19, <2>20
  <2> QED BY <2>18, <2>19, <2>20, <2>21 DEF UserWindowsOK
<1> QED BY <1>1, <1>2

\* The log of a user and ip, when a decision is added.
LEMMA JudgedGrows ==
    ASSUME NEW log, IsSequence(log), NEW d, NEW key
    PROVE  JudgedIn(Append(log, d), key) =
               IF IsJudged(d, key) THEN Append(JudgedIn(log, key), Judgement(d))
               ELSE JudgedIn(log, key)
<1>1. PICK n \in Nat : n = Len(log) /\ DOMAIN log = 1 .. n
      BY SequenceFacts
<1>2. PICK log2 : log2 = Append(log, d)
      OBVIOUS
<1>3. /\ IsSequence(log2) /\ Len(log2) = n + 1
      /\ \A k \in 1 .. n : log2[k] = log[k]
      /\ log2[n + 1] = d
      BY <1>1, <1>2, AppendFacts
<1>4. DOMAIN log2 = 1 .. n + 1
      BY <1>3, SequenceFacts
<1>5. PICK P : P = JudgedPlaces(log, key)
      OBVIOUS
<1>6. P \in SUBSET (1 .. n)
      BY <1>1, <1>5 DEF JudgedPlaces
<1>7. JudgedPlaces(log2, key) = IF IsJudged(d, key) THEN P \cup {n + 1} ELSE P
  <2>1. \A k \in 1 .. n + 1 : k \in 1 .. n \/ k = n + 1
        OBVIOUS
  <2>2. n + 1 \in 1 .. n + 1 /\ n + 1 \notin 1 .. n /\ \A k \in 1 .. n : k \in 1 .. n + 1
        OBVIOUS
  <2>3. \A k \in 1 .. n : k \in JudgedPlaces(log2, key) <=> k \in P
        BY <1>1, <1>3, <1>4, <1>5, <2>2 DEF JudgedPlaces
  <2>4. n + 1 \in JudgedPlaces(log2, key) <=> IsJudged(d, key)
        BY <1>3, <1>4, <2>2 DEF JudgedPlaces
  <2>5. JudgedPlaces(log2, key) \subseteq 1 .. n + 1
        BY <1>4 DEF JudgedPlaces
  <2>6. CASE IsJudged(d, key)
    <3>1. JudgedPlaces(log2, key) = P \cup {n + 1}
          BY <1>6, <2>1, <2>3, <2>4, <2>5, <2>6
    <3> QED BY <2>6, <3>1
  <2>7. CASE ~IsJudged(d, key)
    <3>1. JudgedPlaces(log2, key) = P
          BY <1>6, <2>1, <2>3, <2>4, <2>5, <2>7
    <3> QED BY <2>7, <3>1
  <2> QED BY <2>6, <2>7
<1>8. Picked(log2, P) = Picked(log, P)
      BY <1>3, <1>6, PickedSame
<1>9. PICK entries : entries = Picked(log, P)
      OBVIOUS
<1>10. PICK m \in Nat : m = Cardinality(P)
      BY <1>6, RankFacts
<1>11. DOMAIN entries = 1 .. m /\ entries = [k \in 1 .. m |-> entries[k]]
      BY <1>9, <1>10 DEF Picked
<1>12. JudgedIn(log, key) = [k \in 1 .. m |-> Judgement(entries[k])]
      BY <1>5, <1>9, <1>11 DEF JudgedIn
<1>13. CASE ~IsJudged(d, key)
  <2>1. JudgedPlaces(log2, key) = P
        BY <1>7, <1>13
  <2> QED BY <1>2, <1>5, <1>8, <1>13, <2>1 DEF JudgedIn
<1>14. CASE IsJudged(d, key)
  <2>1. Picked(log2, P \cup {n + 1}) = Append(entries, d)
    <3>1. PICK i \in Nat : i = n + 1
          OBVIOUS
    <3>0. i > n
          BY <3>1
    <3>3. PICK R : R = P \cup {i}
          OBVIOUS
    <3>2. Picked(log2, R) = Append(Picked(log2, P), log2[i])
      <4>1. IsAppended(Picked(log2, R), Picked(log2, P), log2[i])
            BY <1>6, <3>0, <3>3, PickedMore
      <4> QED BY <4>1 DEF IsAppended
    <3> QED BY <1>3, <1>8, <1>9, <3>1, <3>2, <3>3
  <2>2. PICK entries2 : entries2 = Append(entries, d)
        OBVIOUS
  <2>3. IsSequence(entries) /\ Len(entries) = m
        BY <1>11, FunctionSequence
  <2>4. /\ IsSequence(entries2) /\ Len(entries2) = m + 1
        /\ \A k \in 1 .. m : entries2[k] = entries[k]
        /\ entries2[m + 1] = d
        BY <2>2, <2>3, AppendFacts
  <2>5. DOMAIN entries2 = 1 .. m + 1
        BY <2>4, SequenceFacts
  <2>6. JudgedIn(log2, key) = [k \in 1 .. m + 1 |-> Judgement(entries2[k])]
        BY <1>7, <1>14, <2>1, <2>2, <2>5 DEF JudgedIn
  <2>7. PICK old : old = [k \in 1 .. m |-> Judgement(entries[k])]
        OBVIOUS
  <2>8. PICK new : new = [k \in 1 .. m + 1 |-> Judgement(entries2[k])]
        OBVIOUS
  <2>9. IsSequence(old) /\ Len(old) = m /\ IsSequence(new) /\ Len(new) = m + 1
    <3>1. old = [k \in 1 .. m |-> old[k]] /\ new = [k \in 1 .. m + 1 |-> new[k]]
          BY <2>7, <2>8
    <3>2. IsSequence(old) /\ Len(old) = m
          BY <3>1, FunctionSequence
    <3>3. PICK M \in Nat : M = m + 1
          OBVIOUS
    <3>4. new = [k \in 1 .. M |-> new[k]]
          BY <3>1, <3>3
    <3>5. IsSequence(new) /\ Len(new) = M
          BY <3>4, FunctionSequence
    <3> QED BY <3>2, <3>3, <3>5
  <2>10. PICK old2 : old2 = Append(old, Judgement(d))
        OBVIOUS
  <2>11. /\ IsSequence(old2) /\ Len(old2) = m + 1
         /\ \A k \in 1 .. m : old2[k] = old[k]
         /\ old2[m + 1] = Judgement(d)
        BY <2>9, <2>10, AppendFacts
  <2>12. ASSUME NEW k \in 1 .. m + 1 PROVE new[k] = old2[k]
    <3>1. CASE k = m + 1
          BY <2>4, <2>8, <2>11, <3>1
    <3>2. CASE k # m + 1
      <4>1. k \in 1 .. m
            BY <3>2
      <4> QED BY <2>4, <2>7, <2>8, <2>11, <4>1
    <3> QED BY <3>1, <3>2
  <2>13. new = old2
        BY <2>9, <2>11, <2>12, SequencesEqual
  <2> QED BY <1>2, <1>12, <1>14, <2>6, <2>7, <2>8, <2>10, <2>13
<1> QED BY <1>13, <1>14

\* A window as trimmed.
LEMMA TrimType ==
    ASSUME NEW w \in Seq(Int), NEW now \in Int, NEW length \in Int
    PROVE  Trim(w, now, length) \in Seq(Int)
<1>1. PICK P : P = {i \in DOMAIN w : w[i] >= now - length}
      OBVIOUS
<1>2. P \in SUBSET (1 .. Len(w))
      BY <1>1
<1>3. Trim(w, now, length) = Picked(w, P)
      BY <1>1 DEF Trim, Filter
<1> QED BY <1>2, <1>3, PickedType

\* The verdicts that tell of the rate limit tell the truth.
LEMMA VerdictFacts ==
    ASSUME NEW order, NEW top, NEW account, NEW resting, NEW limited \in BOOLEAN,
           NEW reason, reason = Verdict(order, top, account, resting, limited)
    PROVE  /\ reason = "none" => ~limited
           /\ reason = "rate_limited" => limited
BY Zenon DEF Verdict

\* evaluate keeps the windows of the risk engine.
LEMMA EvaluateKeepsRisk ==
    ASSUME RiskWindowsOK(riskLimit, riskWindows, auditLog), IsSequence(auditLog),
           NEW id, NEW time \in Int, NEW order, Evaluate(id, time, order)
    PROVE  /\ RiskWindowsOK(riskLimit', riskWindows', auditLog')
           /\ \E d : d.id = id /\ auditLog' = Append(auditLog, d)
<1>1. PICK key : key = <<order.user, order.ip>>
      OBVIOUS
<1>2. PICK w : w = WindowIn(riskWindows, key)
      OBVIOUS
<1>3. PICK w2 : w2 = Trim(w, time, riskLimit.window)
      OBVIOUS
<1>4. PICK limited \in BOOLEAN : limited <=> Len(w2) >= riskLimit.max
      OBVIOUS
<1>5. PICK reason : reason = Verdict(order, riskTop, AccountOf(order.user), riskResting, limited)
      OBVIOUS
<1>6. PICK d : d = Decision(id, key, time, reason)
      OBVIOUS
<1>7. PICK w3 : w3 = Append(w2, time)
      OBVIOUS
<1>8. /\ riskWindows' = IF reason = "invalid_request" THEN riskWindows
                         ELSE With(riskWindows, key, w3)
      /\ auditLog' = Append(auditLog, d)
      /\ riskLimit' = riskLimit
  <2>1. limited = (Len(w2) >= riskLimit.max)
        BY <1>4
  <2>2. w = WindowOf(key)
        BY <1>2 DEF WindowOf, WindowIn
  <2>3. reason = Verdict(order, riskTop, AccountOf(order.user), riskResting,
                         Len(w2) >= riskLimit.max)
        BY <1>5, <2>1
  <2> QED BY <1>1, <1>3, <1>6, <1>7, <2>2, <2>3 DEF Evaluate, FinalizeDecision
<1>9. /\ d.id = id /\ d.key = key /\ d.time = time /\ d.reason = reason /\ d.limit = riskLimit
      BY <1>6 DEF Decision
<1>10. LimitOK(riskLimit) /\ \A k : WindowOK(WindowIn(riskWindows, k), JudgedIn(auditLog, k))
      BY DEF RiskWindowsOK
<1>11. PICK log2 : log2 = Append(auditLog, d)
      OBVIOUS
<1>12. ASSUME NEW k PROVE WindowOK(WindowIn(riskWindows', k), JudgedIn(log2, k))
  <2>1. JudgedIn(log2, k) = IF IsJudged(d, k) THEN Append(JudgedIn(auditLog, k), Judgement(d))
                            ELSE JudgedIn(auditLog, k)
        BY <1>11, JudgedGrows
  <2>2. CASE ~IsJudged(d, k)
    <3>1. WindowIn(riskWindows', k) = WindowIn(riskWindows, k)
      <4>1. CASE reason = "invalid_request"
            BY <1>8, <4>1
      <4>2. CASE reason # "invalid_request"
        <5>1. k # key
              BY <1>9, <2>2, <4>2 DEF IsJudged
        <5> QED BY <1>8, <4>2, <5>1 DEF With, WindowIn
      <4> QED BY <4>1, <4>2
    <3> QED BY <1>10, <2>1, <2>2, <3>1
  <2>3. CASE IsJudged(d, k)
    <3>1. k = key /\ reason # "invalid_request"
          BY <1>9, <2>3 DEF IsJudged
    <3>2. WindowIn(riskWindows', key) = w3
          BY <1>8, <3>1 DEF With, WindowIn
    <3>3. PICK log : log = JudgedIn(auditLog, key)
          OBVIOUS
    <3>4. WindowOK(w, log)
          BY <1>2, <1>10, <3>3
    <3>5. PICK e : e = Judgement(d)
          OBVIOUS
    <3>6. /\ e.time = time /\ e.limit = riskLimit /\ e.counted
          /\ (e.passed <=> reason = "none") /\ (e.held <=> reason = "rate_limited")
          BY <1>9, <3>5 DEF Judgement
    <3>7. EntryOK(e)
          BY <1>10, <3>6 DEF EntryOK, LimitOK
    <3>8. w2 \in Seq(Int)
      <4>1. w \in Seq(Int) /\ riskLimit.window \in Int
            BY <1>10, <3>4 DEF WindowOK, LimitOK
      <4> QED BY <1>3, <4>1, TrimType
    <3>9. Len(w2) \in Nat /\ riskLimit.max \in Nat
          BY <1>10, <3>8 DEF LimitOK
    <3>10. (reason = "none" => ~limited) /\ (reason = "rate_limited" => limited)
          BY <1>5, VerdictFacts
    <3>11. (~limited => Len(w2) < riskLimit.max) /\ (limited => Len(w2) >= riskLimit.max)
      <4>1. ~(Len(w2) >= riskLimit.max) => Len(w2) < riskLimit.max
            BY <3>9
      <4> QED BY <1>4, <4>1
    <3>12. /\ w2 = Trim(w, e.time, e.limit.window)
           /\ w3 = IF e.counted THEN Append(w2, e.time) ELSE w2
           /\ e.passed => e.counted /\ Len(w2) < e.limit.max
           /\ e.held => Len(w2) >= e.limit.max
          BY <1>3, <1>7, <3>6, <3>10, <3>11
    <3>13. WindowOK(w3, Append(log, e))
          BY <3>4, <3>7, <3>12, WindowStep
    <3> QED BY <2>1, <2>3, <3>1, <3>2, <3>3, <3>5, <3>13
  <2> QED BY <2>2, <2>3
<1>13. RiskWindowsOK(riskLimit', riskWindows', auditLog')
      BY <1>8, <1>10, <1>11, <1>12 DEF RiskWindowsOK
<1> QED BY <1>8, <1>9, <1>13

-----------------------------------------------------------------------------
(* The invariant holds at first, and every step of the three threads keeps   *)
(* it.                                                                       *)

\* At first there are the sessions of the setup, and nothing else.
LEMMA InitHolds == Init => IngressInv
<1> SUFFICES ASSUME Init PROVE IngressInv
    OBVIOUS
<1>1. /\ GatewayInit /\ BroadcastInit /\ RiskInit /\ seen = << >> /\ calls = 0
      BY DEF Init
<1>2. /\ auditLog = << >> /\ ingress = << >> /\ accepted = << >> /\ publishing = NoRequest
      /\ nextSequence = 0 /\ history = EmptyMap /\ riskWindows = EmptyMap
      /\ windows = EmptyMap /\ arrivals = EmptyMap
      BY <1>1 DEF GatewayInit, BroadcastInit, RiskInit
<1>3. DOMAIN EmptyMap = {}
      BY DEF EmptyMap
<1>4. QueueOrdered(auditLog, ingress, accepted)
  <2>1. IsSequence(<< >>) /\ Len(<< >>) = 0
        BY EmptySequence
  <2> QED BY <1>2, <2>1 DEF QueueOrdered
<1>5. HistoryIn(history) = << >>
      BY <1>2, <1>3 DEF HistoryIn
<1>6. EventsOrdered(HistoryIn(history), nextSequence, publishing, accepted)
  <2>1. IsSequence(<< >>) /\ Len(<< >>) = 0
        BY EmptySequence
  <2> QED BY <1>2, <1>5, <2>1 DEF EventsOrdered
<1>7. ReaderBehind(seen, HistoryIn(history))
  <2>1. IsSequence(<< >>) /\ Len(<< >>) = 0
        BY EmptySequence
  <2> QED BY <1>1, <1>5, <2>1 DEF ReaderBehind
<1>8. SessionsOK(sessions, beats)
  <2>1. /\ sessions = Setup.sessions
        /\ beats = [s \in DOMAIN sessions |-> [heard |-> <<sessions[s].last>>, ended |-> Open]]
        BY <1>1 DEF GatewayInit
  <2>2. ASSUME NEW s \in DOMAIN sessions PROVE SessionOK(sessions[s], beats[s])
    <3>1. sessions[s] \in [timeout : Int, last : Int, live : {TRUE}]
          BY <2>1, GatewayAssumption
    <3>2. PICK t \in Int : t = sessions[s].last
          BY <3>1
    <3>3. PICK timeout \in Int : timeout = sessions[s].timeout
          BY <3>1
    <3>4. PICK session : session = sessions[s]
          OBVIOUS
    <3>5. session = [timeout |-> timeout, last |-> t, live |-> TRUE]
          BY <3>1, <3>2, <3>3, <3>4
    <3>6. PICK beat : beat = [heard |-> <<t>>, ended |-> Open]
          OBVIOUS
    <3>7. beats[s] = beat
          BY <2>1, <3>2, <3>6
    <3> QED BY <3>4, <3>5, <3>6, <3>7, NewSession
  <2> QED BY <2>1, <2>2 DEF SessionsOK
<1>9. UserWindowsOK(limits, windows, arrivals)
  <2>1. \A u \in DOMAIN limits : LimitOK(limits[u])
        BY <1>1, GatewayAssumption DEF GatewayInit, LimitOK
  <2> QED BY <1>2, <1>3, <2>1 DEF UserWindowsOK
<1>10. RiskWindowsOK(riskLimit, riskWindows, auditLog)
  <2>1. LimitOK(riskLimit)
        BY <1>1, RiskAssumption DEF RiskInit, LimitOK
  <2>2. ASSUME NEW key PROVE WindowOK(WindowIn(riskWindows, key), JudgedIn(auditLog, key))
    <3>1. WindowIn(riskWindows, key) = << >>
          BY <1>2, <1>3 DEF WindowIn
    <3>2. JudgedPlaces(auditLog, key) = {}
          BY <1>2, EmptySequence DEF JudgedPlaces
    <3>3. Picked(auditLog, {}) = << >>
          BY PickedNone
    <3>4. JudgedIn(auditLog, key) = << >>
      <4>1. DOMAIN << >> = {}
            BY EmptySequence
      <4>2. PICK none : none = << >>
            OBVIOUS
      <4>3. JudgedIn(auditLog, key) = [k \in DOMAIN none |-> Judgement(none[k])]
            BY <3>2, <3>3, <4>2 DEF JudgedIn
      <4> QED BY <4>1, <4>2, <4>3
    <3> QED BY <3>1, <3>4, EmptyWindow
  <2> QED BY <2>1, <2>2 DEF RiskWindowsOK
<1> QED BY <1>1, <1>4, <1>6, <1>7, <1>8, <1>9, <1>10 DEF IngressInv

\* The request a call sends.
LEMMA SentFacts ==
    ASSUME calls \in Nat, NEW q \in Requests, NEW r, r = Sent(q)
    PROVE  r.time \in Int /\ r.id \in Nat /\ r.id # 0
<1>1. r.time = q.time /\ r.id = calls + 1
      BY DEF Sent
<1> QED BY <1>1, RequestsAssumption

\* What route forwards of it.
LEMMA ForwardedFacts ==
    ASSUME NEW r, r.id \in Nat, r.id # 0, NEW at, at = Forwarded(r)
    PROVE  at.id = r.id /\ at.time = r.time /\ at # NoRequest
<1>1. at.id = r.id /\ at.time = r.time
      BY DEF Forwarded
<1>2. NoRequest.id = 0
      BY DEF NoRequest
<1> QED BY <1>1, <1>2

\* route, up to the push, keeps the invariant.
LEMMA RouteKeepsInv ==
    ASSUME IngressInv, RouteCall, UNCHANGED <<riskVars, seen>>
    PROVE  IngressInv'
<1>1. PICK q \in Requests :
          LET r == Sent(q)
          IN  \/ RouteRefused(r) /\ UNCHANGED <<broadcastVars, calls>>
              \/ RouteLimited(r) /\ Counted /\ UNCHANGED broadcastVars
              \/ RouteQueueFull(r) /\ Counted /\ UNCHANGED broadcastVars
              \/ RoutePush(r) /\ Counted /\ UNCHANGED broadcastVars
      BY DEF RouteCall
<1>2. PICK r : r = Sent(q)
      OBVIOUS
<1>3. /\ calls \in Nat
      /\ QueueOrdered(auditLog, ingress, accepted)
      /\ EventsOrdered(HistoryIn(history), nextSequence, publishing, accepted)
      /\ ReaderBehind(seen, HistoryIn(history))
      /\ SessionsOK(sessions, beats)
      /\ UserWindowsOK(limits, windows, arrivals)
      /\ RiskWindowsOK(riskLimit, riskWindows, auditLog)
      BY DEF IngressInv
<1>4. r.time \in Int /\ r.id \in Nat /\ r.id # 0
      BY <1>2, <1>3, SentFacts
<1>5. UNCHANGED <<riskLimit, riskWindows, auditLog, seen>>
      BY DEF riskVars
<1>6. CASE RouteRefused(r) /\ UNCHANGED <<broadcastVars, calls>>
      BY <1>3, <1>5, <1>6 DEF RouteRefused, gatewayVars, configVars, sessionVars, routeVars, broadcastVars, IngressInv
<1>7. CASE (RouteLimited(r) \/ RouteQueueFull(r)) /\ Counted /\ UNCHANGED broadcastVars
  <2>1. /\ UNCHANGED <<limits, sessions, beats, ingress, publishing, accepted, nextSequence, history>>
        /\ calls' = calls + 1
        BY <1>7 DEF RouteLimited, RouteQueueFull, configVars, sessionVars, broadcastVars, Counted
  <2>2. PICK pass \in BOOLEAN : ConsumeRateLimit(r, pass)
        BY <1>7 DEF RouteLimited, RouteQueueFull
  <2>3. UserWindowsOK(limits', windows', arrivals')
        BY <1>3, <1>4, <2>1, <2>2, ConsumeKeepsWindows
  <2> QED BY <1>3, <1>5, <2>1, <2>3 DEF IngressInv
<1>8. CASE RoutePush(r) /\ Counted /\ UNCHANGED broadcastVars
  <2>1. /\ UNCHANGED <<limits, sessions, beats, nextSequence, history>>
        /\ calls' = calls + 1 /\ publishing = NoRequest
        /\ ConsumeRateLimit(r, TRUE)
        BY <1>8 DEF RoutePush, configVars, sessionVars, broadcastVars, Counted, Idle
  <2>2. PICK at : at = Forwarded(r)
        OBVIOUS
  <2>3. /\ ingress' = Append(ingress, at) /\ publishing' = at /\ accepted' = Append(accepted, r.id)
        BY <1>8, <2>2 DEF RoutePush
  <2>4. at.id = r.id /\ at.time = r.time /\ at # NoRequest
        BY <1>4, <2>2, ForwardedFacts
  <2>5. UserWindowsOK(limits', windows', arrivals')
        BY <1>3, <1>4, <2>1, ConsumeKeepsWindows
  <2>6. QueueOrdered(auditLog, Append(ingress, at), Append(accepted, at.id))
        BY <1>3, <1>4, <2>4, PushKeepsOrder
  <2>7. EventsOrdered(HistoryIn(history), nextSequence, at, Append(accepted, at.id))
    <3>1. EventsOrdered(HistoryIn(history), nextSequence, NoRequest, accepted)
          BY <1>3, <2>1
    <3> QED BY <2>4, <3>1, PushKeepsEvents
  <2> QED BY <1>3, <1>5, <2>1, <2>3, <2>4, <2>5, <2>6, <2>7 DEF IngressInv
<1> QED BY <1>1, <1>2, <1>6, <1>7, <1>8

\* route's publication of the event does.
LEMMA PublishKeepsInv ==
    ASSUME IngressInv, RoutePublish, UNCHANGED <<riskVars, seen, calls>>
    PROVE  IngressInv'
<1>1. /\ EventsOrdered(HistoryIn(history), nextSequence, publishing, accepted)
      /\ ReaderBehind(seen, HistoryIn(history))
      BY DEF IngressInv
<1>2. /\ publishing # NoRequest /\ publishing' = NoRequest
      /\ UNCHANGED <<riskLimit, riskWindows, auditLog, seen, calls, limits, sessions, beats,
                     windows, ingress, arrivals, accepted>>
      BY DEF RoutePublish, riskVars, configVars, sessionVars, Idle
<1>3. PICK h : h = HistoryIn(history)
      OBVIOUS
<1>4. PICK m : m = [sequence |-> nextSequence + 1, payload |-> publishing.id]
      OBVIOUS
<1>5. nextSequence' = nextSequence + 1 /\ HistoryIn(history') = Append(h, m)
  <2>1. /\ nextSequence' = nextSequence + 1
        /\ history' = With(history, Topic, Append(h, m))
        BY <1>3, <1>4 DEF RoutePublish, Publish, HistoryOf, HistoryIn
  <2> QED BY <2>1 DEF With, HistoryIn
<1>6. EventsOrdered(Append(h, m), nextSequence + 1, NoRequest, accepted)
      BY <1>1, <1>2, <1>3, <1>4, PublishKeepsEvents
<1>7. ReaderBehind(seen, Append(h, m))
  <2>1. IsSequence(h)
        BY <1>1, <1>3 DEF EventsOrdered
  <2> QED BY <1>1, <1>3, <2>1, ReaderStaysBehind
<1> QED BY <1>2, <1>5, <1>6, <1>7 DEF IngressInv

\* The configuration of the gateway does.
LEMMA ConfigureKeepsInv ==
    ASSUME IngressInv, ConfigureGateway, UNCHANGED <<riskVars, seen>>
    PROVE  IngressInv'
<1>1. /\ UNCHANGED <<riskLimit, riskWindows, auditLog, seen, nextSequence, history>>
      /\ UNCHANGED <<sessions, beats, windows, ingress, publishing, arrivals, accepted>>
      /\ calls' = calls + 1
      BY DEF ConfigureGateway, RegisterCredential, ConfigureRoute, SetUserRateLimit, SetBackendHealth,
             riskVars, broadcastVars, sessionVars, routeVars, Counted
<1>2. \A u \in DOMAIN limits : LimitOK(limits[u])
      BY DEF IngressInv, UserWindowsOK
<1>3. \/ limits' = limits
      \/ \E user, limit : limit \in UserLimits /\ limits' = With(limits, user, limit)
      BY DEF ConfigureGateway, RegisterCredential, ConfigureRoute, SetUserRateLimit, SetBackendHealth
<1>4. \A u \in DOMAIN limits' : LimitOK(limits'[u])
  <2>1. CASE limits' = limits
        BY <1>2, <2>1
  <2>2. CASE \E user, limit : limit \in UserLimits /\ limits' = With(limits, user, limit)
    <3>1. PICK user, limit : limit \in UserLimits /\ limits' = With(limits, user, limit)
          BY <2>2
    <3>2. LimitOK(limit)
          BY <3>1, GatewayAssumption DEF LimitOK
    <3> QED BY <1>2, <3>1, <3>2 DEF With
  <2> QED BY <1>3, <2>1, <2>2
<1>5. UserWindowsOK(limits', windows', arrivals')
      BY <1>1, <1>4 DEF IngressInv, UserWindowsOK
<1> QED BY <1>1, <1>5 DEF IngressInv

\* The calls for sessions do.
LEMMA SessionKeepsInv ==
    ASSUME IngressInv, SessionCall, UNCHANGED <<riskVars, seen>>
    PROVE  IngressInv'
<1>1. /\ UNCHANGED <<riskLimit, riskWindows, auditLog, seen, nextSequence, history>>
      /\ UNCHANGED <<limits, windows, ingress, publishing, arrivals, accepted>>
      /\ calls' = calls + 1
      BY DEF SessionCall, OpenSession, RecordHeartbeat, CloseStaleSessions, Close,
             riskVars, broadcastVars, configVars, routeVars, Counted
<1>2. SessionsOK(sessions, beats)
      BY DEF IngressInv
<1>3. /\ DOMAIN beats = DOMAIN sessions
      /\ \A s \in DOMAIN sessions : SessionOK(sessions[s], beats[s])
      BY <1>2 DEF SessionsOK
<1>4. SessionsOK(sessions', beats')
  <2>1. ASSUME NEW s \in SessionIds, NEW timeout \in Timeouts, NEW now \in Times,
               OpenSession(s, timeout, now)
        PROVE  SessionsOK(sessions', beats')
    <3>1. timeout \in Int /\ now \in Int
          BY GatewayAssumption
    <3> QED BY <1>2, <2>1, <3>1, OpenKeepsSessions DEF OpenSession
  <2>2. ASSUME NEW s \in SessionIds, NEW now \in Times, RecordHeartbeat(s, now)
        PROVE  SessionsOK(sessions', beats')
    <3>1. CASE ~IsLive(s)
      <4>1. sessions' = sessions /\ beats' = beats
            BY <2>2, <3>1 DEF RecordHeartbeat, sessionVars
      <4> QED BY <1>2, <4>1
    <3>2. CASE IsLive(s)
      <4>1. /\ s \in DOMAIN sessions /\ sessions[s].live
            /\ sessions' = [sessions EXCEPT ![s].last = now]
            /\ beats' = [beats EXCEPT ![s].heard = Append(@, now)]
            BY <2>2, <3>2 DEF RecordHeartbeat, IsLive
      <4>2. PICK session : session = sessions[s]
            OBVIOUS
      <4>3. PICK beat : beat = beats[s]
            OBVIOUS
      <4>4. now \in Int
            BY GatewayAssumption
      <4>5. SessionOK([session EXCEPT !.last = now],
                      [beat EXCEPT !.heard = Append(beat.heard, now)])
            BY <1>3, <4>1, <4>2, <4>3, <4>4, HeartbeatKeepsSession
      <4>6. /\ DOMAIN sessions' = DOMAIN sessions /\ DOMAIN beats' = DOMAIN beats
            /\ \A x \in DOMAIN sessions : x # s => sessions'[x] = sessions[x] /\ beats'[x] = beats[x]
            /\ sessions'[s] = [session EXCEPT !.last = now]
            /\ beats'[s] = [beat EXCEPT !.heard = Append(beat.heard, now)]
            BY <1>3, <4>1, <4>2, <4>3
      <4> QED BY <1>3, <4>5, <4>6 DEF SessionsOK
    <3> QED BY <3>1, <3>2
  <2>3. ASSUME NEW now \in Times, CloseStaleSessions(now) PROVE SessionsOK(sessions', beats')
    <3>1. PICK stale : stale = {s \in DOMAIN sessions : now - sessions[s].last > sessions[s].timeout}
          OBVIOUS
    <3>2. /\ sessions' = [s \in DOMAIN sessions |-> [sessions[s] EXCEPT !.live = @ /\ s \notin stale]]
          /\ beats' = [s \in DOMAIN beats |->
                          IF IsLive(s) /\ s \in stale THEN [beats[s] EXCEPT !.ended = <<now>>]
                          ELSE beats[s]]
          BY <2>3, <3>1 DEF CloseStaleSessions, Close
    <3>3. ASSUME NEW s \in DOMAIN sessions PROVE SessionOK(sessions'[s], beats'[s])
      <4>1. PICK session : session = sessions[s]
            OBVIOUS
      <4>2. PICK beat : beat = beats[s]
            OBVIOUS
      <4>3. /\ SessionOK(session, beat)
            /\ session \in [timeout : Int, last : Int, live : BOOLEAN]
            BY <1>3, <4>1, <4>2 DEF SessionOK
      <4>4. /\ sessions'[s] = [session EXCEPT !.live = session.live /\ s \notin stale]
            /\ beats'[s] = IF session.live /\ s \in stale THEN [beat EXCEPT !.ended = <<now>>] ELSE beat
            BY <1>3, <3>2, <4>1, <4>2 DEF IsLive
      <4>5. CASE session.live /\ s \in stale
        <5>1. now \in Int /\ now - session.last > session.timeout
              BY <3>1, <4>1, <4>5, GatewayAssumption
        <5>2. SessionOK([session EXCEPT !.live = FALSE], [beat EXCEPT !.ended = <<now>>])
              BY <4>3, <4>5, <5>1, CloseKeepsSession
        <5>3. sessions'[s] = [session EXCEPT !.live = FALSE]
              BY <4>4, <4>5
        <5>4. beats'[s] = [beat EXCEPT !.ended = <<now>>]
              BY <4>4, <4>5
        <5> QED BY <5>2, <5>3, <5>4
      <4>6. CASE ~(session.live /\ s \in stale)
        <5>1. (session.live /\ s \notin stale) = session.live
              BY <4>3, <4>6
        <5>2. sessions'[s] = session
          <6>1. sessions'[s] = [session EXCEPT !.live = session.live]
                BY <4>4, <5>1
          <6> QED BY <4>3, <6>1
        <5>3. beats'[s] = beat
              BY <4>4, <4>6
        <5> QED BY <4>3, <5>2, <5>3
      <4> QED BY <4>5, <4>6
    <3>4. DOMAIN sessions' = DOMAIN sessions /\ DOMAIN beats' = DOMAIN beats
          BY <3>2
    <3> QED BY <1>3, <3>3, <3>4 DEF SessionsOK
  <2> QED BY <2>1, <2>2, <2>3 DEF SessionCall
<1> QED BY <1>1, <1>4 DEF IngressInv

\* The backend's poll and evaluation do.
LEMMA EvaluateKeepsInv ==
    ASSUME IngressInv, EvaluateNext
    PROVE  IngressInv'
<1>1. /\ ingress # << >> /\ ingress' = Tail(ingress)
      /\ UNCHANGED <<limits, sessions, beats, windows, publishing, arrivals, accepted,
                     nextSequence, history, seen, calls>>
      BY DEF EvaluateNext, PollForwardedRequest, configVars, sessionVars, broadcastVars
<1>2. PICK r : r = Head(ingress)
      OBVIOUS
<1>3. PICK order : order = [r.payload EXCEPT !.user = r.user]
      OBVIOUS
<1>4. Evaluate(r.id, r.time, order)
      BY <1>2, <1>3 DEF EvaluateNext
<1>5. /\ QueueOrdered(auditLog, ingress, accepted)
      /\ RiskWindowsOK(riskLimit, riskWindows, auditLog)
      BY DEF IngressInv
<1>6. IsSequence(auditLog)
      BY <1>5 DEF QueueOrdered
<1>7. r.time \in Int
  <2>1. PICK d : d = [id |-> r.id]
        OBVIOUS
  <2>2. d.id = Head(ingress).id
        BY <1>2, <2>1
  <2> QED BY <1>1, <1>2, <1>5, <2>2, DecideKeepsOrder
<1>8. /\ RiskWindowsOK(riskLimit', riskWindows', auditLog')
      /\ \E d : d.id = r.id /\ auditLog' = Append(auditLog, d)
      BY <1>4, <1>5, <1>6, <1>7, EvaluateKeepsRisk
<1>9. PICK d : d.id = r.id /\ auditLog' = Append(auditLog, d)
      BY <1>8
<1>10. QueueOrdered(Append(auditLog, d), Tail(ingress), accepted)
  <2>1. d.id = Head(ingress).id
        BY <1>2, <1>9
  <2> QED BY <1>1, <1>5, <2>1, DecideKeepsOrder
<1> QED BY <1>1, <1>8, <1>9, <1>10 DEF IngressInv

\* What else the risk engine is told does: its windows and its log stay.
LEMMA UpdateKeepsInv ==
    ASSUME IngressInv, UpdateRisk
    PROVE  IngressInv'
<1>1. /\ UNCHANGED <<limits, sessions, beats, windows, ingress, publishing, arrivals, accepted>>
      /\ UNCHANGED <<nextSequence, history, seen>>
      /\ calls' = calls + 1
      BY DEF UpdateRisk, gatewayVars, configVars, sessionVars, routeVars, broadcastVars, Counted
<1>2. /\ UNCHANGED <<riskWindows, auditLog>>
      /\ riskLimit' = riskLimit \/ riskLimit' \in RiskLimits
      BY DEF UpdateRisk, ConfigureMarket, UpdateTopOfBook, SetAccountState, TrackRestingOrder,
             ClearUserRestingOrders
<1>3. LimitOK(riskLimit')
      BY <1>2, RiskAssumption DEF IngressInv, RiskWindowsOK, LimitOK
<1>4. RiskWindowsOK(riskLimit', riskWindows', auditLog')
      BY <1>2, <1>3 DEF IngressInv, RiskWindowsOK
<1> QED BY <1>1, <1>2, <1>4 DEF IngressInv

\* The reader's replay does.
LEMMA ReadKeepsInv ==
    ASSUME IngressInv, ReadEvents
    PROVE  IngressInv'
<1>1. /\ UNCHANGED <<limits, sessions, beats, windows, ingress, publishing, arrivals, accepted>>
      /\ UNCHANGED <<nextSequence, history, calls, riskLimit, riskWindows, auditLog>>
      BY DEF ReadEvents, gatewayVars, configVars, sessionVars, routeVars, broadcastVars, riskVars
<1>2. PICK h : h = HistoryIn(history)
      OBVIOUS
<1>3. PICK after : after = IF seen = << >> THEN 0 ELSE seen[Len(seen)].sequence
      OBVIOUS
<1>4. seen' = seen \o Picked(h, {k \in DOMAIN h : h[k].sequence > after})
      BY <1>2, <1>3 DEF ReadEvents, ReplayRouteEvents, Replay, LastSeen, Last, HistoryOf, HistoryIn, Filter
<1>5. ReaderBehind(seen', h)
      BY <1>2, <1>3, <1>4, ReplayKeepsReader DEF IngressInv
<1> QED BY <1>1, <1>2, <1>5 DEF IngressInv

\* So every step does.
LEMMA NextHolds == IngressInv /\ [Next]_vars => IngressInv'
<1> SUFFICES ASSUME IngressInv, [Next]_vars PROVE IngressInv'
    OBVIOUS
<1>1. CASE GatewayThread
      BY <1>1, RouteKeepsInv, ConfigureKeepsInv, SessionKeepsInv, PublishKeepsInv DEF GatewayThread
<1>2. CASE EvaluateNext
      BY <1>2, EvaluateKeepsInv
<1>3. CASE UpdateRisk
      BY <1>3, UpdateKeepsInv
<1>4. CASE ReadEvents
      BY <1>4, ReadKeepsInv
<1>5. CASE UNCHANGED vars
      BY <1>5 DEF vars, gatewayVars, configVars, sessionVars, routeVars, broadcastVars, riskVars, IngressInv
<1> QED BY <1>1, <1>2, <1>3, <1>4, <1>5 DEF Next

\* The invariant holds throughout.
LEMMA IngressInvariant == Spec => []IngressInv
BY InitHolds, NextHolds, PTL DEF Spec

-----------------------------------------------------------------------------
(* The theorems.                                                             *)

\* Neither the gateway's limit per user nor the risk engine's per user and ip
\* lets more requests through than a window allows, given that they come in the
\* order of their timestamps, nor refuses one for the rate without that many
\* requests in the window: for any limits, window lengths and timestamps, and
\* through every change of the limits.  consume_rate_limit, evaluate.
THEOREM RateLimitsAreHonoured == Spec => []RateLimitsHonoured
BY IngressInvariant, InvKeepsLimits, PTL

\* Every accepted request is decided once and told of once, in the order of
\* acceptance, whichever of route's event and the backend's decision is first.
\* route, poll_forwarded_request, evaluate, replay_route_events.
THEOREM IngressKeepsOrder == Spec => []IngressOrder
BY IngressInvariant, InvKeepsOrder, PTL

\* A session is only closed by a silence longer than its timeout, and a
\* heartbeat that comes too late never brings it back.  close_stale_sessions,
\* record_heartbeat, open_session.
THEOREM SessionsEndBySilenceOnly == Spec => []SessionsEndBySilence
BY IngressInvariant, InvEndsSessions, PTL

=============================================================================
