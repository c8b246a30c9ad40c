--------------------------- MODULE TelemetryProofs ---------------------------
(***************************************************************************)
(* Proofs about the telemetry buffer for every value of its constants.     *)
(***************************************************************************)
EXTENDS Telemetry, SequenceLemmas

----------------------------------------------------------------------------
(* Lines of events, and lines with events taken out.                       *)

\* x stands before y in s.
Precedes(s, x, y) == \E i, j \in DOMAIN s : i < j /\ s[i] = x /\ s[j] = y

\* t is s without the events R; the order within each kind is kept.
Thins(t, s, R) ==
  /\ t \in Seq(Events)
  /\ IsInjective(t)
  /\ R \subseteq ToSet(s)
  /\ ToSet(t) = ToSet(s) \ R
  /\ \A i, j \in DOMAIN t : i < j /\ SameKind(t[i], t[j]) => Precedes(s, t[i], t[j])

\* Thinning twice takes out both sets.
LEMMA ThinsTransitive ==
  ASSUME NEW s, NEW t, NEW u, NEW Q, NEW R, Thins(t, s, Q), Thins(u, t, R)
  PROVE  Thins(u, s, Q \cup R)
<1>1. Q \cup R \subseteq ToSet(s) /\ ToSet(u) = ToSet(s) \ (Q \cup R)
  BY DEF Thins
<1>2. ASSUME NEW i \in DOMAIN u, NEW j \in DOMAIN u, i < j, SameKind(u[i], u[j])
      PROVE  Precedes(s, u[i], u[j])
  <2>1. PICK a \in DOMAIN t, b \in DOMAIN t : a < b /\ t[a] = u[i] /\ t[b] = u[j]
    BY <1>2 DEF Thins, Precedes
  <2> QED
    BY <2>1, <1>2 DEF Thins
<1> QED
  BY <1>1, <1>2 DEF Thins

\* t is s without the k elements after the first m.
Cut(t, s, m, k) ==
  /\ t \in Seq(Events)
  /\ m \in Nat /\ k \in Nat /\ m + k <= Len(s)
  /\ Len(t) = Len(s) - k
  /\ \A i \in 1 .. Len(t) : t[i] = IF i <= m THEN s[i] ELSE s[i + k]

\* A cut thins a line of distinct events by what it takes out.
LEMMA CutThins ==
  ASSUME NEW s \in Seq(Events), IsInjective(s), NEW t, NEW m, NEW k, Cut(t, s, m, k)
  PROVE  Thins(t, s, {s[j] : j \in m + 1 .. m + k})
<1> DEFINE p(i) == IF i <= m THEN i ELSE i + k
           R == {s[j] : j \in m + 1 .. m + k}
<1>1. t \in Seq(Events) /\ m \in Nat /\ k \in Nat /\ Len(s) \in Nat /\ Len(t) \in Nat
      /\ m + k <= Len(s) /\ Len(t) = Len(s) - k
      /\ DOMAIN s = 1 .. Len(s) /\ DOMAIN t = 1 .. Len(t)
  BY DEF Cut
<1>2. ASSUME NEW i \in DOMAIN t
      PROVE  p(i) \in DOMAIN s /\ p(i) \notin m + 1 .. m + k /\ t[i] = s[p(i)]
  BY <1>1 DEF Cut
<1>3. IsInjective(t)
  <2>1. ASSUME NEW i \in DOMAIN t, NEW j \in DOMAIN t, t[i] = t[j] PROVE i = j
    <3>1. p(i) = p(j)
      BY <1>2, <2>1 DEF IsInjective
    <3> QED
      BY <3>1, <1>1
  <2> QED
    BY <2>1 DEF IsInjective
<1>4. R \subseteq ToSet(s)
  BY <1>1 DEF ToSet
<1>5. ASSUME NEW x \in ToSet(t) PROVE x \in ToSet(s) \ R
  <2>1. PICK i \in DOMAIN t : x = t[i]
    BY DEF ToSet
  <2>2. x = s[p(i)] /\ p(i) \in DOMAIN s /\ p(i) \notin m + 1 .. m + k
    BY <1>2, <2>1
  <2>3. \A j \in m + 1 .. m + k : j \in DOMAIN s
    BY <1>1
  <2> QED
    BY <2>2, <2>3 DEF ToSet, IsInjective
<1>6. ASSUME NEW x \in ToSet(s) \ R PROVE x \in ToSet(t)
  <2>1. PICK j \in DOMAIN s : x = s[j]
    BY DEF ToSet
  <2>2. j \notin m + 1 .. m + k
    BY <2>1
  <2>3. CASE j <= m
    <3>1. j \in DOMAIN t /\ p(j) = j
      BY <1>1, <2>3
    <3> QED
      BY <3>1, <1>2, <2>1 DEF ToSet
  <2>4. CASE j > m
    <3>1. j - k \in DOMAIN t /\ p(j - k) = j
      BY <1>1, <2>2, <2>4
    <3> QED
      BY <3>1, <1>2, <2>1 DEF ToSet
  <2> QED
    BY <2>3, <2>4, <1>1
<1>7. ASSUME NEW i \in DOMAIN t, NEW j \in DOMAIN t, i < j PROVE Precedes(s, t[i], t[j])
  <2>1. p(i) < p(j)
    BY <1>1, <1>7
  <2> QED
    BY <2>1, <1>2 DEF Precedes
<1> QED
  BY <1>1, <1>3, <1>4, <1>5, <1>6, <1>7 DEF Thins

\* Taking the first k events of b out of the middle of a line.
LEMMA MiddleThins ==
  ASSUME NEW a \in Seq(Events), NEW b \in Seq(Events), NEW c \in Seq(Events),
         NEW k \in 0 .. Len(b), IsInjective(a \o b \o c)
  PROVE  Thins(a \o SubSeq(b, k + 1, Len(b)) \o c, a \o b \o c, ToSet(SubSeq(b, 1, k)))
<1> DEFINE d == SubSeq(b, k + 1, Len(b))
           s == a \o b \o c
           t == a \o d \o c
           m == Len(a)
<1>1. m \in Nat /\ Len(b) \in Nat /\ Len(c) \in Nat /\ k \in Nat /\ k <= Len(b)
  OBVIOUS
<1>2. d \in Seq(Events) /\ Len(d) = Len(b) - k /\ \A i \in 1 .. Len(d) : d[i] = b[i + k]
  <2>1. \A i \in k + 1 .. Len(b) : b[i] \in Events
    BY <1>1
  <2>2. Len(d) = IF k + 1 <= Len(b) THEN Len(b) - (k + 1) + 1 ELSE 0
    BY <1>1, <2>1, SubSeqProperties
  <2>3. d \in Seq(Events)
    BY <1>1, <2>1, SubSeqProperties
  <2>4. \A i \in 1 .. Len(b) - (k + 1) + 1 : d[i] = b[(k + 1) + i - 1]
    BY <1>1, <2>1, SubSeqProperties
  <2> QED
    BY <1>1, <2>2, <2>3, <2>4
<1> HIDE DEF d
<1>3. /\ s \in Seq(Events) /\ Len(s) = m + Len(b) + Len(c)
      /\ \A i \in 1 .. Len(s) : i <= m => s[i] = a[i]
      /\ \A i \in 1 .. Len(s) : m < i /\ i <= m + Len(b) => s[i] = b[i - m]
      /\ \A i \in 1 .. Len(s) : m + Len(b) < i => s[i] = c[i - (m + Len(b))]
  <2>1. a \o b \in Seq(Events) /\ Len(a \o b) = m + Len(b)
        /\ \A i \in 1 .. m + Len(b) : (a \o b)[i] = IF i <= m THEN a[i] ELSE b[i - m]
    BY ConcatProperties
  <2>2. s \in Seq(Events) /\ Len(s) = (m + Len(b)) + Len(c)
        /\ \A i \in 1 .. (m + Len(b)) + Len(c) :
             s[i] = IF i <= m + Len(b) THEN (a \o b)[i] ELSE c[i - (m + Len(b))]
    BY <2>1, ConcatProperties
  <2> QED
    BY <2>1, <2>2, <1>1
<1>4. /\ t \in Seq(Events) /\ Len(t) = m + Len(d) + Len(c)
      /\ \A i \in 1 .. Len(t) : i <= m => t[i] = a[i]
      /\ \A i \in 1 .. Len(t) : m < i /\ i <= m + Len(d) => t[i] = d[i - m]
      /\ \A i \in 1 .. Len(t) : m + Len(d) < i => t[i] = c[i - (m + Len(d))]
  <2>1. a \o d \in Seq(Events) /\ Len(a \o d) = m + Len(d)
        /\ \A i \in 1 .. m + Len(d) : (a \o d)[i] = IF i <= m THEN a[i] ELSE d[i - m]
    BY <1>2, ConcatProperties
  <2>2. t \in Seq(Events) /\ Len(t) = (m + Len(d)) + Len(c)
        /\ \A i \in 1 .. (m + Len(d)) + Len(c) :
             t[i] = IF i <= m + Len(d) THEN (a \o d)[i] ELSE c[i - (m + Len(d))]
    BY <2>1, ConcatProperties
  <2>3. Len(d) \in Nat /\ Len(t) = m + Len(d) + Len(c)
    BY <1>2, <2>2
  <2> HIDE DEF t, m, d
  <2>4. ASSUME NEW i \in 1 .. Len(t), i <= m + Len(d)
        PROVE  t[i] = IF i <= m THEN a[i] ELSE d[i - m]
    <3>1. i \in 1 .. m + Len(d) /\ i \in 1 .. (m + Len(d)) + Len(c)
      BY <2>3, <2>4, <1>1
    <3>2. t[i] = (a \o d)[i]
      BY <3>1, <2>2, <2>4
    <3> QED
      BY <3>1, <3>2, <2>1
  <2>5. ASSUME NEW i \in 1 .. Len(t), m + Len(d) < i
        PROVE  t[i] = c[i - (m + Len(d))]
    BY <2>2, <2>3, <2>5, <1>1
  <2> QED
    BY <2>2, <2>3, <2>4, <2>5, <1>1
<1> HIDE DEF s, t, m
<1>5. Cut(t, s, m, k)
  <2>1. ASSUME NEW i \in 1 .. Len(t) PROVE t[i] = IF i <= m THEN s[i] ELSE s[i + k]
    <3>1. CASE i <= m
      <4>1. i \in 1 .. Len(s)
        BY <3>1, <1>1, <1>3
      <4> QED
        BY <4>1, <3>1, <1>3, <1>4
    <3>2. CASE i > m /\ i <= m + Len(d)
      <4>1. i + k \in 1 .. Len(s) /\ i + k > m /\ i + k <= m + Len(b) /\ i - m \in 1 .. Len(d)
            /\ (i + k) - m = (i - m) + k
        BY <3>2, <1>1, <1>2, <1>3
      <4>2. s[i + k] = b[(i - m) + k]
        BY <4>1, <1>1, <1>3
      <4>3. t[i] = d[i - m]
        BY <3>2, <1>1, <1>2, <1>4
      <4>4. d[i - m] = b[(i - m) + k]
        BY <4>1, <1>2
      <4> QED
        BY <4>2, <4>3, <4>4, <3>2, <1>1
    <3>3. CASE i > m + Len(d)
      <4>1. i + k \in 1 .. Len(s) /\ i + k > m + Len(b) /\ i > m
            /\ (i + k) - (m + Len(b)) = i - (m + Len(d))
        <5>1. ASSUME NEW p \in Nat, NEW q \in Nat, NEW n \in Nat, k \in Nat, m \in Nat, q = p - k,
                     i \in 1 .. m + q + n, i > m + q
              PROVE  i + k \in 1 .. m + p + n /\ i + k > m + p /\ i > m
                     /\ (i + k) - (m + p) = i - (m + q)
          BY <5>1
        <5>2. Len(b) \in Nat /\ Len(d) \in Nat /\ Len(c) \in Nat /\ k \in Nat /\ m \in Nat
              /\ Len(d) = Len(b) - k
          BY <1>1, <1>2
        <5>3. i \in 1 .. m + Len(d) + Len(c) /\ Len(s) = m + Len(b) + Len(c)
          BY <1>3, <1>4
        <5> QED
          BY <5>1, <5>2, <5>3, <3>3
      <4>2. s[i + k] = c[i - (m + Len(d))]
        BY <4>1, <1>1, <1>3
      <4>3. t[i] = c[i - (m + Len(d))]
        BY <3>3, <4>1, <1>1, <1>2, <1>4
      <4> QED
        BY <4>1, <4>2, <4>3, <1>1
    <3> QED
      BY <3>1, <3>2, <3>3, <1>1, <1>2
  <2> QED
    BY <2>1, <1>1, <1>2, <1>3, <1>4 DEF Cut
<1>6. ToSet(SubSeq(b, 1, k)) = {s[j] : j \in m + 1 .. m + k}
  <2> DEFINE e == SubSeq(b, 1, k)
  <2>1. Len(e) = k /\ DOMAIN e = 1 .. k /\ \A i \in 1 .. k : e[i] = b[i]
    <3>1. \A i \in 1 .. k : b[i] \in Events
      BY <1>1
    <3>2. e \in Seq(Events) /\ Len(e) = (IF 1 <= k THEN k - 1 + 1 ELSE 0)
          /\ \A i \in 1 .. k - 1 + 1 : e[i] = b[1 + i - 1]
      BY <1>1, <3>1, SubSeqProperties
    <3> QED
      BY <3>2, <1>1
  <2> HIDE DEF e
  <2>2. ASSUME NEW i \in 1 .. k PROVE e[i] = s[m + i] /\ m + i \in m + 1 .. m + k
    <3>1. m + i \in 1 .. Len(s) /\ m + i > m /\ m + i <= m + Len(b) /\ (m + i) - m = i
      BY <1>1, <1>3
    <3>2. s[m + i] = b[i]
      BY <3>1, <1>3, <1>1
    <3> QED
      BY <3>2, <2>1, <1>1
  <2>3. ASSUME NEW j \in m + 1 .. m + k PROVE s[j] = e[j - m] /\ j - m \in 1 .. k
    <3>1. j - m \in 1 .. k /\ m + (j - m) = j
      BY <1>1
    <3> QED
      BY <3>1, <2>2
  <2>4. ToSet(e) = {e[i] : i \in 1 .. k}
    BY <2>1 DEF ToSet
  <2>5. {e[i] : i \in 1 .. k} = {s[j] : j \in m + 1 .. m + k}
    <3>1. ASSUME NEW i \in 1 .. k PROVE e[i] \in {s[j] : j \in m + 1 .. m + k}
      BY <2>2
    <3>2. ASSUME NEW j \in m + 1 .. m + k PROVE s[j] \in {e[i] : i \in 1 .. k}
      BY <2>3
    <3> QED
      BY <3>1, <3>2
  <2> QED
    BY <2>4, <2>5 DEF e
<1>7. IsInjective(s)
  BY DEF s
<1>8. Thins(t, s, ToSet(SubSeq(b, 1, k)))
  BY <1>3, <1>5, <1>6, <1>7, CutThins
<1> QED
  BY <1>8 DEF s, t, d

\* Splitting a line by kind.
LEMMA SplitThins ==
  ASSUME NEW s \in Seq(Events), IsInjective(s)
  PROVE  /\ Select(s, Detections) \in Seq(Events)
         /\ Select(s, UsageEvents) \in Seq(Events)
         /\ Thins(Select(s, Detections) \o Select(s, UsageEvents), s, {})
<1> DEFINE d == Select(s, Detections)
           u == Select(s, UsageEvents)
           t == d \o u
           n == Len(s)
<1>1. d \in Seq(Events) /\ \E h : Embeds(h, d, s, Detections, n)
  BY SelectEmbeds
<1>2. u \in Seq(Events) /\ \E h : Embeds(h, u, s, UsageEvents, n)
  BY SelectEmbeds
<1>3. PICK h : Embeds(h, d, s, Detections, n)
  BY <1>1
<1>4. PICK g : Embeds(g, u, s, UsageEvents, n)
  BY <1>2
<1>5. /\ t \in Seq(Events) /\ Len(t) = Len(d) + Len(u)
      /\ \A i \in 1 .. Len(d) + Len(u) : t[i] = IF i <= Len(d) THEN d[i] ELSE u[i - Len(d)]
  BY <1>1, <1>2, ConcatProperties
<1>6. Len(d) \in Nat /\ Len(u) \in Nat /\ n \in Nat
  BY <1>1, <1>2
<1> HIDE DEF d, u, t, n
<1> DEFINE p(i) == IF i <= Len(d) THEN h[i] ELSE g[i - Len(d)]
<1>7. ASSUME NEW i \in 1 .. Len(t)
      PROVE  p(i) \in 1 .. n /\ t[i] = s[p(i)] /\ (t[i] \in UsageEvents <=> ~ (i <= Len(d)))
  <2>1. CASE i <= Len(d)
    <3>1. i \in 1 .. Len(d)
      BY <2>1
    <3>2. h[i] \in 1 .. n /\ d[i] = s[h[i]] /\ s[h[i]] \in Detections
      BY <3>1, <1>3 DEF Embeds
    <3> QED
      BY <3>2, <2>1, <1>5 DEF Detections
  <2>2. CASE ~ (i <= Len(d))
    <3>1. i - Len(d) \in 1 .. Len(u)
      BY <2>2, <1>5, <1>6
    <3>2. g[i - Len(d)] \in 1 .. n /\ u[i - Len(d)] = s[g[i - Len(d)]]
          /\ s[g[i - Len(d)]] \in UsageEvents
      BY <3>1, <1>4 DEF Embeds
    <3> QED
      BY <3>2, <2>2, <1>5
  <2> QED
    BY <2>1, <2>2
<1>8. ASSUME NEW i \in 1 .. Len(t), NEW j \in 1 .. Len(t), i < j,
             i <= Len(d) <=> j <= Len(d)
      PROVE  p(i) < p(j)
  <2>1. CASE j <= Len(d)
    <3>1. i \in 1 .. Len(d) /\ j \in 1 .. Len(d)
      BY <2>1, <1>8
    <3> QED
      BY <3>1, <1>8, <1>3 DEF Embeds
  <2>2. CASE ~ (j <= Len(d))
    <3>1. i - Len(d) \in 1 .. Len(u) /\ j - Len(d) \in 1 .. Len(u) /\ i - Len(d) < j - Len(d)
      BY <2>2, <1>8, <1>5, <1>6
    <3>2. g[i - Len(d)] < g[j - Len(d)]
      BY <3>1, <1>4 DEF Embeds
    <3> QED
      BY <3>2, <2>2, <1>8
  <2> QED
    BY <2>1, <2>2
<1>9. DOMAIN s = 1 .. n /\ DOMAIN t = 1 .. Len(t)
  BY <1>5 DEF n
<1>10. ASSUME NEW i \in 1 .. Len(t), NEW j \in 1 .. Len(t), i < j, SameKind(t[i], t[j])
       PROVE  p(i) < p(j)
  BY <1>7, <1>8, <1>10 DEF SameKind
<1>11. ASSUME NEW i \in DOMAIN t, NEW j \in DOMAIN t, i < j, SameKind(t[i], t[j])
       PROVE  Precedes(s, t[i], t[j])
  BY <1>7, <1>9, <1>10, <1>11 DEF Precedes
<1>12. IsInjective(t)
  <2>1. ASSUME NEW i \in 1 .. Len(t), NEW j \in 1 .. Len(t), i < j, t[i] = t[j] PROVE FALSE
    <3>1. p(i) < p(j)
      BY <1>10, <2>1 DEF SameKind
    <3>2. p(i) = p(j)
      BY <1>7, <1>9, <2>1 DEF IsInjective
    <3>3. p(i) \in Int /\ p(j) \in Int
      BY <1>6, <1>7
    <3> HIDE DEF p
    <3> QED
      BY <3>1, <3>2, <3>3
  <2>2. \A i, j \in 1 .. Len(t) : i < j \/ j < i \/ i = j
    BY <1>5, <1>6
  <2> QED
    BY <2>1, <2>2, <1>9 DEF IsInjective
<1>13. ToSet(t) = ToSet(s)
  <2>1. ASSUME NEW x \in ToSet(t) PROVE x \in ToSet(s)
    BY <1>7, <1>9 DEF ToSet
  <2>2. ASSUME NEW q \in 1 .. n PROVE s[q] \in ToSet(t)
    <3>1. CASE s[q] \in UsageEvents
      <4>1. PICK i \in 1 .. Len(u) : g[i] = q
        BY <3>1, <1>4 DEF Embeds
      <4>2. i + Len(d) \in 1 .. Len(t) /\ ~ (i + Len(d) <= Len(d)) /\ (i + Len(d)) - Len(d) = i
        BY <1>5, <1>6
      <4>3. t[i + Len(d)] = s[p(i + Len(d))]
        BY <4>2, <1>7
      <4>4. p(i + Len(d)) = q
        BY <4>1, <4>2
      <4> QED
        BY <4>2, <4>3, <4>4, <1>9 DEF ToSet
    <3>2. CASE s[q] \notin UsageEvents
      <4>1. s[q] \in Detections
        BY <3>2, <1>9 DEF Detections, n
      <4>2. PICK i \in 1 .. Len(d) : h[i] = q
        BY <4>1, <1>3 DEF Embeds
      <4>3. i \in 1 .. Len(t) /\ i <= Len(d)
        BY <1>5, <1>6
      <4>4. t[i] = s[q]
        BY <4>2, <4>3, <1>7
      <4> QED
        BY <4>3, <4>4, <1>9 DEF ToSet
    <3> QED
      BY <3>1, <3>2
  <2> QED
    BY <2>1, <2>2, <1>9 DEF ToSet
<1>14. Thins(t, s, {})
  BY <1>5, <1>11, <1>12, <1>13 DEF Thins
<1> QED
  BY <1>1, <1>2, <1>14 DEF d, u, t
----------------------------------------------------------------------------
(* The books: what the invariant says about the line and the histories.    *)

Books(line, ac, ak, lo) ==
  /\ line \in Seq(Events) /\ IsInjective(line)
  /\ ac \in Seq(Events) /\ IsInjective(ac)
  /\ ak \in SUBSET Events /\ lo \in SUBSET Events
  /\ ToSet(line) \cap (ak \cup lo) = {} /\ ak \cap lo = {}
  /\ ToSet(ac) = ToSet(line) \cup ak \cup lo
  \* The line keeps the order of each kind.
  /\ \A i, j \in DOMAIN line : i < j /\ SameKind(line[i], line[j])
       => Precedes(ac, line[i], line[j])
  \* What is acknowledged is no later than what waits.
  /\ \A x \in ak, y \in ToSet(line) : SameKind(x, y) => ~ Precedes(ac, y, x)

\* Of two events in a line of distinct ones only one can come first.
LEMMA PrecedesAsymmetric ==
  ASSUME NEW s \in Seq(Events), IsInjective(s), NEW x, NEW y, Precedes(s, x, y)
  PROVE  ~ Precedes(s, y, x)
<1>1. SUFFICES ASSUME Precedes(s, y, x) PROVE FALSE
  OBVIOUS
<1>2. PICK i \in DOMAIN s, j \in DOMAIN s : i < j /\ s[i] = x /\ s[j] = y
  BY DEF Precedes
<1>3. PICK a \in DOMAIN s, b \in DOMAIN s : a < b /\ s[a] = y /\ s[b] = x
  BY <1>1 DEF Precedes
<1>4. a = j /\ b = i
  BY <1>2, <1>3 DEF IsInjective
<1> QED
  BY <1>2, <1>3, <1>4

\* Events leave the line.  Those acknowledged leave before the ones of their
\* kind that stay.
LEMMA BooksThin ==
  ASSUME NEW line, NEW ac, NEW ak, NEW lo, NEW new, NEW R, NEW ak1, NEW lo1,
         Books(line, ac, ak, lo), Thins(new, line, R),
         \/ ak1 = ak /\ lo1 = lo \cup R
         \/ /\ ak1 = ak \cup R /\ lo1 = lo
            /\ \A x \in R, y \in ToSet(new) : SameKind(x, y) => Precedes(line, x, y)
  PROVE  Books(new, ac, ak1, lo1)
<1>1. R \subseteq ToSet(line) /\ ToSet(new) = ToSet(line) \ R /\ new \in Seq(Events)
      /\ IsInjective(new)
  BY DEF Thins
<1>2. ToSet(line) \subseteq Events
  BY DEF Books, ToSet
<1>3. ASSUME NEW i \in DOMAIN new, NEW j \in DOMAIN new, i < j, SameKind(new[i], new[j])
      PROVE  Precedes(ac, new[i], new[j])
  <2>1. PICK a \in DOMAIN line, b \in DOMAIN line : a < b /\ line[a] = new[i] /\ line[b] = new[j]
    BY <1>3 DEF Thins, Precedes
  <2> QED
    BY <2>1, <1>3 DEF Books
<1>4. ASSUME NEW x \in ak1, NEW y \in ToSet(new), SameKind(x, y)
      PROVE  ~ Precedes(ac, y, x)
  <2>1. CASE x \in ak
    BY <2>1, <1>1, <1>4 DEF Books
  <2>2. CASE x \notin ak
    <3>1. x \in R /\ Precedes(line, x, y)
      BY <2>2, <1>4
    <3>2. PICK a \in DOMAIN line, b \in DOMAIN line : a < b /\ line[a] = x /\ line[b] = y
      BY <3>1 DEF Precedes
    <3>3. Precedes(ac, x, y)
      BY <3>2, <1>4 DEF Books
    <3> QED
      BY <3>3, PrecedesAsymmetric DEF Books
  <2> QED
    BY <2>1, <2>2
<1>5. /\ ak1 \in SUBSET Events /\ lo1 \in SUBSET Events
      /\ ToSet(new) \cap (ak1 \cup lo1) = {} /\ ak1 \cap lo1 = {}
      /\ ToSet(ac) = ToSet(new) \cup ak1 \cup lo1
  BY <1>1, <1>2 DEF Books
<1> QED
  BY <1>1, <1>3, <1>4, <1>5 DEF Books

\* A new event joins the line.
LEMMA BooksAppend ==
  ASSUME NEW line, NEW ac, NEW ak, NEW lo, NEW e \in Events,
         Books(line, ac, ak, lo), e \notin ToSet(ac)
  PROVE  Books(Append(line, e), Append(ac, e), ak, lo)
<1> DEFINE l1 == Append(line, e)
           a1 == Append(ac, e)
<1>1. /\ l1 \in Seq(Events) /\ Len(l1) = Len(line) + 1
      /\ \A i \in 1 .. Len(line) : l1[i] = line[i]
      /\ l1[Len(line) + 1] = e
  BY AppendProperties DEF Books
<1>2. /\ a1 \in Seq(Events) /\ Len(a1) = Len(ac) + 1
      /\ \A i \in 1 .. Len(ac) : a1[i] = ac[i]
      /\ a1[Len(ac) + 1] = e
  BY AppendProperties DEF Books
<1>3. /\ line \in Seq(Events) /\ ac \in Seq(Events)
      /\ Len(line) \in Nat /\ Len(ac) \in Nat
      /\ DOMAIN line = 1 .. Len(line) /\ DOMAIN ac = 1 .. Len(ac)
  BY DEF Books
<1> HIDE DEF l1, a1
<1>4. DOMAIN l1 = 1 .. Len(line) + 1 /\ DOMAIN a1 = 1 .. Len(ac) + 1
  BY <1>1, <1>2, <1>3
<1>5. ToSet(l1) = ToSet(line) \cup {e} /\ ToSet(a1) = ToSet(ac) \cup {e}
  <2>1. \A i \in 1 .. Len(line) + 1 : i \in 1 .. Len(line) \/ i = Len(line) + 1
    BY <1>3
  <2>2. \A i \in 1 .. Len(ac) + 1 : i \in 1 .. Len(ac) \/ i = Len(ac) + 1
    BY <1>3
  <2>3. 1 .. Len(line) \subseteq 1 .. Len(line) + 1 /\ Len(line) + 1 \in 1 .. Len(line) + 1
        /\ 1 .. Len(ac) \subseteq 1 .. Len(ac) + 1 /\ Len(ac) + 1 \in 1 .. Len(ac) + 1
    BY <1>3
  <2>4. ToSet(l1) = ToSet(line) \cup {e}
    <3>1. ASSUME NEW x \in ToSet(l1) PROVE x \in ToSet(line) \cup {e}
      BY <1>1, <1>3, <1>4, <2>1 DEF ToSet
    <3>2. ASSUME NEW x \in ToSet(line) \cup {e} PROVE x \in ToSet(l1)
      BY <1>1, <1>3, <1>4, <2>3 DEF ToSet
    <3> QED
      BY <3>1, <3>2
  <2>5. ToSet(a1) = ToSet(ac) \cup {e}
    <3>1. ASSUME NEW x \in ToSet(a1) PROVE x \in ToSet(ac) \cup {e}
      BY <1>2, <1>3, <1>4, <2>2 DEF ToSet
    <3>2. ASSUME NEW x \in ToSet(ac) \cup {e} PROVE x \in ToSet(a1)
      BY <1>2, <1>3, <1>4, <2>3 DEF ToSet
    <3> QED
      BY <3>1, <3>2
  <2> QED
    BY <2>4, <2>5
<1>6. e \notin ToSet(line)
  BY DEF Books
<1>7. IsInjective(l1)
  <2>1. ASSUME NEW i \in 1 .. Len(line) + 1, NEW j \in 1 .. Len(line) + 1, l1[i] = l1[j]
        PROVE  i = j
    <3>1. ASSUME NEW k \in 1 .. Len(line) PROVE l1[k] = line[k] /\ line[k] # e
      BY <1>1, <1>3, <1>6 DEF ToSet
    <3>2. CASE i \in 1 .. Len(line) /\ j \in 1 .. Len(line)
      BY <3>1, <3>2, <2>1, <1>3 DEF Books, IsInjective
    <3>3. CASE ~ (i \in 1 .. Len(line) /\ j \in 1 .. Len(line))
      BY <3>1, <3>3, <2>1, <1>1, <1>3
    <3> QED
      BY <3>2, <3>3
  <2> QED
    BY <2>1, <1>4 DEF IsInjective
<1>8. IsInjective(a1)
  <2>1. ASSUME NEW i \in 1 .. Len(ac) + 1, NEW j \in 1 .. Len(ac) + 1, a1[i] = a1[j]
        PROVE  i = j
    <3>1. ASSUME NEW k \in 1 .. Len(ac) PROVE a1[k] = ac[k] /\ ac[k] # e
      BY <1>2, <1>3 DEF ToSet
    <3>2. CASE i \in 1 .. Len(ac) /\ j \in 1 .. Len(ac)
      BY <3>1, <3>2, <2>1, <1>3 DEF Books, IsInjective
    <3>3. CASE ~ (i \in 1 .. Len(ac) /\ j \in 1 .. Len(ac))
      BY <3>1, <3>3, <2>1, <1>2, <1>3
    <3> QED
      BY <3>2, <3>3
  <2> QED
    BY <2>1, <1>4 DEF IsInjective
<1>9. ASSUME NEW x, NEW y, Precedes(ac, x, y) PROVE Precedes(a1, x, y)
  <2>1. PICK a \in DOMAIN ac, b \in DOMAIN ac : a < b /\ ac[a] = x /\ ac[b] = y
    BY <1>9 DEF Precedes
  <2>2. a \in DOMAIN a1 /\ b \in DOMAIN a1 /\ a1[a] = x /\ a1[b] = y
    BY <2>1, <1>2, <1>3, <1>4
  <2> QED
    BY <2>1, <2>2 DEF Precedes
<1>10. ASSUME NEW x \in ToSet(ac) PROVE Precedes(a1, x, e)
  <2>1. PICK a \in 1 .. Len(ac) : ac[a] = x
    BY <1>3 DEF ToSet
  <2>2. a \in DOMAIN a1 /\ Len(ac) + 1 \in DOMAIN a1 /\ a < Len(ac) + 1
        /\ a1[a] = x /\ a1[Len(ac) + 1] = e
    BY <2>1, <1>2, <1>3, <1>4
  <2> QED
    BY <2>2 DEF Precedes
<1>11. ASSUME NEW i \in DOMAIN l1, NEW j \in DOMAIN l1, i < j, SameKind(l1[i], l1[j])
       PROVE  Precedes(a1, l1[i], l1[j])
  <2>1. i \in DOMAIN line /\ l1[i] = line[i]
    BY <1>11, <1>1, <1>3, <1>4
  <2>2. CASE j \in DOMAIN line
    <3>1. l1[j] = line[j]
      BY <2>2, <1>1, <1>3
    <3> QED
      BY <3>1, <2>1, <2>2, <1>9, <1>11 DEF Books
  <2>3. CASE j \notin DOMAIN line
    <3>1. l1[j] = e
      BY <2>3, <1>11, <1>1, <1>3, <1>4
    <3>2. line[i] \in ToSet(ac)
      <4>1. line[i] \in ToSet(line)
        BY <2>1 DEF ToSet
      <4> QED
        BY <4>1 DEF Books
    <3> QED
      BY <3>1, <3>2, <2>1, <1>10
  <2> QED
    BY <2>2, <2>3
<1>12. ASSUME NEW x \in ak, NEW y \in ToSet(l1), SameKind(x, y)
       PROVE  ~ Precedes(a1, y, x)
  <2>1. x \in ToSet(ac)
    BY DEF Books
  <2>2. SUFFICES ASSUME Precedes(a1, y, x) PROVE FALSE
    OBVIOUS
  <2>3. PICK a \in DOMAIN a1, b \in DOMAIN a1 : a < b /\ a1[a] = y /\ a1[b] = x
    BY <2>2 DEF Precedes
  <2>4. b \in DOMAIN ac
    BY <2>1, <2>3, <1>2, <1>3, <1>4
  <2>5. a \in DOMAIN ac
    BY <2>3, <2>4, <1>3, <1>4
  <2>6. Precedes(ac, y, x)
    BY <2>3, <2>4, <2>5, <1>2, <1>3 DEF Precedes
  <2>7. y \in ToSet(ac)
    BY <2>3, <2>5, <1>2, <1>3 DEF ToSet
  <2>8. y \in ToSet(line)
    BY <2>7, <1>5
  <2> QED
    BY <2>6, <2>8, <1>12 DEF Books
<1>13. /\ ak \in SUBSET Events /\ lo \in SUBSET Events
       /\ ToSet(l1) \cap (ak \cup lo) = {} /\ ak \cap lo = {}
       /\ ToSet(a1) = ToSet(l1) \cup ak \cup lo
  BY <1>5 DEF Books
<1> QED
  BY <1>1, <1>2, <1>7, <1>8, <1>11, <1>12, <1>13 DEF Books, l1, a1
----------------------------------------------------------------------------
(* What the operations do to the line.                                     *)

\* Taking the first k events of a line b \o c thins it, and they came before
\* everything that stays.
LEMMA PrefixThins ==
  ASSUME NEW b \in Seq(Events), NEW c \in Seq(Events), NEW k \in 0 .. Len(b),
         IsInjective(b \o c)
  PROVE  /\ Thins(SubSeq(b, k + 1, Len(b)) \o c, b \o c, ToSet(SubSeq(b, 1, k)))
         /\ \A x \in ToSet(SubSeq(b, 1, k)), y \in ToSet(SubSeq(b, k + 1, Len(b)) \o c) :
              Precedes(b \o c, x, y)
<1> DEFINE d == SubSeq(b, k + 1, Len(b))
           R == ToSet(SubSeq(b, 1, k))
<1>1. Len(b) \in Nat /\ \A i \in 1 .. Len(b) : b[i] \in Events
  OBVIOUS
<1>2. d \in Seq(Events)
  BY <1>1, SubSeqProperties
<1>3. <<>> \o b = b /\ <<>> \o d = d
  BY <1>2, ConcatEmptySeq
<1>4. Thins(d \o c, b \o c, R)
  <2>1. <<>> \in Seq(Events)
    OBVIOUS
  <2>2. IsInjective(<<>> \o b \o c)
    BY <1>3
  <2>3. Thins(<<>> \o d \o c, <<>> \o b \o c, R)
    BY <2>1, <2>2, MiddleThins
  <2> QED
    BY <2>3, <1>3
<1>5. ASSUME NEW x \in R, NEW y \in ToSet(d \o c) PROVE Precedes(b \o c, x, y)
  <2> DEFINE e == SubSeq(b, 1, k)
             s == b \o c
  <2>1. Len(e) = k /\ DOMAIN e = 1 .. k /\ \A i \in 1 .. k : e[i] = b[i]
    <3>1. \A i \in 1 .. k : b[i] \in Events
      BY <1>1
    <3>2. e \in Seq(Events) /\ Len(e) = (IF 1 <= k THEN k - 1 + 1 ELSE 0)
          /\ \A i \in 1 .. k - 1 + 1 : e[i] = b[1 + i - 1]
      BY <1>1, <3>1, SubSeqProperties
    <3> QED
      BY <3>2, <1>1
  <2>2. s \in Seq(Events) /\ Len(s) = Len(b) + Len(c)
        /\ \A i \in 1 .. Len(b) + Len(c) : s[i] = IF i <= Len(b) THEN b[i] ELSE c[i - Len(b)]
    BY ConcatProperties
  <2> HIDE DEF e, s
  <2>3. PICK i \in 1 .. k : x = e[i]
    BY <2>1 DEF ToSet, e
  <2>4. DOMAIN s = 1 .. Len(s)
    BY <2>2
  <2>5. \A p \in 1 .. k : p \in DOMAIN s /\ s[p] = e[p]
    BY <2>1, <2>2, <2>4, <1>1
  <2>6. y \in ToSet(s) \ R
    BY <1>4 DEF Thins, s
  <2>7. PICK j \in DOMAIN s : y = s[j]
    BY <2>6 DEF ToSet
  <2>8. ~ (j <= k)
    <3>1. SUFFICES ASSUME j <= k PROVE FALSE
      OBVIOUS
    <3>2. j \in 1 .. k
      BY <3>1, <2>2, <2>4
    <3>3. y = e[j]
      BY <3>2, <2>5, <2>7
    <3>4. y \in R
      BY <3>2, <3>3, <2>1 DEF ToSet, e
    <3> QED
      BY <3>4, <2>6
  <2>9. i < j
    BY <2>8, <2>4, <2>2
  <2> QED
    BY <2>3, <2>5, <2>7, <2>9 DEF Precedes, s
<1> QED
  BY <1>4, <1>5

\* Taking the first k events of the second part of a line thins it.
LEMMA SuffixThins ==
  ASSUME NEW a \in Seq(Events), NEW b \in Seq(Events), NEW k \in 0 .. Len(b),
         IsInjective(a \o b)
  PROVE  Thins(a \o SubSeq(b, k + 1, Len(b)), a \o b, ToSet(SubSeq(b, 1, k)))
<1> DEFINE d == SubSeq(b, k + 1, Len(b))
<1>1. \A i \in 1 .. Len(b) : b[i] \in Events
  OBVIOUS
<1>2. d \in Seq(Events)
  BY <1>1, SubSeqProperties
<1>3. a \o b \in Seq(Events) /\ a \o d \in Seq(Events)
  BY <1>2, ConcatProperties
<1>4. (a \o b) \o <<>> = a \o b /\ (a \o d) \o <<>> = a \o d
  BY <1>3, ConcatEmptySeq
<1>5. Thins((a \o d) \o <<>>, (a \o b) \o <<>>, ToSet(SubSeq(b, 1, k)))
  <2>1. IsInjective(a \o b \o <<>>) /\ <<>> \in Seq(Events)
    BY <1>4
  <2> QED
    BY <2>1, MiddleThins
<1> QED
  BY <1>4, <1>5

\* The cap takes the oldest, and never all of a buffer that has an event.
LEMMA CappedProperties ==
  ASSUME NEW s \in Seq(Events)
  PROVE  /\ Overflow(s) \in 0 .. Len(s)
         /\ s # <<>> => Overflow(s) < Len(s)
         /\ Capped(s) \in Seq(Events)
         /\ Len(Capped(s)) = Len(s) - Overflow(s)
         /\ Len(Capped(s)) <= BufferMax
<1>1. Len(s) \in Nat /\ BufferMax \in Nat \ {0}
  BY TelemetryAssumption
<1>2. Overflow(s) \in 0 .. Len(s) /\ (Len(s) # 0 => Overflow(s) < Len(s))
      /\ Len(s) - Overflow(s) <= BufferMax
  BY <1>1 DEF Overflow
<1>3. s # <<>> => Len(s) # 0
  OBVIOUS
<1>4. \A i \in Overflow(s) + 1 .. Len(s) : s[i] \in Events
  BY <1>1, <1>2
<1>5. Capped(s) \in Seq(Events)
      /\ Len(Capped(s)) = IF Overflow(s) + 1 <= Len(s) THEN Len(s) - (Overflow(s) + 1) + 1 ELSE 0
  BY <1>1, <1>2, <1>4, SubSeqProperties DEF Capped
<1> QED
  BY <1>1, <1>2, <1>3, <1>5

\* A flight that moves on to its next group keeps its owner and its events, and
\* has an empty group only when nothing is left of it.
LEMMA NextGroupProperties ==
  ASSUME NEW f \in Flight
  PROVE  /\ NextGroup(f) \in Flight
         /\ NextGroup(f).owner = f.owner
         /\ NextGroup(f).group \o NextGroup(f).later = f.group \o f.later
         /\ NextGroup(f).group = <<>> => f.group \o f.later = <<>>
<1>1. f.group \in Seq(Events) /\ f.later \in Seq(Events)
  BY DEF Flight
<1>2. CASE f.group = <<>>
  <2> DEFINE g == [f EXCEPT !.group = f.later, !.later = <<>>]
  <2>1. NextGroup(f) = g
    BY <1>2 DEF NextGroup
  <2>2. g \in Flight
    BY <1>1, EmptySeq DEF Flight
  <2>4. g.owner = f.owner /\ g.group = f.later /\ g.later = <<>>
    BY DEF Flight
  <2>7. f.later \o <<>> = f.later /\ <<>> \o f.later = f.later
    BY <1>1, ConcatEmptySeq
  <2> QED
    BY <2>1, <2>2, <2>4, <2>7, <1>2
<1>3. CASE f.group # <<>>
  BY <1>3 DEF NextGroup
<1> QED
  BY <1>2, <1>3

\* The flush of a single one is that one.
LEMMA FlightIs ==
  /\ \A f : flights = {f} => flight = f
  /\ \A f : flights' = {f} => flight' = f
BY DEF flight

\* The first chunk of a flush is posted: nothing leaves the line.
LEMMA TakeOffStep ==
  ASSUME NEW owner \in {"reporter", "heartbeat", "stop"},
         NEW events \in Seq(Events), IsInjective(events), events # <<>>,
         TakeOff(owner, events), flights = {}
  PROVE  /\ buffer' = <<>> /\ flushing' = TRUE
         /\ \E f \in Flight : flights' = {f} /\ f.group # <<>>
         /\ Thins(Line', events, {})
<1> DEFINE d == Select(events, Detections)
           u == Select(events, UsageEvents)
           f == [owner |-> owner, group |-> d, later |-> u]
<1>1. d \in Seq(Events) /\ u \in Seq(Events) /\ Thins(d \o u, events, {})
  BY SplitThins
<1> HIDE DEF d, u
<1>2. f \in Flight
  BY <1>1 DEF Flight
<1> DEFINE g == NextGroup(f)
<1>3. flights' = {g} /\ buffer' = <<>> /\ flushing' = TRUE
  BY DEF TakeOff, d, u
<1>4. /\ g \in Flight
      /\ g.group \o g.later = d \o u
      /\ g.group = <<>> => d \o u = <<>>
  BY <1>2, NextGroupProperties
<1> HIDE DEF g
<1>5. d \o u # <<>>
  <2>1. Len(events) \in Nat \ {0} /\ DOMAIN events = 1 .. Len(events)
    OBVIOUS
  <2>2. events[1] \in ToSet(events)
    BY <2>1 DEF ToSet
  <2>3. ToSet(d \o u) = ToSet(events)
    BY <1>1 DEF Thins
  <2>4. ToSet(<<>>) = {}
    BY DEF ToSet
  <2> QED
    BY <2>2, <2>3, <2>4
<1>6. Line' = d \o u
  <2>1. Line' = g.group \o g.later \o buffer'
    BY <1>3, FlightIs DEF Line
  <2>2. (d \o u) \o <<>> = d \o u
    BY <1>1, ConcatProperties, ConcatEmptySeq
  <2> QED
    BY <2>1, <2>2, <1>3, <1>4
<1> QED
  BY <1>1, <1>3, <1>4, <1>5, <1>6
----------------------------------------------------------------------------
(* The invariant.                                                          *)

TelemetryInv ==
  /\ TypeOK
  /\ SingleFlight
  /\ BufferCapped
  /\ Books(Line, accepted, acked, lost)

\* Concatenation of lines is associative.
LEMMA LinesJoin ==
  ASSUME NEW a \in Seq(Events), NEW b \in Seq(Events), NEW c \in Seq(Events)
  PROVE  (a \o b) \o c = a \o (b \o c)
BY ConcatAssociative

\* While a flush is in flight it is the only one.
LEMMA Alone ==
  ASSUME TelemetryInv, flights # {}
  PROVE  flushing /\ flights = {flight} /\ flight \in Flight /\ flight.group # <<>>
<1>1. PICK f \in flights : flights = {f} /\ flushing
  BY DEF TelemetryInv, SingleFlight
<1>2. flight = f
  BY <1>1, FlightIs
<1>3. f \in Flight /\ f.group # <<>>
  BY <1>1 DEF TelemetryInv, TypeOK
<1> QED
  BY <1>1, <1>2, <1>3

\* The line while a flush is in flight.
LEMMA LineInFlight ==
  ASSUME TelemetryInv, flights # {}
  PROVE  /\ flight \in Flight
         /\ flight.group \in Seq(Events) /\ flight.later \in Seq(Events)
         /\ Unsent(flight) \in Seq(Events)
         /\ Line = Unsent(flight) \o buffer
         /\ flight.later \o buffer \in Seq(Events)
         /\ Line = flight.group \o (flight.later \o buffer)
<1>1. flight \in Flight /\ buffer \in Seq(Events)
  BY Alone DEF TelemetryInv, TypeOK
<1>2. flight.group \in Seq(Events) /\ flight.later \in Seq(Events)
  BY <1>1 DEF Flight
<1>3. Unsent(flight) \in Seq(Events) /\ flight.later \o buffer \in Seq(Events)
  BY <1>1, <1>2, ConcatProperties DEF Unsent
<1>4. Line = (flight.group \o flight.later) \o buffer
  BY DEF Line
<1>5. (flight.group \o flight.later) \o buffer = flight.group \o (flight.later \o buffer)
  BY <1>1, <1>2, LinesJoin
<1> QED
  BY <1>1, <1>2, <1>3, <1>4, <1>5 DEF Unsent

\* The chunk is a beginning of the group, and not empty.
LEMMA ChunkProperties ==
  ASSUME TelemetryInv, flights # {}
  PROVE  \E k \in 1 .. Len(flight.group) :
           Chunk(flight) = SubSeq(flight.group, 1, k) /\ Len(Chunk(flight)) = k
<1> DEFINE g == flight.group
           k == Min({Batch, Len(g)})
<1>1. g \in Seq(Events) /\ g # <<>>
  BY LineInFlight, Alone
<1>2. Len(g) \in Nat \ {0} /\ Batch \in Nat \ {0}
  BY <1>1, TelemetryAssumption
<1> HIDE DEF g
<1>3. \E x \in {Batch, Len(g)} : \A y \in {Batch, Len(g)} : x <= y
  BY <1>2
<1>4. k \in {Batch, Len(g)} /\ \A y \in {Batch, Len(g)} : k <= y
  BY <1>3 DEF Min
<1>5. k \in 1 .. Len(g)
  BY <1>2, <1>4
<1>6. Chunk(flight) = SubSeq(g, 1, k)
  BY DEF Chunk, g
<1>7. \A i \in 1 .. k : g[i] \in Events
  BY <1>1, <1>5
<1>8. Len(Chunk(flight)) = IF 1 <= k THEN k - 1 + 1 ELSE 0
  BY <1>5, <1>6, <1>7, SubSeqProperties
<1> HIDE DEF k
<1>9. k \in 1 .. Len(g) /\ Chunk(flight) = SubSeq(g, 1, k) /\ Len(Chunk(flight)) = k
  BY <1>2, <1>5, <1>6, <1>8
<1> QED
  BY <1>9 DEF g

\* What the finally block and the end of a flush leave besides the line.
Rested ==
  /\ buffer' \in Seq(Events) /\ Len(buffer') <= BufferMax
  /\ flushing' \in BOOLEAN
  /\ flights' \in SUBSET Flight
  /\ \A f \in flights' : f.group # <<>>
  /\ SingleFlight'
  /\ phase' \in {"running", "stopping", "stopped", "exited"}

\* The end of a flight leaves the process in one of its phases, with no other flight.
LEMMA FlightReturns ==
  ASSUME TelemetryInv, flights # {}, Returns(flight)
  PROVE  /\ phase' \in {"running", "stopping", "stopped", "exited"}
         /\ flushing' = FALSE /\ flights' = {}
<1>1. flights' = {}
  BY Alone DEF Returns
<1> QED
  BY <1>1 DEF TelemetryInv, TypeOK, Returns

\* A chunk was answered for good: it leaves the line, and whatever stays comes
\* after it.
LEMMA ContinueStep ==
  ASSUME TelemetryInv, flights # {}, Continue(flight)
  PROVE  /\ Rested
         /\ Thins(Line', Line, ToSet(Chunk(flight)))
         /\ \A x \in ToSet(Chunk(flight)), y \in ToSet(Line') : Precedes(Line, x, y)
<1> DEFINE g == flight.group
           c == flight.later \o buffer
<1>1. PICK k \in 1 .. Len(g) : Chunk(flight) = SubSeq(g, 1, k) /\ Len(Chunk(flight)) = k
  BY ChunkProperties
<1>2. /\ flight \in Flight /\ g \in Seq(Events) /\ flight.later \in Seq(Events)
      /\ c \in Seq(Events) /\ Line = g \o c
  BY LineInFlight
<1>3. buffer \in Seq(Events) /\ Len(buffer) <= BufferMax /\ IsInjective(Line)
  BY DEF TelemetryInv, TypeOK, BufferCapped, Books
<1> DEFINE d == SubSeq(g, k + 1, Len(g))
           f == [flight EXCEPT !.group = d]
<1>4. d \in Seq(Events)
  <2>1. \A i \in k + 1 .. Len(g) : g[i] \in Events
    BY <1>2
  <2>2. k + 1 \in Int /\ Len(g) \in Int
    BY <1>2
  <2> QED
    BY <2>1, <2>2, SubSeqProperties
<1>5. k \in 0 .. Len(g)
  BY <1>2
<1>6. /\ Thins(d \o c, Line, ToSet(Chunk(flight)))
      /\ \A x \in ToSet(Chunk(flight)), y \in ToSet(d \o c) : Precedes(Line, x, y)
  BY <1>1, <1>2, <1>3, <1>5, PrefixThins
<1>7. f \in Flight /\ f.group = d /\ f.later = flight.later /\ f.owner = flight.owner
  BY <1>2, <1>4 DEF Flight
<1>8. Shorter(flight) = NextGroup(f)
  BY <1>1 DEF Shorter
<1>9. /\ Shorter(flight) \in Flight
      /\ Shorter(flight).group \o Shorter(flight).later = d \o flight.later
      /\ Shorter(flight).group = <<>> => d \o flight.later = <<>>
  BY <1>7, <1>8, NextGroupProperties
<1>10. d \o c = (d \o flight.later) \o buffer
  BY <1>2, <1>3, <1>4, LinesJoin
<1>11. CASE Shorter(flight).group # <<>>
  <2> DEFINE h == Shorter(flight)
  <2>1. flights' = {h} /\ buffer' = buffer /\ flushing' = flushing /\ phase' = phase
    BY <1>11, Alone DEF Continue
  <2>2. h \in Flight /\ h.group # <<>> /\ h.group \o h.later = d \o flight.later
    BY <1>9, <1>11
  <2> HIDE DEF h
  <2>3. Line' = d \o c
    BY <2>1, <2>2, <1>10, FlightIs DEF Line
  <2>4. SingleFlight'
    BY <2>1, Alone DEF SingleFlight
  <2>5. Rested
    BY <2>1, <2>2, <2>4, <1>3, Alone DEF Rested, TelemetryInv, TypeOK
  <2> QED
    BY <2>3, <2>5, <1>6
<1>12. CASE Shorter(flight).group = <<>>
  <2>1. flights' = {} /\ buffer' = buffer /\ flushing' = FALSE /\ Returns(flight)
    BY <1>12, FlightReturns DEF Continue
  <2>2. d \o c = buffer
    BY <1>3, <1>9, <1>10, <1>12, ConcatEmptySeq
  <2>3. Line' = d \o c
    BY <2>1, <2>2 DEF Line
  <2>4. Rested
    BY <2>1, <1>3, FlightReturns DEF Rested, SingleFlight
  <2> QED
    BY <2>3, <2>4, <1>6
<1> QED
  BY <1>11, <1>12

\* A flush fails: the rest is put back, and the cap takes from its beginning.
LEMMA LandStep ==
  ASSUME TelemetryInv, flights # {}, Land(flight, Unsent(flight))
  PROVE  /\ Rested
         /\ \E R : Thins(Line', Line, R) /\ lost' = lost \cup R
<1>1. Line = Unsent(flight) \o buffer /\ Line \in Seq(Events) /\ IsInjective(Line)
  BY LineInFlight DEF TelemetryInv, Books
<1>2. /\ buffer' = Capped(Line) /\ lost' = lost \cup Dropped(Line)
      /\ flushing' = FALSE /\ flights' = {} /\ Returns(flight)
  BY <1>1, FlightReturns DEF Land
<1>3. Line' = Capped(Line)
  BY <1>2 DEF Line
<1> DEFINE k == Overflow(Line)
<1>4. k \in 0 .. Len(Line) /\ Capped(Line) \in Seq(Events) /\ Len(Capped(Line)) <= BufferMax
  BY <1>1, CappedProperties
<1>5. Thins(<<>> \o SubSeq(Line, k + 1, Len(Line)), <<>> \o Line, ToSet(SubSeq(Line, 1, k)))
  <2>1. <<>> \in Seq(Events) /\ IsInjective(<<>> \o Line)
    BY <1>1, ConcatEmptySeq
  <2> QED
    BY <2>1, <1>1, <1>4, SuffixThins
<1>6. Thins(Capped(Line), Line, Dropped(Line))
  <2>1. <<>> \o Line = Line /\ <<>> \o Capped(Line) = Capped(Line)
    BY <1>1, <1>4, ConcatEmptySeq
  <2> QED
    BY <2>1, <1>5 DEF Capped, Dropped
<1>7. Rested
  BY <1>2, <1>4, FlightReturns DEF Rested, SingleFlight
<1> QED
  BY <1>2, <1>3, <1>6, <1>7

\* Cancelled: everything in flight is given up.
LEMMA AbortedStep ==
  ASSUME TelemetryInv, flights # {}, flights' = {}, UNCHANGED buffer
  PROVE  Thins(Line', Line, ToSet(flight.group \o flight.later))
<1> DEFINE b == flight.group \o flight.later
<1>1. b \in Seq(Events) /\ Line = b \o buffer /\ buffer \in Seq(Events) /\ IsInjective(Line)
  BY LineInFlight DEF TelemetryInv, TypeOK, Books, Unsent
<1> HIDE DEF b
<1>2. Len(b) \in 0 .. Len(b) /\ Len(b) \in Int /\ Len(b) + 1 \in Int /\ Len(b) < Len(b) + 1
  BY <1>1
<1>3. SubSeq(b, Len(b) + 1, Len(b)) = <<>> /\ SubSeq(b, 1, Len(b)) = b
  BY <1>1, <1>2, SubSeqEmpty, SubSeqFull
<1>4. Thins(SubSeq(b, Len(b) + 1, Len(b)) \o buffer, b \o buffer, ToSet(SubSeq(b, 1, Len(b))))
  BY <1>1, <1>2, PrefixThins
<1>5. <<>> \o buffer = buffer
  BY <1>1, ConcatEmptySeq
<1>6. Line' = buffer
  BY DEF Line
<1> QED
  BY <1>1, <1>3, <1>4, <1>5, <1>6 DEF b

\* The cap takes the oldest events out of a line, and never the newest one.
LEMMA CapThins ==
  ASSUME NEW a \in Seq(Events), NEW s \in Seq(Events), s # <<>>, IsInjective(a \o s)
  PROVE  /\ Thins(a \o Capped(s), a \o s, Dropped(s))
         /\ s[Len(s)] \notin Dropped(s)
<1> DEFINE k == Overflow(s)
           b == a \o s
<1>1. k \in 0 .. Len(s) /\ k < Len(s) /\ Len(s) \in Nat /\ Len(a) \in Nat
  BY CappedProperties
<1>2. Thins(a \o SubSeq(s, k + 1, Len(s)), a \o s, ToSet(SubSeq(s, 1, k)))
  BY <1>1, SuffixThins
<1>3. /\ b \in Seq(Events) /\ Len(b) = Len(a) + Len(s)
      /\ \A i \in 1 .. Len(a) + Len(s) : b[i] = IF i <= Len(a) THEN a[i] ELSE s[i - Len(a)]
  BY ConcatProperties
<1>4. IsInjective(b) /\ DOMAIN b = 1 .. Len(a) + Len(s)
  BY <1>3
<1> HIDE DEF b, k
<1>5. ASSUME NEW i \in 1 .. Len(s) PROVE b[Len(a) + i] = s[i] /\ Len(a) + i \in DOMAIN b
  <2>1. Len(a) + i \in 1 .. Len(a) + Len(s) /\ ~ (Len(a) + i <= Len(a)) /\ (Len(a) + i) - Len(a) = i
    BY <1>1
  <2> QED
    BY <2>1, <1>3, <1>4
<1>6. SubSeq(s, 1, k) \in Seq(Events) /\ DOMAIN SubSeq(s, 1, k) = 1 .. k
      /\ \A i \in 1 .. k : SubSeq(s, 1, k)[i] = s[i]
  <2>1. \A i \in 1 .. k : s[i] \in Events
    BY <1>1
  <2>2. SubSeq(s, 1, k) \in Seq(Events) /\ Len(SubSeq(s, 1, k)) = (IF 1 <= k THEN k - 1 + 1 ELSE 0)
        /\ \A i \in 1 .. k - 1 + 1 : SubSeq(s, 1, k)[i] = s[1 + i - 1]
    BY <1>1, <2>1, SubSeqProperties
  <2> QED
    BY <2>2, <1>1
<1>7. ASSUME s[Len(s)] \in ToSet(SubSeq(s, 1, k)) PROVE FALSE
  <2>1. PICK i \in 1 .. k : s[i] = s[Len(s)]
    BY <1>6, <1>7 DEF ToSet
  <2>2. i \in 1 .. Len(s) /\ Len(s) \in 1 .. Len(s) /\ i # Len(s)
    BY <1>1
  <2>3. b[Len(a) + i] = b[Len(a) + Len(s)]
    BY <2>1, <2>2, <1>5
  <2>4. Len(a) + i = Len(a) + Len(s)
    BY <2>2, <2>3, <1>4, <1>5 DEF IsInjective
  <2> QED
    BY <2>2, <2>4, <1>1
<1> QED
  BY <1>2, <1>7 DEF Capped, Dropped, k

\* A line is itself without nothing.
LEMMA ThinsReflexive ==
  ASSUME NEW s \in Seq(Events), IsInjective(s)
  PROVE  Thins(s, s, {})
BY DEF Thins, Precedes

\* The empty line is any line without all of its events.
LEMMA NothingStays ==
  ASSUME NEW s \in Seq(Events)
  PROVE  Thins(<<>>, s, ToSet(s))
<1>1. <<>> \in Seq(Events) /\ ToSet(<<>>) = {} /\ IsInjective(<<>>)
  BY DEF ToSet, IsInjective
<1> QED
  BY <1>1 DEF Thins

\* The events of a concatenation are those of its parts.
LEMMA JoinedSet ==
  ASSUME NEW a \in Seq(Events), NEW b \in Seq(Events)
  PROVE  ToSet(a \o b) = ToSet(a) \cup ToSet(b)
<1>1. Range(a \o b) = Range(a) \cup Range(b)
  BY RangeConcatenation
<1> QED
  BY <1>1 DEF Range, ToSet

----------------------------------------------------------------------------
(* Every step is one of three.                                             *)

\* Events leave the line, given up.
GivesUp ==
  /\ \E R : Thins(Line', Line, R) /\ lost' = lost \cup R
  /\ UNCHANGED <<accepted, acked>>

\* Events leave the line, acknowledged, before all that stay.
Acknowledges ==
  /\ \E R : /\ Thins(Line', Line, R) /\ acked' = acked \cup R
            /\ \A x \in R, y \in ToSet(Line') : Precedes(Line, x, y)
  /\ UNCHANGED <<accepted, lost>>

\* An event joins the line, and others may leave it, given up.
Accepts ==
  \E e \in Events :
    /\ e \notin ToSet(accepted)
    /\ accepted' = Append(accepted, e)
    /\ \E R : Thins(Line', Append(Line, e), R) /\ e \notin R /\ lost' = lost \cup R
    /\ UNCHANGED acked

\* A report accepts its event, whatever its flush and the cap then do.
LEMMA ReportStep ==
  ASSUME TelemetryInv, NEW e \in Events, Report(e)
  PROVE  Rested /\ Accepts
<1> DEFINE grown == Append(buffer, e)
           line == Append(Line, e)
<1>1. /\ buffer \in Seq(Events) /\ Len(buffer) <= BufferMax /\ phase \in {"running", "stopping", "stopped", "exited"}
      /\ flights \in SUBSET Flight /\ flushing \in BOOLEAN
      /\ \A f \in flights : f.group # <<>>
      /\ SingleFlight
      /\ Line \in Seq(Events)
  BY DEF TelemetryInv, TypeOK, BufferCapped, SingleFlight, Books
<1>2. Books(line, Append(accepted, e), acked, lost)
  BY BooksAppend DEF TelemetryInv, Report
<1>3. IsInjective(line) /\ line \in Seq(Events)
  BY <1>2 DEF Books
<1>4. grown \in Seq(Events) /\ grown # <<>> /\ Len(grown) = Len(buffer) + 1
      /\ grown[Len(buffer) + 1] = e
  BY <1>1, AppendProperties
<1>5. grown[Len(grown)] = e
  BY <1>4
<1> HIDE DEF grown, line
<1>6. Capped(grown) \in Seq(Events) /\ Len(Capped(grown)) <= BufferMax
  BY <1>4, CappedProperties
<1>7. /\ e \notin ToSet(accepted) /\ accepted' = Append(accepted, e)
      /\ lost' = lost \cup Dropped(grown)
      /\ UNCHANGED <<acked, phase>>
  BY DEF Report, grown
<1>8. Len(Capped(grown)) >= Threshold /\ ~flushing =>
        TakeOff("reporter", Capped(grown))
  BY DEF Report, grown
<1>9. ~ (Len(Capped(grown)) >= Threshold /\ ~flushing) =>
        buffer' = Capped(grown) /\ flushing' = flushing /\ flights' = flights
  BY DEF Report, grown
<1>10. CASE flights = {}
  <2>1. line = grown
    BY <1>10 DEF line, grown, Line
  <2>2. <<>> \o grown = grown /\ <<>> \o Capped(grown) = Capped(grown) /\ <<>> \in Seq(Events)
    BY <1>4, <1>6, ConcatEmptySeq
  <2>3. IsInjective(<<>> \o grown)
    BY <2>1, <2>2, <1>3
  <2>4. Thins(<<>> \o Capped(grown), <<>> \o grown, Dropped(grown)) /\ grown[Len(grown)] \notin Dropped(grown)
    BY <2>2, <2>3, <1>4, CapThins
  <2>5. Thins(Capped(grown), line, Dropped(grown)) /\ e \notin Dropped(grown)
    BY <2>1, <2>2, <2>4, <1>5
  <2>6. CASE Len(Capped(grown)) >= Threshold /\ ~flushing
    <3>1. TakeOff("reporter", Capped(grown))
      BY <2>6, <1>8
    <3>2. IsInjective(Capped(grown))
      BY <2>5 DEF Thins
    <3>3. Capped(grown) # <<>>
      <4>1. Len(Capped(grown)) > 0
        BY <2>6, <1>6, TelemetryAssumption
      <4> QED
        BY <4>1
    <3>4. /\ buffer' = <<>> /\ flushing' = TRUE
          /\ \E f \in Flight : flights' = {f} /\ f.group # <<>>
          /\ Thins(Line', Capped(grown), {})
      BY <3>1, <3>2, <3>3, <1>6, <1>10, TakeOffStep
    <3>5. Thins(Line', line, Dropped(grown) \cup {})
      BY <3>4, <2>5, ThinsTransitive
    <3>6. Thins(Line', line, Dropped(grown))
      <4>1. Dropped(grown) \cup {} = Dropped(grown)
        OBVIOUS
      <4> QED
        BY <3>5, <4>1
    <3>7. Rested
      <4>1. <<>> \in Seq(Events) /\ Len(<<>>) <= BufferMax
        BY TelemetryAssumption
      <4> QED
        BY <3>4, <4>1, <1>1, <1>7 DEF Rested, SingleFlight
    <3> QED
      BY <3>6, <3>7, <2>5, <1>7 DEF Accepts, line
  <2>7. CASE ~ (Len(Capped(grown)) >= Threshold /\ ~flushing)
    <3>1. buffer' = Capped(grown) /\ flushing' = flushing /\ flights' = flights
      BY <2>7, <1>9
    <3>2. Line' = Capped(grown)
      BY <3>1, <1>10 DEF Line
    <3>3. Rested
      BY <3>1, <1>1, <1>6, <1>7 DEF Rested, SingleFlight
    <3> QED
      BY <3>2, <3>3, <2>5, <1>7 DEF Accepts, line
  <2> QED
    BY <2>6, <2>7
<1>11. CASE flights # {}
  <2>1. Unsent(flight) \in Seq(Events) /\ Line = Unsent(flight) \o buffer
    BY <1>11, LineInFlight
  <2>2. line = Unsent(flight) \o grown
    <3>1. <<e>> \in Seq(Events) /\ grown = buffer \o <<e>> /\ line = Line \o <<e>>
      BY <1>1, AppendIsConcat DEF grown, line
    <3> QED
      BY <3>1, <2>1, <1>1, LinesJoin
  <2>3. Thins(Unsent(flight) \o Capped(grown), line, Dropped(grown)) /\ e \notin Dropped(grown)
    BY <2>1, <2>2, <1>3, <1>4, <1>5, CapThins
  <2>4. buffer' = Capped(grown) /\ flushing' = flushing /\ flights' = flights
    BY <1>1, <1>9, <1>11, Alone
  <2>5. Line' = Unsent(flight) \o Capped(grown)
    <3>1. flights' = {flight} /\ flight' = flight
      BY <2>4, <1>11, Alone, FlightIs
    <3> QED
      BY <3>1, <2>4 DEF Line, Unsent
  <2>6. Rested
    BY <2>4, <1>1, <1>6, <1>7 DEF Rested, SingleFlight
  <2> QED
    BY <2>3, <2>5, <2>6, <1>7 DEF Accepts, line
<1> QED
  BY <1>10, <1>11
\* What the invariant says besides the books, in the words of Rested.
LEMMA AtRest ==
  ASSUME TelemetryInv
  PROVE  /\ buffer \in Seq(Events) /\ Len(buffer) <= BufferMax
         /\ flushing \in BOOLEAN /\ flights \in SUBSET Flight
         /\ \A f \in flights : f.group # <<>>
         /\ SingleFlight
         /\ phase \in {"running", "stopping", "stopped", "exited"}
         /\ Line \in Seq(Events) /\ IsInjective(Line)
         /\ accepted \in Seq(Events)
         /\ ToSet(Line) \subseteq ToSet(accepted)
         /\ acked \in SUBSET Events /\ lost \in SUBSET Events
BY DEF TelemetryInv, TypeOK, BufferCapped, SingleFlight, Books

\* A step that leaves the line and the histories alone.
LEMMA IdleStep ==
  ASSUME TelemetryInv, UNCHANGED <<buffer, flushing, flights, accepted, acked, lost>>,
         phase' \in {"running", "stopping", "stopped", "exited"}
  PROVE  Rested /\ GivesUp
<1>1. Line' = Line
  BY DEF Line, flight
<1>2. Thins(Line', Line, {}) /\ lost' = lost \cup {}
  BY <1>1, AtRest, ThinsReflexive
<1>3. GivesUp
  BY <1>2 DEF GivesUp
<1> QED
  BY <1>3, AtRest DEF Rested, SingleFlight

\* The heartbeat and stop() start flushes of the whole buffer.
LEMMA FlushStep ==
  ASSUME TelemetryInv, NEW owner \in {"heartbeat", "stop"}, ~flushing, buffer # <<>>,
         TakeOff(owner, buffer),
         UNCHANGED <<phase, accepted, acked, lost>>
  PROVE  Rested /\ GivesUp
<1>1. flights = {} /\ Line = buffer /\ IsInjective(buffer) /\ buffer \in Seq(Events)
  BY AtRest DEF Line, SingleFlight
<1>2. /\ buffer' = <<>> /\ flushing' = TRUE
      /\ \E f \in Flight : flights' = {f} /\ f.group # <<>>
      /\ Thins(Line', Line, {})
  BY <1>1, TakeOffStep
<1>3. lost' = lost \cup {}
  OBVIOUS
<1>4. GivesUp
  BY <1>2, <1>3 DEF GivesUp
<1>5. <<>> \in Seq(Events) /\ Len(<<>>) <= BufferMax
  BY TelemetryAssumption
<1> QED
  BY <1>2, <1>4, <1>5, AtRest DEF Rested, SingleFlight

\* The answer to a POST acknowledges its chunk, gives it up, or requeues what is
\* unsent and gives up what the buffer cannot hold.
LEMMA AnswerStep ==
  ASSUME TelemetryInv, NEW f \in flights, Acknowledged(f) \/ Rejected(f) \/ Fails(f)
  PROVE  Rested /\ (GivesUp \/ Acknowledges)
<1>1. flights # {} /\ f = flight
  BY Alone
<1>2. CASE Acknowledged(f)
  <2>1. /\ Rested /\ Thins(Line', Line, ToSet(Chunk(flight)))
        /\ \A x \in ToSet(Chunk(flight)), y \in ToSet(Line') : Precedes(Line, x, y)
    BY <1>1, <1>2, ContinueStep DEF Acknowledged
  <2> QED
    BY <2>1, <1>1, <1>2 DEF Acknowledged, Acknowledges
<1>3. CASE Rejected(f)
  <2>1. Rested /\ Thins(Line', Line, ToSet(Chunk(flight)))
    BY <1>1, <1>3, ContinueStep DEF Rejected
  <2>2. UNCHANGED <<accepted, acked>> /\ lost' = lost \cup ToSet(Chunk(flight))
    BY <1>1, <1>3 DEF Rejected
  <2> QED
    BY <2>1, <2>2 DEF GivesUp
<1>4. CASE Fails(f)
  <2>1. Rested /\ \E R : Thins(Line', Line, R) /\ lost' = lost \cup R
    BY <1>1, <1>4, LandStep DEF Fails
  <2>2. UNCHANGED <<accepted, acked>>
    BY <1>4 DEF Fails
  <2> QED
    BY <2>1, <2>2 DEF GivesUp
<1> QED
  BY <1>2, <1>3, <1>4

\* Cancelling the heartbeat's flush gives up what it had in hand.
LEMMA StopCancelsStep ==
  ASSUME TelemetryInv, StopCancels
  PROVE  Rested /\ GivesUp
<1>1. phase' \in {"running", "stopping", "stopped", "exited"}
      /\ UNCHANGED <<accepted, acked>>
  BY DEF StopCancels
<1> DEFINE F == {f \in flights : f.owner = "heartbeat"}
<1>2. UNCHANGED buffer /\ Aborted(F)
  BY DEF StopCancels
<1> HIDE DEF F
<1>3. CASE F = {}
  <2>1. Aboard(F) = {}
    BY <1>3 DEF Aboard
  <2>2. UNCHANGED <<flushing, flights, lost>>
    BY <2>1, <1>2, <1>3 DEF Aborted
  <2> QED
    BY <2>2, <1>1, <1>2, IdleStep
<1>4. CASE F # {}
  <2>1. flights # {} /\ F = {flight} /\ flights = {flight}
    BY <1>4, Alone DEF F
  <2>2. Aboard(F) = ToSet(Unsent(flight))
    BY <2>1 DEF Aboard
  <2>3. lost' = lost \cup ToSet(Unsent(flight)) /\ flushing' = FALSE /\ flights' = {}
    BY <2>1, <2>2, <1>2, <1>4 DEF Aborted
  <2>4. Thins(Line', Line, ToSet(Unsent(flight)))
    BY <2>1, <2>3, <1>2, AbortedStep DEF Unsent
  <2>5. GivesUp
    BY <2>3, <2>4, <1>1 DEF GivesUp
  <2> QED
    BY <2>3, <2>5, <1>1, <1>2, AtRest DEF Rested, SingleFlight
<1> QED
  BY <1>3, <1>4

\* The end of the process gives up whatever is left.
LEMMA ExitsStep ==
  ASSUME TelemetryInv, Exits
  PROVE  Rested /\ GivesUp
<1>1. /\ buffer' = <<>> /\ flushing' = FALSE /\ flights' = {} /\ phase' = "exited"
      /\ UNCHANGED <<accepted, acked>>
      /\ lost' = lost \cup ToSet(buffer) \cup Aboard(flights)
  BY DEF Exits
<1>2. Line' = <<>>
  BY <1>1 DEF Line
<1>3. Thins(Line', Line, ToSet(Line))
  BY <1>2, AtRest, NothingStays
<1>4. lost' = lost \cup ToSet(Line)
  <2>1. CASE flights = {}
    <3>1. Line = buffer /\ Aboard(flights) = {}
      BY <2>1 DEF Line, Aboard
    <3> QED
      BY <3>1, <1>1
  <2>2. CASE flights # {}
    <3>1. flights = {flight}
      BY <2>2, Alone
    <3>2. Aboard(flights) = ToSet(Unsent(flight))
      BY <3>1 DEF Aboard
    <3>3. ToSet(Line) = ToSet(Unsent(flight)) \cup ToSet(buffer)
      BY <2>2, LineInFlight, AtRest, JoinedSet
    <3> QED
      BY <3>2, <3>3, <1>1
  <2> QED
    BY <2>1, <2>2
<1>6. GivesUp
  BY <1>1, <1>3, <1>4 DEF GivesUp
<1>7. <<>> \in Seq(Events) /\ Len(<<>>) <= BufferMax
  BY TelemetryAssumption
<1> QED
  BY <1>1, <1>6, <1>7 DEF Rested, SingleFlight

\* Every step of the buffer, with the parts of the state the line depends on.
LEMMA StepKinds ==
  ASSUME TelemetryInv, [Next]_vars
  PROVE  Rested /\ (GivesUp \/ Acknowledges \/ Accepts)
<1>1. CASE \E e \in Events : Report(e)
  BY <1>1, ReportStep
<1>2. CASE HeartbeatFlushes
  BY <1>2, FlushStep DEF HeartbeatFlushes
<1>3. CASE \E f \in flights : Acknowledged(f) \/ Rejected(f) \/ Fails(f)
  BY <1>3, AnswerStep
<1>4. CASE HeartbeatEnds
  BY <1>4, IdleStep, AtRest DEF HeartbeatEnds
<1>5. CASE StopCancels
  BY <1>5, StopCancelsStep
<1>6. CASE StopFlushes
  <2>1. CASE flushing \/ buffer = <<>>
    BY <1>6, <2>1, IdleStep DEF StopFlushes
  <2>2. CASE ~ (flushing \/ buffer = <<>>)
    BY <1>6, <2>2, FlushStep DEF StopFlushes
  <2> QED
    BY <2>1, <2>2
<1>7. CASE Exits
  BY <1>7, ExitsStep
<1>8. CASE CloudChanges
  BY <1>8, IdleStep, AtRest DEF CloudChanges
<1>9. CASE UNCHANGED vars
  BY <1>9, IdleStep, AtRest DEF vars
<1> QED
  BY <1>1, <1>2, <1>3, <1>4, <1>5, <1>6, <1>7, <1>8, <1>9 DEF Next

\* The variables that no event depends on keep their types.
LEMMA LoopAndCloudType ==
  ASSUME TypeOK, [Next]_vars
  PROVE  beating' \in BOOLEAN /\ cloud' \in {"up", "down"}
BY DEF TypeOK, Next, vars, Report, HeartbeatFlushes, Acknowledged, Rejected, Fails,
       HeartbeatEnds, StopCancels, StopFlushes, Exits, CloudChanges

\* Each of the three kinds of steps leaves the books in order.
LEMMA BooksKept ==
  ASSUME TelemetryInv, GivesUp \/ Acknowledges \/ Accepts
  PROVE  Books(Line', accepted', acked', lost')
<1>0. Books(Line, accepted, acked, lost)
  BY DEF TelemetryInv
<1>1. CASE GivesUp
  <2>1. PICK R : Thins(Line', Line, R) /\ lost' = lost \cup R
    BY <1>1 DEF GivesUp
  <2>3. Books(Line', accepted, acked, lost')
    BY <1>0, <2>1, BooksThin
  <2> QED
    BY <2>3, <1>1 DEF GivesUp
<1>2. CASE Acknowledges
  <2>1. PICK R : /\ Thins(Line', Line, R) /\ acked' = acked \cup R
                 /\ \A x \in R, y \in ToSet(Line') : Precedes(Line, x, y)
    BY <1>2 DEF Acknowledges
  <2>2. Books(Line', accepted, acked', lost)
    BY <1>0, <2>1, BooksThin
  <2> QED
    BY <2>2, <1>2 DEF Acknowledges
<1>3. CASE Accepts
  <2>1. PICK e \in Events :
          /\ e \notin ToSet(accepted)
          /\ accepted' = Append(accepted, e)
          /\ \E R : Thins(Line', Append(Line, e), R) /\ e \notin R /\ lost' = lost \cup R
          /\ UNCHANGED acked
    BY <1>3 DEF Accepts
  <2>2. PICK R : Thins(Line', Append(Line, e), R) /\ lost' = lost \cup R
    BY <2>1
  <2>3. Books(Append(Line, e), accepted', acked, lost)
    BY <1>0, <2>1, BooksAppend
  <2>4. Books(Line', accepted', acked, lost')
    BY <2>2, <2>3, BooksThin
  <2> QED
    BY <2>1, <2>4
<1> QED
  BY <1>1, <1>2, <1>3

\* The invariant holds at the start.
LEMMA InitInv == Init => TelemetryInv
<1> SUFFICES ASSUME Init PROVE TelemetryInv
  OBVIOUS
<1>1. Line = <<>> /\ <<>> \in Seq(Events) /\ ToSet(<<>>) = {} /\ IsInjective(<<>>)
      /\ DOMAIN <<>> = {} /\ Len(<<>>) = 0
  BY DEF Init, Line, ToSet, IsInjective
<1>2. TypeOK
  BY <1>1 DEF Init, TypeOK
<1>3. SingleFlight
  BY DEF Init, SingleFlight
<1>4. BufferCapped
  BY <1>1, TelemetryAssumption DEF Init, BufferCapped
<1>5. Books(Line, accepted, acked, lost)
  BY <1>1 DEF Init, Books
<1> QED
  BY <1>2, <1>3, <1>4, <1>5 DEF TelemetryInv

\* Every step preserves the invariant.
LEMMA NextInv == TelemetryInv /\ [Next]_vars => TelemetryInv'
<1> SUFFICES ASSUME TelemetryInv, [Next]_vars PROVE TelemetryInv'
  OBVIOUS
<1>1. Rested /\ Books(Line', accepted', acked', lost')
  BY StepKinds, BooksKept
<1>2. beating' \in BOOLEAN /\ cloud' \in {"up", "down"}
  BY LoopAndCloudType DEF TelemetryInv
<1>3. TypeOK'
  BY <1>1, <1>2 DEF TypeOK, Rested, Books
<1>4. SingleFlight' /\ BufferCapped'
  BY <1>1 DEF SingleFlight, BufferCapped, Rested
<1>5. (Books(Line, accepted, acked, lost))'
  BY <1>1 DEF Books
<1> QED
  BY <1>3, <1>4, <1>5 DEF TelemetryInv

----------------------------------------------------------------------------
(* The theorems.                                                           *)

\* TelemetryInv holds always.
THEOREM Invariance == Spec => []TelemetryInv
BY InitInv, NextInv, PTL DEF Spec

\* Every variable keeps its type.
THEOREM TypeCorrect == Spec => []TypeOK
<1>1. TelemetryInv => TypeOK
  BY DEF TelemetryInv
<1> QED
  BY <1>1, Invariance, PTL

\* Of the reporters, the heartbeat loop and stop(), each of which may start a flush,
\* no two ever run one at once; and the guard is never left set (_flush_telemetry).
THEOREM OneFlight == Spec => []SingleFlight
<1>1. TelemetryInv => SingleFlight
  BY DEF TelemetryInv
<1> QED
  BY <1>1, Invariance, PTL

\* The buffer never exceeds its maximum (_buffer_event and the finally block).
THEOREM Capping == Spec => []BufferCapped
<1>1. TelemetryInv => BufferCapped
  BY DEF TelemetryInv
<1> QED
  BY <1>1, Invariance, PTL

\* Events neither vanish nor are doubled, whatever fails and whoever flushes.
THEOREM OnePlace == Spec => []EveryEventInOnePlace
<1>1. TelemetryInv => EveryEventInOnePlace
  BY DEF TelemetryInv, Books, EveryEventInOnePlace, Held
<1> QED
  BY <1>1, Invariance, PTL

\* Requeues keep the order of each kind (_flush_telemetry).
THEOREM Ordering == Spec => []PerKindOrder
<1>1. TelemetryInv => PerKindOrder
  <2> SUFFICES ASSUME TelemetryInv, NEW j \in DOMAIN accepted, accepted[j] \in acked,
                      NEW i \in 1 .. j - 1, SameKind(accepted[i], accepted[j]),
                      accepted[i] \in Held
               PROVE  FALSE
    BY DEF PerKindOrder
  <2>1. Books(Line, accepted, acked, lost)
    BY DEF TelemetryInv
  <2>2. i \in DOMAIN accepted /\ i < j
    BY <2>1 DEF Books
  <2>3. Precedes(accepted, accepted[i], accepted[j])
    BY <2>2 DEF Precedes
  <2>4. SameKind(accepted[j], accepted[i])
    BY DEF SameKind
  <2> QED
    BY <2>1, <2>3, <2>4 DEF Books, Held
<1> QED
  BY <1>1, Invariance, PTL

----------------------------------------------------------------------------
(* The refinement.                                                         *)

\* The status that stands for the state of the buffer (Delivery).
StatusOf(e) ==
  IF e \in acked THEN "acked"
  ELSE IF e \in lost THEN "lost"
  ELSE IF e \in Held THEN "pending" ELSE "new"

\* What the abstract specification sees of an event that waits, and of a new one.
LEMMA StatusBefore ==
  ASSUME TelemetryInv, NEW e \in Events
  PROVE  /\ e \in Held => StatusOf(e) = "pending"
         /\ e \notin ToSet(accepted) => StatusOf(e) = "new"
BY DEF TelemetryInv, Books, StatusOf, Held

\* The three kinds of steps are the three actions of TelemetryDelivery: giving
\* events up is GiveUp.
LEMMA GivesUpRefines ==
  ASSUME TelemetryInv, TelemetryInv', GivesUp
  PROVE  \E S \in SUBSET Events : Delivery!GiveUp(S)
<1>1. PICK R : Thins(Line', Line, R) /\ lost' = lost \cup R /\ acked' = acked
  BY DEF GivesUp
<1>2. R \subseteq Held /\ Held' = Held \ R
  BY <1>1 DEF Thins, Held
<1>3. Held \subseteq Events /\ Held \cap (acked \cup lost) = {}
  BY DEF TelemetryInv, Books, Held, ToSet
<1>4. R \subseteq Delivery!With("pending")
  BY <1>2, <1>3 DEF Delivery!With
<1>5. ASSUME NEW e \in Events
      PROVE  StatusOf(e)' = IF e \in R THEN "lost" ELSE StatusOf(e)
  BY <1>1, <1>2, <1>3 DEF StatusOf
<1>6. Delivery!GiveUp(R)
  BY <1>4, <1>5 DEF Delivery!GiveUp, Delivery!Become, StatusOf
<1> QED
  BY <1>2, <1>3, <1>6

\* Acknowledging events is Acknowledge.
LEMMA AcknowledgesRefines ==
  ASSUME TelemetryInv, TelemetryInv', Acknowledges
  PROVE  \E S \in SUBSET Events : Delivery!Acknowledge(S)
<1>1. PICK R : Thins(Line', Line, R) /\ acked' = acked \cup R /\ lost' = lost
  BY DEF Acknowledges
<1>2. R \subseteq Held /\ Held' = Held \ R
  BY <1>1 DEF Thins, Held
<1>3. Held \subseteq Events /\ Held \cap (acked \cup lost) = {}
  BY DEF TelemetryInv, Books, Held, ToSet
<1>4. R \subseteq Delivery!With("pending")
  BY <1>2, <1>3 DEF Delivery!With
<1>5. ASSUME NEW e \in Events
      PROVE  StatusOf(e)' = IF e \in R THEN "acked" ELSE StatusOf(e)
  BY <1>1, <1>2, <1>3 DEF StatusOf
<1>6. Delivery!Acknowledge(R)
  BY <1>4, <1>5 DEF Delivery!Acknowledge, Delivery!Become, StatusOf
<1> QED
  BY <1>2, <1>3, <1>6

\* Accepting an event is Accept, with the events the cap dropped for it.
LEMMA AcceptsRefines ==
  ASSUME TelemetryInv, TelemetryInv', Accepts
  PROVE  \E e \in Events, given \in SUBSET Events : Delivery!Accept(e, given)
<1>1. PICK e \in Events :
        /\ e \notin ToSet(accepted)
        /\ \E R : Thins(Line', Append(Line, e), R) /\ e \notin R /\ lost' = lost \cup R
        /\ acked' = acked
  BY DEF Accepts
<1>2. PICK R : Thins(Line', Append(Line, e), R) /\ e \notin R /\ lost' = lost \cup R
  BY <1>1
<1>3. ToSet(Append(Line, e)) = Held \cup {e}
  <2>1. Line \in Seq(Events)
    BY AtRest
  <2>2. Append(Line, e) = Line \o <<e>> /\ <<e>> \in Seq(Events)
    BY <2>1, AppendIsConcat
  <2>3. ToSet(<<e>>) = {e}
    BY DEF ToSet
  <2> QED
    BY <2>1, <2>2, <2>3, JoinedSet DEF Held
<1>4. R \subseteq Held /\ Held' = (Held \cup {e}) \ R
  BY <1>2, <1>3 DEF Thins, Held
<1>5. /\ Held \subseteq Events /\ Held \cap (acked \cup lost) = {}
      /\ e \notin Held /\ e \notin acked /\ e \notin lost
  <2>1. /\ Line \in Seq(Events) /\ Held \cap (acked \cup lost) = {}
        /\ ToSet(accepted) = Held \cup acked \cup lost
    BY DEF TelemetryInv, Books, Held
  <2>2. Held \subseteq Events
    BY <2>1 DEF Held, ToSet
  <2> QED
    BY <2>1, <2>2, <1>1
<1>6. R \subseteq Delivery!With("pending") /\ e \in Delivery!With("new")
  BY <1>4, <1>5 DEF Delivery!With
<1>7. ASSUME NEW x \in Events
      PROVE  StatusOf(x)' = IF x = e THEN "pending" ELSE IF x \in R THEN "lost" ELSE StatusOf(x)
  BY <1>1, <1>2, <1>4, <1>5 DEF StatusOf
<1>8. Delivery!Accept(e, R)
  BY <1>6, <1>7 DEF Delivery!Accept, Delivery!Become, StatusOf
<1> QED
  BY <1>4, <1>5, <1>8

\* The buffer implements the life of an event (TelemetryDelivery).
THEOREM Refinement == Spec => ImplementsDelivery
<1>1. Init => Delivery!Init
  BY DEF Init, Delivery!Init, Held, Line, ToSet
<1>2. TelemetryInv /\ TelemetryInv' /\ [Next]_vars => Delivery!Next
  BY StepKinds, GivesUpRefines, AcknowledgesRefines, AcceptsRefines DEF Delivery!Next
<1> QED
  BY <1>1, <1>2, Invariance, PTL DEF Spec, ImplementsDelivery, Delivery!Spec
=============================================================================
