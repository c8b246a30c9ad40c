--------------------------- MODULE SequenceLemmas ---------------------------
EXTENDS Selection, SequenceTheorems, WellFoundedInduction, TLAPS

\* A nonempty set of positions has a least one.
LEMMA LeastPosition ==
  ASSUME NEW I \in SUBSET Nat, I # {}
  PROVE  \E i \in I : \A j \in I : i <= j
<1>1. OpToRel(<, Nat) = {ss \in Nat \X Nat : ss[1] < ss[2]}
  BY Zenon DEF OpToRel
<1>2. PICK i \in I : \A j \in I : ~ (<<j, i>> \in OpToRel(<, Nat))
  BY WFMin, NatLessThanWellFounded
<1>3. ASSUME NEW j \in I PROVE ~(j < i)
  <2>1. <<j, i>> \notin {ss \in Nat \X Nat : ss[1] < ss[2]}
    BY <1>1, <1>2
  <2>2. <<j, i>> \in Nat \X Nat
    OBVIOUS
  <2> QED
    BY <2>1, <2>2
<1> QED
  BY <1>3

\* What Selected defines, up to n.
Selects(f, s, K, n) ==
  f = [i \in 0 .. n |->
         IF i = 0 THEN <<>>
         ELSE IF s[i] \in K THEN Append(f[i - 1], s[i]) ELSE f[i - 1]]

\* The recursion has a solution.
LEMMA SelectedExists ==
  ASSUME NEW s, NEW K, NEW m \in Nat
  PROVE  \E f : Selects(f, s, K, m)
<1> DEFINE Bad == {n \in Nat : ~ \E f : Selects(f, s, K, n)}
<1>1. SUFFICES ASSUME Bad # {} PROVE FALSE
  OBVIOUS
<1>2. PICK n \in Bad : \A j \in Bad : n <= j
  BY <1>1, LeastPosition
<1>3. CASE n = 0
  <2>1. Selects([i \in 0 .. 0 |-> <<>>], s, K, 0)
    BY DEF Selects
  <2> QED
    BY <1>2, <1>3, <2>1
<1>4. CASE n # 0
  <2>1. n - 1 \in Nat /\ n - 1 \notin Bad /\ n \in Nat
    BY <1>2, <1>4
  <2>2. PICK f : Selects(f, s, K, n - 1)
    BY <2>1
  <2> DEFINE g == [i \in 0 .. n |->
                     IF i = n THEN (IF s[n] \in K THEN Append(f[n - 1], s[n]) ELSE f[n - 1])
                     ELSE f[i]]
             h == [i \in 0 .. n |->
                     IF i = 0 THEN <<>>
                     ELSE IF s[i] \in K THEN Append(g[i - 1], s[i]) ELSE g[i - 1]]
  <2>3. ASSUME NEW i \in 0 .. n PROVE g[i] = h[i]
    <3>1. CASE i = n
      <4>1. g[n - 1] = f[n - 1]
        BY <2>1
      <4> QED
        BY <4>1, <3>1, <1>4
    <3>2. CASE i # n
      <4>1. i \in 0 .. n - 1
        BY <3>2, <2>1
      <4>2. g[i] = f[i]
        BY <3>2
      <4>3. f[i] = IF i = 0 THEN <<>>
                   ELSE IF s[i] \in K THEN Append(f[i - 1], s[i]) ELSE f[i - 1]
        BY <2>2, <4>1 DEF Selects
      <4>4. i # 0 => g[i - 1] = f[i - 1]
        BY <4>1, <2>1
      <4> QED
        BY <4>2, <4>3, <4>4
    <3> QED
      BY <3>1, <3>2
  <2>4. g = h
    BY <2>3
  <2>5. Selects(g, s, K, n)
    BY <2>4 DEF Selects
  <2> QED
    BY <2>5, <1>2
<1> QED
  BY <1>3, <1>4

\* Selected obeys its equation.
LEMMA SelectedStep ==
  ASSUME NEW S, NEW s \in Seq(S), NEW K
  PROVE  /\ Selected(s, K)[0] = <<>>
         /\ \A n \in 1 .. Len(s) : Selected(s, K)[n] =
              IF s[n] \in K THEN Append(Selected(s, K)[n - 1], s[n])
              ELSE Selected(s, K)[n - 1]
<1>1. Len(s) \in Nat
  OBVIOUS
<1>2. \E f : Selects(f, s, K, Len(s))
  BY <1>1, SelectedExists
<1>3. Selected(s, K) = CHOOSE f : Selects(f, s, K, Len(s))
  BY Zenon DEF Selected, Selects
<1>4. Selects(Selected(s, K), s, K, Len(s))
  BY <1>2, <1>3, Zenon
<1> DEFINE f == Selected(s, K)
<1> HIDE DEF f
<1>5. f = [i \in 0 .. Len(s) |->
         IF i = 0 THEN <<>>
         ELSE IF s[i] \in K THEN Append(f[i - 1], s[i]) ELSE f[i - 1]]
  BY <1>4, Zenon DEF Selects, f
<1>6. f[0] = <<>>
  <2>1. 0 \in 0 .. Len(s)
    BY <1>1
  <2> QED
    BY <1>5, <2>1, Zenon
<1>7. ASSUME NEW n \in 1 .. Len(s)
      PROVE  f[n] = IF s[n] \in K THEN Append(f[n - 1], s[n]) ELSE f[n - 1]
  <2>1. n \in 0 .. Len(s) /\ n # 0
    BY <1>1
  <2>2. f[n] = IF n = 0 THEN <<>>
               ELSE IF s[n] \in K THEN Append(f[n - 1], s[n]) ELSE f[n - 1]
    BY <1>5, <2>1, Zenon
  <2> QED
    BY <2>1, <2>2
<1> QED
  BY <1>6, <1>7 DEF f

\* t is the selection of K from the first n elements of s, each at its place h[i].
Embeds(h, t, s, K, n) ==
  /\ h \in [1 .. Len(t) -> 1 .. n]
  /\ \A i, j \in 1 .. Len(t) : i < j => h[i] < h[j]
  /\ \A i \in 1 .. Len(t) : t[i] = s[h[i]] /\ s[h[i]] \in K
  /\ \A p \in 1 .. n : s[p] \in K => \E i \in 1 .. Len(t) : h[i] = p

\* Select keeps exactly the elements in K, in their order.
LEMMA SelectEmbeds ==
  ASSUME NEW S, NEW s \in Seq(S), NEW K
  PROVE  /\ Select(s, K) \in Seq(S)
         /\ \E h : Embeds(h, Select(s, K), s, K, Len(s))
<1> DEFINE f == Selected(s, K)
           Good(n) == f[n] \in Seq(S) /\ \E h : Embeds(h, f[n], s, K, n)
           Bad == {n \in Nat : n <= Len(s) /\ ~Good(n)}
<1>1. Len(s) \in Nat
  OBVIOUS
<1> HIDE DEF f
<1>2. f[0] = <<>> /\ \A n \in 1 .. Len(s) : f[n] =
        IF s[n] \in K THEN Append(f[n - 1], s[n]) ELSE f[n - 1]
  BY SelectedStep DEF f
<1>3. ASSUME Bad # {} PROVE FALSE
  <2>1. PICK n \in Bad : \A j \in Bad : n <= j
    BY <1>3, LeastPosition
  <2>2. CASE n = 0
    <3>1. Embeds([i \in {} |-> 0], <<>>, s, K, 0)
      BY DEF Embeds
    <3>2. Good(0)
      BY <3>1, <1>2
    <3> QED
      BY <2>1, <2>2, <3>2
  <2>3. CASE n # 0
    <3>1. n - 1 \in Nat /\ n \in 1 .. Len(s) /\ n - 1 <= Len(s) /\ n - 1 \notin Bad
      BY <2>1, <2>3, <1>1
    <3>2. Good(n - 1)
      BY <3>1
    <3>3. PICK h : Embeds(h, f[n - 1], s, K, n - 1)
      BY <3>2
    <3> DEFINE t == f[n - 1]
               m == Len(t)
    <3>4. t \in Seq(S) /\ m \in Nat
      BY <3>2
    <3> HIDE DEF t
    <3>5. Embeds(h, t, s, K, n - 1)
      BY <3>3 DEF t
    <3>6. CASE s[n] \in K
      <4> DEFINE u == Append(t, s[n])
                 g == [i \in 1 .. m + 1 |-> IF i = m + 1 THEN n ELSE h[i]]
      <4>1. s[n] \in S
        BY <3>1
      <4>2. u \in Seq(S) /\ Len(u) = m + 1 /\ u[m + 1] = s[n]
            /\ \A i \in 1 .. m : u[i] = t[i]
        BY <3>4, <4>1, AppendProperties
      <4> HIDE DEF u
      <4>3. Embeds(g, u, s, K, n)
        <5>1. g \in [1 .. Len(u) -> 1 .. n]
          BY <4>2, <3>5, <3>1, <3>4 DEF Embeds
        <5>2. ASSUME NEW i \in 1 .. Len(u), NEW j \in 1 .. Len(u), i < j
              PROVE  g[i] < g[j]
          <6>1. i \in 1 .. m /\ g[i] = h[i] /\ h[i] \in 1 .. n - 1
            <7>1. i \in 1 .. m /\ i \in 1 .. m + 1 /\ i # m + 1
              BY <5>2, <4>2, <3>4
            <7>2. g[i] = h[i]
              BY <7>1
            <7>3. h \in [1 .. m -> 1 .. n - 1]
              BY <3>5 DEF Embeds
            <7> HIDE DEF g, m
            <7> QED
              BY <7>1, <7>2, <7>3
          <6>2. CASE j = m + 1
            BY <6>1, <6>2, <4>2, <3>1
          <6>3. CASE j # m + 1
            <7>1. j \in 1 .. m /\ g[j] = h[j]
              BY <6>3, <4>2, <3>4
            <7> QED
              BY <7>1, <6>1, <5>2, <3>5 DEF Embeds
          <6> QED
            BY <6>2, <6>3
        <5>3. ASSUME NEW i \in 1 .. Len(u) PROVE u[i] = s[g[i]] /\ s[g[i]] \in K
          BY <4>2, <3>5, <3>6, <3>4 DEF Embeds
        <5>4. ASSUME NEW p \in 1 .. n, s[p] \in K
              PROVE  \E i \in 1 .. Len(u) : g[i] = p
          <6>1. CASE p = n
            BY <6>1, <4>2, <3>4
          <6>2. CASE p # n
            <7>1. p \in 1 .. n - 1
              BY <6>2, <3>1
            <7>2. PICK i \in 1 .. m : h[i] = p
              BY <7>1, <5>4, <3>5 DEF Embeds
            <7> QED
              BY <7>2, <4>2, <3>4
          <6> QED
            BY <6>1, <6>2
        <5> QED
          BY <5>1, <5>2, <5>3, <5>4 DEF Embeds
      <4>4. f[n] = u
        BY <3>1, <3>6, <1>2 DEF u, t
      <4>5. Good(n)
        BY <4>2, <4>3, <4>4
      <4> QED
        BY <4>5, <2>1
    <3>7. CASE s[n] \notin K
      <4>1. f[n] = t
        BY <3>1, <3>7, <1>2 DEF t
      <4>2. Embeds(h, t, s, K, n)
        <5>1. h \in [1 .. Len(t) -> 1 .. n]
          BY <3>5, <3>1, <3>4 DEF Embeds
        <5>2. ASSUME NEW p \in 1 .. n, s[p] \in K PROVE p \in 1 .. n - 1
          BY <3>1, <3>7, <5>2
        <5> QED
          BY <3>5, <5>1, <5>2 DEF Embeds
      <4>3. Good(n)
        BY <4>1, <4>2, <3>4
      <4> QED
        BY <4>3, <2>1
    <3> QED
      BY <3>6, <3>7
  <2> QED
    BY <2>2, <2>3
<1>4. Good(Len(s))
  BY <1>1, <1>3
<1> QED
  BY <1>4 DEF Select, f

\* Select leaves out the one element at k, or none when k is past the end.
LEMMA SelectSkips ==
  ASSUME NEW S, NEW s \in Seq(S), NEW K, NEW k \in 1 .. Len(s) + 1,
         \A i \in 1 .. Len(s) : s[i] \in K <=> i # k
  PROVE  /\ Select(s, K) \in Seq(S)
         /\ Len(Select(s, K)) = IF k <= Len(s) THEN Len(s) - 1 ELSE Len(s)
         /\ \A i \in 1 .. Len(Select(s, K)) :
              Select(s, K)[i] = s[IF i < k THEN i ELSE i + 1]
<1> DEFINE f == Selected(s, K)
           Good(n) == /\ f[n] \in Seq(S)
                      /\ Len(f[n]) = IF k <= n THEN n - 1 ELSE n
                      /\ \A i \in 1 .. Len(f[n]) : f[n][i] = s[IF i < k THEN i ELSE i + 1]
           Bad == {n \in Nat : n <= Len(s) /\ ~Good(n)}
<1>1. Len(s) \in Nat /\ k \in Nat
  OBVIOUS
<1> HIDE DEF f
<1>2. f[0] = <<>> /\ \A n \in 1 .. Len(s) : f[n] =
        IF s[n] \in K THEN Append(f[n - 1], s[n]) ELSE f[n - 1]
  BY SelectedStep DEF f
<1>3. ASSUME Bad # {} PROVE FALSE
  <2>1. PICK n \in Bad : \A j \in Bad : n <= j
    BY <1>3, LeastPosition
  <2>2. CASE n = 0
    <3>1. Good(0)
      BY <1>1, <1>2
    <3> QED
      BY <2>1, <2>2, <3>1
  <2>3. CASE n # 0
    <3>1. n - 1 \in Nat /\ n \in 1 .. Len(s) /\ n - 1 <= Len(s) /\ n - 1 \notin Bad
      BY <2>1, <2>3, <1>1
    <3>2. Good(n - 1)
      BY <3>1
    <3> DEFINE t == f[n - 1]
    <3>3. /\ t \in Seq(S) /\ Len(t) = (IF k <= n - 1 THEN n - 2 ELSE n - 1)
          /\ \A i \in 1 .. Len(t) : t[i] = s[IF i < k THEN i ELSE i + 1]
      <4>1. n - 1 - 1 = n - 2
        BY <3>1
      <4> HIDE DEF Bad
      <4> QED
        BY <3>2, <4>1
    <3>4. f[n] = IF s[n] \in K THEN Append(t, s[n]) ELSE t
      BY <1>2, <3>1
    <3> HIDE DEF t
    <3>5. CASE n = k
      <4>1. f[n] = t
        BY <3>1, <3>4, <3>5
      <4>2. Good(n)
        BY <4>1, <3>1, <3>3, <3>5
      <4> QED
        BY <4>2, <2>1
    <3>6. CASE n # k
      <4> DEFINE u == Append(t, s[n])
      <4>1. f[n] = u /\ s[n] \in S
        BY <3>1, <3>4, <3>6
      <4>2. /\ u \in Seq(S) /\ Len(u) = Len(t) + 1 /\ u[Len(t) + 1] = s[n]
            /\ \A i \in 1 .. Len(t) : u[i] = t[i]
        BY <3>3, <4>1, AppendProperties
      <4> HIDE DEF u
      <4>3. Len(u) = IF k <= n THEN n - 1 ELSE n
        BY <1>1, <3>1, <3>3, <3>6, <4>2
      <4>4. ASSUME NEW i \in 1 .. Len(u) PROVE u[i] = s[IF i < k THEN i ELSE i + 1]
        <5>1. CASE i <= Len(t)
          BY <5>1, <3>3, <4>2
        <5>2. CASE i > Len(t)
          <6>1. i = Len(t) + 1
            BY <5>2, <3>3, <4>2
          <6>2. (IF i < k THEN i ELSE i + 1) = n
            BY <6>1, <1>1, <3>1, <3>3, <3>6
          <6> QED
            BY <6>1, <6>2, <4>2
        <5> QED
          BY <5>1, <5>2, <3>3, <4>2
      <4>5. Good(n)
        BY <4>1, <4>2, <4>3, <4>4
      <4> QED
        BY <4>5, <2>1
    <3> QED
      BY <3>5, <3>6
  <2> QED
    BY <2>2, <2>3
<1>4. Good(Len(s))
  BY <1>1, <1>3
<1> QED
  BY <1>1, <1>4 DEF Select, f
=============================================================================
