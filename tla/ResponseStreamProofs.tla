------------------------ MODULE ResponseStreamProofs ------------------------
(***************************************************************************)
(* Proofs about streamed responses for every value of the constants: the   *)
(* chunks are released in order, after the scan, and the verdict is that   *)
(* of the whole response.                                                  *)
(***************************************************************************)
EXTENDS ResponseStream, FiniteSetTheorems, SequenceLemmas

----------------------------------------------------------------------------
(* FlattenSeq.                                                             *)

\* What FlattenSeq defines, up to n.
Flattens(f, s, n) == f = [i \in 1 .. n |-> IF i = 1 THEN s[i] ELSE f[i - 1] \o s[i]]

\* The recursion has a solution.
LEMMA FlattensExists ==
  ASSUME NEW s, NEW m \in Nat
  PROVE  \E f : Flattens(f, s, m)
<1> DEFINE Bad == {n \in Nat : ~ \E f : Flattens(f, s, n)}
<1>1. SUFFICES ASSUME Bad # {} PROVE FALSE
  OBVIOUS
<1>2. PICK n \in Bad : \A j \in Bad : n <= j
  BY <1>1, LeastPosition
<1>3. CASE n = 0
  <2>1. Flattens([i \in 1 .. 0 |-> 0], s, 0)
    BY DEF Flattens
  <2> QED
    BY <1>2, <1>3, <2>1
<1>4. CASE n # 0
  <2>1. n - 1 \in Nat /\ n - 1 \notin Bad /\ n \in Nat
    BY <1>2, <1>4
  <2>2. PICK f : Flattens(f, s, n - 1)
    BY <2>1
  <2> DEFINE g == [i \in 1 .. n |->
                     IF i = n THEN (IF n = 1 THEN s[n] ELSE f[n - 1] \o s[n]) ELSE f[i]]
             h == [i \in 1 .. n |-> IF i = 1 THEN s[i] ELSE g[i - 1] \o s[i]]
  <2>3. ASSUME NEW i \in 1 .. n PROVE g[i] = h[i]
    <3>1. CASE i = n
      <4>1. n # 1 => g[n - 1] = f[n - 1]
        BY <2>1
      <4> QED
        BY <4>1, <3>1
    <3>2. CASE i # n
      <4>1. i \in 1 .. n - 1
        BY <3>2, <2>1
      <4>2. g[i] = f[i]
        BY <3>2
      <4>3. f[i] = IF i = 1 THEN s[i] ELSE f[i - 1] \o s[i]
        BY <2>2, <4>1 DEF Flattens
      <4>4. i # 1 => g[i - 1] = f[i - 1]
        BY <4>1, <2>1
      <4> QED
        BY <4>2, <4>3, <4>4
    <3> QED
      BY <3>1, <3>2
  <2>4. g = h
    BY <2>3
  <2>5. Flattens(g, s, n)
    BY <2>4 DEF Flattens
  <2> QED
    BY <2>5, <1>2
<1> QED
  BY <1>3, <1>4

\* f and g agree up to n.
Agree(f, g, n) == \A i \in 1 .. n : f[i] = g[i]

\* Solutions agree as far as their sequences do.
LEMMA FlattensAgree ==
  ASSUME NEW k, NEW m, NEW f, NEW g, NEW s, NEW t, k \in Nat, m = k + 1,
         Flattens(f, s, k), Flattens(g, t, m), Agree(s, t, k)
  PROVE  Agree(f, g, k)
<1> DEFINE Bad == {i \in 1 .. k : f[i] # g[i]}
<1>1. SUFFICES ASSUME Bad # {} PROVE FALSE
  BY DEF Agree
<1>2. Bad \in SUBSET Nat
  OBVIOUS
<1>3. PICK i \in Bad : \A j \in Bad : i <= j
  <2> HIDE DEF Bad
  <2> QED
    BY <1>1, <1>2, LeastPosition
<1>4. i \in 1 .. k /\ i \in 1 .. k + 1
  OBVIOUS
<1>5. /\ f[i] = IF i = 1 THEN s[i] ELSE f[i - 1] \o s[i]
      /\ g[i] = IF i = 1 THEN t[i] ELSE g[i - 1] \o t[i]
  BY <1>4, Zenon DEF Flattens
<1>6. i # 1 => f[i - 1] = g[i - 1]
  <2>1. i # 1 => i - 1 \in 1 .. k /\ ~(i <= i - 1)
    BY <1>4
  <2> QED
    BY <2>1, <1>3
<1> QED
  BY <1>4, <1>5, <1>6 DEF Agree

\* The solution of the first n sequences of s.
Flat(s, n) == CHOOSE f : Flattens(f, s, n)

\* Flat is one.
LEMMA FlatFlattens ==
  ASSUME NEW s, NEW n \in Nat
  PROVE  Flattens(Flat(s, n), s, n)
  BY FlattensExists DEF Flat

\* FlattenSeq of a sequence with one more sequence at its end.
LEMMA FlattenStep ==
  ASSUME NEW S, NEW s \in Seq(Seq(S)), NEW e \in Seq(S)
  PROVE  /\ FlattenSeq(s) \in Seq(S)
         /\ FlattenSeq(Append(s, e)) = FlattenSeq(s) \o e
<1> DEFINE n == Len(s)
           t == Append(s, e)
           f == Flat(s, n)
           g == Flat(t, n + 1)
<1>1. n \in Nat /\ \A i \in 1 .. n : s[i] \in Seq(S)
  OBVIOUS
<1>2. Len(t) = n + 1 /\ t[n + 1] = e /\ \A i \in 1 .. n : t[i] = s[i]
  BY AppendProperties
<1> HIDE DEF n, t, f, g
<1>3. Flattens(f, s, n) /\ Flattens(g, t, n + 1)
  BY <1>1, FlatFlattens DEF f, g
<1>4. \A i \in 1 .. n : f[i] = g[i]
  <2>1. Agree(s, t, n)
    BY <1>2 DEF Agree
  <2> DEFINE m == n + 1
  <2>2. n \in Nat /\ m = n + 1
    BY <1>1
  <2> HIDE DEF m
  <2>3. Flattens(f, s, n) /\ Flattens(g, t, m)
    BY <1>3 DEF m
  <2>4. Agree(f, g, n)
    BY <2>1, <2>2, <2>3, FlattensAgree
  <2> QED
    BY <2>4 DEF Agree
<1>5. FlattenSeq(t) = g[n + 1]
  <2>1. Len(t) # 0
    BY <1>1, <1>2
  <2> QED
    BY <2>1, <1>2, Zenon DEF FlattenSeq, Flat, Flattens, g
<1>6. n # 0 => FlattenSeq(s) = f[n]
  BY Zenon DEF FlattenSeq, Flat, Flattens, f, n
<1>7. n = 0 => FlattenSeq(s) = <<>>
  BY DEF FlattenSeq, n
<1>8. g[n + 1] = IF n = 0 THEN e ELSE g[n] \o e
  <2>1. n + 1 \in 1 .. n + 1 /\ n + 1 - 1 = n /\ (n + 1 = 1 <=> n = 0)
    BY <1>1
  <2>2. g = [i \in 1 .. n + 1 |-> IF i = 1 THEN t[i] ELSE g[i - 1] \o t[i]]
    BY <1>3 DEF Flattens
  <2>3. ASSUME NEW i \in 1 .. n + 1
        PROVE  g[i] = IF i = 1 THEN t[i] ELSE g[i - 1] \o t[i]
    BY <2>2, Zenon
  <2>4. n = 0 => g[n + 1] = t[n + 1]
    BY <2>1, <2>3
  <2>5. n # 0 => g[n + 1] = g[n] \o t[n + 1]
    <3> SUFFICES ASSUME n # 0 PROVE g[n + 1] = g[n] \o t[n + 1]
      OBVIOUS
    <3> DEFINE m == n + 1
    <3>1. m \in 1 .. n + 1 /\ m - 1 = n /\ m # 1
      BY <1>1
    <3> HIDE DEF m
    <3>2. g[m] = g[m - 1] \o t[m]
      BY <3>1, <2>3
    <3>3. g[m] = g[n] \o t[m]
      BY <3>1, <3>2
    <3> QED
      BY <3>3 DEF m
  <2> QED
    BY <2>4, <2>5, <1>2
<1>9. \A i \in 1 .. n : f[i] \in Seq(S)
  <2> DEFINE Bad == {i \in 1 .. n : f[i] \notin Seq(S)}
  <2>1. SUFFICES ASSUME Bad # {} PROVE FALSE
    OBVIOUS
  <2>2. Bad \in SUBSET Nat
    BY <1>1
  <2>3. PICK i \in Bad : \A j \in Bad : i <= j
    <3> HIDE DEF Bad
    <3> QED
      BY <2>1, <2>2, LeastPosition
  <2>4. i \in 1 .. n
    OBVIOUS
  <2>5. f[i] = IF i = 1 THEN s[i] ELSE f[i - 1] \o s[i]
    BY <2>4, <1>3, Zenon DEF Flattens
  <2>6. i # 1 => f[i - 1] \in Seq(S)
    <3>1. i # 1 => i - 1 \in 1 .. n /\ ~(i <= i - 1)
      BY <2>4, <1>1
    <3> QED
      BY <3>1, <2>3
  <2>7. s[i] \in Seq(S)
    BY <2>4, <1>1
  <2>8. f[i] \in Seq(S)
    <3> DEFINE a == f[i - 1]
               b == s[i]
    <3>1. i # 1 => a \in Seq(S)
      BY <2>6
    <3>2. b \in Seq(S) /\ f[i] = IF i = 1 THEN b ELSE a \o b
      BY <2>5, <2>7
    <3> HIDE DEF a, b
    <3> QED
      BY <3>1, <3>2
  <2> QED
    BY <2>4, <2>8
<1>10. FlattenSeq(s) \in Seq(S)
  <2>1. CASE n = 0
    BY <2>1, <1>7
  <2>2. CASE n # 0
    <3>1. n \in 1 .. n
      BY <2>2, <1>1
    <3>2. f[n] \in Seq(S)
      BY <3>1, <1>9
    <3> QED
      BY <3>2, <2>2, <1>6
  <2> QED
    BY <2>1, <2>2
<1>11. FlattenSeq(t) = FlattenSeq(s) \o e
  <2>1. CASE n = 0
    <3>1. FlattenSeq(t) = e /\ FlattenSeq(s) = <<>>
      BY <2>1, <1>5, <1>7, <1>8
    <3> QED
      BY <3>1
  <2>2. CASE n # 0
    <3>1. n \in 1 .. n
      BY <2>2, <1>1
    <3>2. g[n] = FlattenSeq(s)
      BY <3>1, <2>2, <1>4, <1>6
    <3> QED
      BY <3>2, <2>2, <1>5, <1>8
  <2> QED
    BY <2>1, <2>2
<1> QED
  BY <1>10, <1>11 DEF t

----------------------------------------------------------------------------
(* The chunks taken, and their text.                                       *)

\* The text of the first n chunks of r.
Content(r, n) == FlattenSeq([i \in 1 .. n |-> r[i]])

\* The last chunk of a prefix is left or not, the others stay.
LEMMA UptoGrows ==
  ASSUME NEW n \in Nat
  PROVE  /\ Upto(n) \in Seq(1 .. n) /\ Upto(n) \in Seq(Nat) /\ Len(Upto(n)) = n
         /\ Append(Upto(n), n + 1) = Upto(n + 1)
         /\ Upto(n + 1) # <<>>
<1>1. Upto(n) \in Seq(1 .. n) /\ Len(Upto(n)) = n /\ Upto(n) \in Seq(Nat)
  BY DEF Upto
<1>2. Upto(n + 1) \in Seq(Nat) /\ Len(Upto(n + 1)) = n + 1
  BY DEF Upto
<1> DEFINE a == Append(Upto(n), n + 1)
<1>3. a \in Seq(Nat) /\ Len(a) = n + 1 /\ a[n + 1] = n + 1
      /\ \A i \in 1 .. n : a[i] = Upto(n)[i]
  <2>1. n + 1 \in Nat
    OBVIOUS
  <2> QED
    BY <1>1, <2>1, AppendProperties
<1> HIDE DEF a
<1>4. ASSUME NEW i \in 1 .. n + 1 PROVE a[i] = Upto(n + 1)[i]
  <2>1. Upto(n + 1)[i] = i
    BY DEF Upto
  <2>2. i # n + 1 => i \in 1 .. n /\ Upto(n)[i] = i
    BY DEF Upto
  <2> QED
    BY <1>3, <2>1, <2>2
<1>5. a = Upto(n + 1)
  BY <1>2, <1>3, <1>4, SeqEqual
<1> QED
  BY <1>1, <1>2, <1>5 DEF a

\* One more at the end of the second sequence is one more at the end of both.
LEMMA JoinOne ==
  ASSUME NEW S, NEW a, NEW b, NEW e, a \in Seq(S), b \in Seq(S), e \in S
  PROVE  a \o Append(b, e) = Append(a \o b, e)
<1>1. <<e>> \in Seq(S) /\ a \o b \in Seq(S)
  BY ConcatProperties
<1>2. Append(b, e) = b \o <<e>> /\ Append(a \o b, e) = (a \o b) \o <<e>>
  BY <1>1, AppendIsConcat
<1>3. (a \o b) \o <<e>> = a \o (b \o <<e>>)
  BY <1>1, ConcatAssociative
<1> QED
  BY <1>2, <1>3

\* The same for numbers.
LEMMA JoinOneNumber ==
  \A a, b \in Seq(Nat), e \in Nat : a \o Append(b, e) = Append(a \o b, e)
BY JoinOne

\* One more chunk at the end of what is held is one more at the end of all.
LEMMA HeldGrows ==
  ASSUME NEW a \in Seq(Nat), NEW b \in Seq(Nat), NEW n \in Nat, a \o b = Upto(n)
  PROVE  a \o Append(b, n + 1) = Upto(n + 1)
<1> DEFINE e == n + 1
<1>1. e \in Nat
  OBVIOUS
<1> HIDE DEF e
<1>2. a \o Append(b, e) = Append(a \o b, e)
  BY <1>1, JoinOneNumber
<1> QED
  BY <1>2, UptoGrows DEF e

\* What a longer sequence of a type is.
LEMMA MoreChunks ==
  ASSUME NEW n \in Nat, NEW s \in Seq(1 .. n)
  PROVE  s \in Seq(1 .. n + 1) /\ Append(s, n + 1) \in Seq(1 .. n + 1)
<1>1. s \in Seq(1 .. n + 1)
  OBVIOUS
<1> QED
  BY <1>1, AppendProperties

\* The text grows by the content of each chunk.
LEMMA ContentGrows ==
  ASSUME NEW r \in Seq(Seq(Characters))
  PROVE  /\ Content(r, 0) = <<>>
         /\ \A n \in 0 .. Len(r) : Content(r, n) \in Seq(Characters)
         /\ \A n \in 0 .. Len(r) - 1 : Content(r, n + 1) = Content(r, n) \o r[n + 1]
<1> DEFINE C(n) == [i \in 1 .. n |-> r[i]]
<1>1. Len(r) \in Nat
  OBVIOUS
<1>2. ASSUME NEW n \in 0 .. Len(r) PROVE C(n) \in Seq(Seq(Characters)) /\ Len(C(n)) = n
  BY <1>1
<1>3. ASSUME NEW n \in 0 .. Len(r) - 1
      PROVE  C(n + 1) = Append(C(n), r[n + 1]) /\ r[n + 1] \in Seq(Characters)
  <2> DEFINE a == C(n)
             b == C(n + 1)
             e == r[n + 1]
  <2>1. n \in Nat /\ n \in 0 .. Len(r) /\ n + 1 \in 0 .. Len(r) /\ n + 1 \in 1 .. Len(r)
    BY <1>1
  <2>2. /\ a \in Seq(Seq(Characters)) /\ Len(a) = n
        /\ b \in Seq(Seq(Characters)) /\ Len(b) = n + 1
        /\ e \in Seq(Characters)
    BY <1>2, <2>1
  <2>3. \A i \in 1 .. n + 1 : b[i] = IF i = n + 1 THEN e ELSE a[i]
    BY <2>1
  <2> HIDE DEF a, b, e
  <2> DEFINE c == Append(a, e)
  <2>4. /\ c \in Seq(Seq(Characters)) /\ Len(c) = n + 1 /\ c[n + 1] = e
        /\ \A i \in 1 .. n : c[i] = a[i]
    BY <2>2, AppendProperties
  <2> HIDE DEF c
  <2>5. ASSUME NEW i \in 1 .. n + 1 PROVE c[i] = b[i]
    <3>1. i # n + 1 => i \in 1 .. n
      BY <2>1
    <3>2. c[i] = IF i = n + 1 THEN e ELSE a[i]
      BY <2>4, <3>1
    <3> QED
      BY <2>3, <3>2
  <2>6. c = b
    <3>1. Len(c) = Len(b) /\ \A i \in 1 .. Len(c) : c[i] = b[i]
      BY <2>2, <2>4, <2>5
    <3> QED
      BY <3>1, <2>2, <2>4, SeqEqual, Zenon
  <2> QED
    BY <2>2, <2>6 DEF a, b, c, e
<1>4. C(0) = <<>>
  OBVIOUS
<1>5. FlattenSeq(<<>>) = <<>>
  BY DEF FlattenSeq
<1> HIDE DEF C
<1>6. ASSUME NEW n \in 0 .. Len(r) PROVE FlattenSeq(C(n)) \in Seq(Characters)
  <2>1. <<>> \in Seq(Characters)
    OBVIOUS
  <2> QED
    BY <1>2, FlattenStep, <2>1
<1>7. ASSUME NEW n \in 0 .. Len(r) - 1
      PROVE  FlattenSeq(C(n + 1)) = FlattenSeq(C(n)) \o r[n + 1]
  <2>1. C(n) \in Seq(Seq(Characters))
    BY <1>1, <1>2
  <2> QED
    BY <1>3, <2>1, FlattenStep
<1> QED
  BY <1>4, <1>5, <1>6, <1>7 DEF C, Content

\* A text stays a prefix of a text that grows.
LEMMA PrefixGrows ==
  ASSUME NEW S, NEW s \in Seq(S), NEW t \in Seq(S), NEW e \in Seq(S)
  PROVE  IsPrefix(s, s) /\ (IsPrefix(s, t) => IsPrefix(s, t \o e))
<1>1. IsPrefix(s, s)
  BY DEF IsPrefix
<1>2. ASSUME IsPrefix(s, t) PROVE IsPrefix(s, t \o e)
  <2> DEFINE u == t \o e
             k == Len(s)
  <2>1. /\ u \in Seq(S) /\ Len(u) = Len(t) + Len(e) /\ Len(t) \in Nat /\ Len(e) \in Nat
        /\ \A i \in 1 .. Len(t) : u[i] = t[i]
    BY ConcatProperties
  <2>2. k \in Nat /\ k <= Len(t)
    BY <1>2 DEF IsPrefix
  <2> HIDE DEF u, k
  <2>3. SubSeq(t, 1, k) = SubSeq(u, 1, k)
    <3>1. k <= Len(u)
      BY <2>1, <2>2
    <3>2. /\ SubSeq(t, 1, k) \in Seq(S) /\ Len(SubSeq(t, 1, k)) = k
          /\ \A i \in 1 .. k : SubSeq(t, 1, k)[i] = t[i]
      BY <2>2
    <3>3. /\ SubSeq(u, 1, k) \in Seq(S) /\ Len(SubSeq(u, 1, k)) = k
          /\ \A i \in 1 .. k : SubSeq(u, 1, k)[i] = u[i]
      BY <2>1, <2>2, <3>1
    <3>4. \A i \in 1 .. k : u[i] = t[i]
      BY <2>1, <2>2
    <3> DEFINE a == SubSeq(t, 1, k)
               b == SubSeq(u, 1, k)
    <3> HIDE DEF a, b
    <3>5. a = b
      <4>1. /\ a \in Seq(S) /\ b \in Seq(S) /\ Len(a) = Len(b)
            /\ \A i \in 1 .. Len(a) : a[i] = b[i]
        BY <3>2, <3>3, <3>4 DEF a, b
      <4> QED
        BY <4>1, SeqEqual
    <3> QED
      BY <3>5 DEF a, b
  <2>4. SubSeq(s, 1, k) = SubSeq(t, 1, k)
    BY <1>2 DEF IsPrefix, k
  <2> QED
    BY <2>1, <2>2, <2>3, <2>4 DEF IsPrefix, u, k
<1> QED
  BY <1>1, <1>2

\* The text of the first k chunks begins the text of the first n.
LEMMA ContentPrefix ==
  ASSUME NEW r \in Seq(Seq(Characters)), NEW k \in 0 .. Len(r)
  PROVE  \A n \in k .. Len(r) : IsPrefix(Content(r, k), Content(r, n))
<1> DEFINE Bad == {n \in k .. Len(r) : ~IsPrefix(Content(r, k), Content(r, n))}
<1>1. Len(r) \in Nat /\ k \in Nat
  OBVIOUS
<1>2. SUFFICES ASSUME Bad # {} PROVE FALSE
  OBVIOUS
<1>3. Bad \in SUBSET Nat
  BY <1>1
<1>4. PICK n \in Bad : \A j \in Bad : n <= j
  <2> HIDE DEF Bad
  <2> QED
    BY <1>2, <1>3, LeastPosition
<1>5. /\ n \in k .. Len(r) /\ n \in 0 .. Len(r)
      /\ ~IsPrefix(Content(r, k), Content(r, n))
  BY <1>1
<1>6. CASE n = k
  <2>1. Content(r, k) \in Seq(Characters)
    BY ContentGrows
  <2> QED
    BY <2>1, <1>5, <1>6, PrefixGrows
<1>7. CASE n # k
  <2> DEFINE m == n - 1
  <2>1. m \in k .. Len(r) /\ m \in 0 .. Len(r) /\ m \in 0 .. Len(r) - 1 /\ m + 1 = n
        /\ n \in 1 .. Len(r) /\ ~(n <= m)
    BY <1>1, <1>5, <1>7
  <2> HIDE DEF m
  <2>2. IsPrefix(Content(r, k), Content(r, m))
    BY <1>4, <2>1
  <2>3. Content(r, n) = Content(r, m) \o r[n]
    BY <2>1, ContentGrows
  <2>4. r[n] \in Seq(Characters)
    BY <2>1
  <2>5. Content(r, k) \in Seq(Characters) /\ Content(r, m) \in Seq(Characters)
    BY <2>1, ContentGrows
  <2>6. IsPrefix(Content(r, k), Content(r, m) \o r[n])
    <3> DEFINE a == Content(r, k)
               b == Content(r, m)
               e == r[n]
    <3>1. a \in Seq(Characters) /\ b \in Seq(Characters) /\ e \in Seq(Characters)
          /\ IsPrefix(a, b)
      BY <2>2, <2>4, <2>5
    <3> HIDE DEF a, b, e
    <3>2. IsPrefix(a, b \o e)
      BY <3>1, PrefixGrows
    <3> QED
      BY <3>2 DEF a, b, e
  <2> QED
    BY <1>5, <2>3, <2>6
<1> QED
  BY <1>6, <1>7

\* What Text is of the first chunks.
LEMMA TextUpto ==
  ASSUME NEW n \in Nat
  PROVE  Text(Upto(n)) = Content(response, n)
<1>1. DOMAIN Upto(n) = 1 .. n /\ \A i \in 1 .. n : Upto(n)[i] = i
  BY DEF Upto
<1> DEFINE D == DOMAIN Upto(n)
<1>2. [i \in D |-> response[Upto(n)[i]]] = [i \in 1 .. n |-> response[i]]
  BY <1>1
<1> QED
  BY <1>2 DEF Text, Content

----------------------------------------------------------------------------
(* The inductive invariant.                                                *)

\* The type of all but what is stated below.
Typed ==
  /\ response \in Responses
  /\ mode \in Modes
  /\ pc \in {"streaming", "ended", "blocked"}
  /\ taken \in 0 .. Len(response)
  /\ {enabled, attached, released, calm} \subseteq BOOLEAN
  /\ held \in Seq(1 .. taken)
  /\ out \in Seq(1 .. taken)
  /\ tasks \subseteq 1 .. taken
  /\ rules \in RuleSets
  /\ pushes \in 0 .. MaxPushes

\* What is out and what is held are the chunks taken, and nothing is out that is
\* still to be scanned.
Ordered ==
  /\ out = Upto(Len(out))
  /\ pc = "streaming" => out \o held = Upto(taken)
  /\ pc = "ended" => out = Upto(Len(response)) /\ taken = Len(response)
  /\ pc = "blocked" => out = <<>>
  /\ released => mode = "buffered" /\ out # <<>>
  /\ mode = "passthrough" => held = <<>> /\ pc # "blocked"
  /\ pc = "streaming" /\ (mode = "full" \/ (ScansAtEnd /\ enabled)) => out = <<>>

\* The text collected is of the first chunks, and of all of them until it is scanned.
Collected ==
  \E k \in 0 .. taken :
    /\ text = Content(response, k)
    /\ pc = "streaming" /\ enabled /\ ScansAtEnd => k = taken

\* A response scanned as one text has no background scans and is scanned once.
Counted ==
  /\ mode # "passthrough" =>
       /\ tasks = {}
       /\ alerts \in 0 .. 1
       /\ pc = "streaming" /\ ~released => alerts = 0
  /\ mode = "passthrough" =>
       /\ alerts \in Nat
       /\ alerts <= Cardinality((1 .. taken) \ tasks)

StreamInv == Typed /\ Ordered /\ Collected /\ Counted

\* What the invariant gives for the chunk that arrives next.
LEMMA NextChunk ==
  ASSUME Typed
  PROVE  /\ response \in Seq(Seq(Characters)) /\ Len(response) \in Nat /\ taken \in Nat
         /\ held \in Seq(Nat) /\ out \in Seq(Nat)
         /\ taken < Len(response) =>
              /\ taken + 1 \in 0 .. Len(response) /\ taken + 1 \in 1 .. Len(response)
              /\ Content(response, taken + 1) = Content(response, taken) \o response[taken + 1]
<1>1. response \in Seq(Seq(Characters))
  BY StreamAssumption DEF Typed
<1>2. Len(response) \in Nat /\ taken \in Nat
  BY <1>1 DEF Typed
<1>3. held \in Seq(Nat) /\ out \in Seq(Nat)
  BY <1>2 DEF Typed
<1>4. ASSUME taken < Len(response)
      PROVE  taken + 1 \in 1 .. Len(response) /\ taken \in 0 .. Len(response) - 1
  BY <1>2, <1>4
<1>5. ASSUME taken < Len(response)
      PROVE  /\ taken + 1 \in 0 .. Len(response)
             /\ Content(response, taken + 1) = Content(response, taken) \o response[taken + 1]
  <2>1. taken + 1 \in 0 .. Len(response) /\ taken \in 0 .. Len(response) - 1
    BY <1>2, <1>4, <1>5
  <2> QED
    BY <2>1, <1>1, ContentGrows
<1> QED
  BY <1>1, <1>2, <1>3, <1>4, <1>5

\* The number of alerts of one scan.
Reports(s) == IF Matches(s) = {} THEN 0 ELSE 1

\* A response starts right.
LEMMA InitStream == Init => StreamInv
<1> SUFFICES ASSUME Init PROVE StreamInv
  OBVIOUS
<1>1. response \in Seq(Seq(Characters)) /\ Len(response) \in Nat
  BY StreamAssumption DEF Init
<1>2. Typed
  <2>1. held \in Seq(1 .. taken) /\ out \in Seq(1 .. taken) /\ tasks \subseteq 1 .. taken
    BY DEF Init
  <2>2. taken \in 0 .. Len(response) /\ pushes \in 0 .. MaxPushes
    BY <1>1, StreamAssumption DEF Init
  <2> QED
    BY <2>1, <2>2 DEF Init, Typed
<1>3. Upto(0) = <<>> /\ Len(out) = 0 /\ out \o held = <<>>
  BY DEF Init, Upto
<1>4. Ordered
  BY <1>3 DEF Init, Ordered
<1>5. Collected
  <2>1. Content(response, 0) = <<>>
    BY <1>1, ContentGrows
  <2> QED
    BY <2>1 DEF Init, Collected
<1>6. Counted
  <2>1. (1 .. 0) \ {} = {}
    OBVIOUS
  <2> QED
    BY <2>1, FS_EmptySet DEF Init, Counted
<1> QED
  BY <1>2, <1>4, <1>5, <1>6 DEF StreamInv

\* A chunk passed through.
LEMMA PassesThroughKeeps == StreamInv /\ PassesThrough => StreamInv'
<1> SUFFICES ASSUME StreamInv, PassesThrough PROVE StreamInv'
  OBVIOUS
<1>1. Typed /\ Ordered /\ Collected /\ Counted
  BY DEF StreamInv
<1> USE DEF PassesThrough, Arrives, Scanner
<1>2. /\ taken \in Nat /\ Len(response) \in Nat /\ taken' = taken + 1
      /\ taken' \in 0 .. Len(response)
  BY <1>1, NextChunk
<1>3. out' = Upto(taken') /\ Len(out') = taken'
  <2>1. held = <<>> /\ out \o held = out /\ out \o held = Upto(taken)
    BY <1>1, NextChunk, ConcatEmptySeq DEF Ordered
  <2>2. out' = Append(Upto(taken), taken + 1)
    BY <2>1, <1>2
  <2>3. taken' \in Nat
    BY <1>2
  <2> QED
    BY <2>2, <2>3, <1>2, UptoGrows
<1>4. Typed'
  <2>1. out' \in Seq(1 .. taken')
    <3>1. taken' \in Nat
      BY <1>2
    <3> QED
      BY <3>1, <1>3, UptoGrows
  <2>2. tasks' \subseteq 1 .. taken'
    BY <1>1, <1>2 DEF Typed
  <2>3. held' \in Seq(1 .. taken')
    BY <1>1, <1>2, MoreChunks DEF Typed
  <2> QED
    BY <1>1, <1>2, <2>1, <2>2, <2>3 DEF Typed
<1>5. Ordered'
  <2>1. held' = <<>> /\ out' \in Seq(Nat)
    <3>1. taken' \in Nat
      BY <1>2
    <3>2. Upto(taken') \in Seq(Nat)
      BY <3>1, UptoGrows
    <3> QED
      BY <3>2, <1>1, <1>2, <1>3 DEF Ordered
  <2>2. out' \o held' = Upto(taken')
    BY <2>1, <1>3, ConcatEmptySeq
  <2> QED
    BY <1>1, <1>3, <2>1, <2>2 DEF Ordered, ScansAtEnd
<1>6. Collected'
  BY <1>1, <1>2 DEF Collected, ScansAtEnd
<1>7. Counted'
  <2> DEFINE D == (1 .. taken) \ tasks
             E == (1 .. taken') \ tasks'
  <2>1. IsFiniteSet(E) /\ D \in SUBSET E
    <3>1. IsFiniteSet(1 .. taken')
      BY <1>2, FS_Interval
    <3>2. IsFiniteSet(E)
      BY <3>1, FS_Subset
    <3> QED
      BY <3>2, <1>1, <1>2 DEF Typed
  <2>2. Cardinality(D) <= Cardinality(E) /\ Cardinality(D) \in Nat /\ Cardinality(E) \in Nat
    BY <2>1, FS_Subset, FS_CardinalityType
  <2>3. alerts \in Nat /\ alerts <= Cardinality(D)
    BY <1>1 DEF Counted
  <2> HIDE DEF D, E
  <2>4. alerts <= Cardinality(E)
    BY <2>2, <2>3
  <2> QED
    BY <2>3, <2>4 DEF Counted, E
<1> QED
  BY <1>4, <1>5, <1>6, <1>7 DEF StreamInv

\* A chunk held back.
LEMMA HoldsKeeps ==
  ASSUME StreamInv, pc = "streaming", mode # "passthrough", taken < Len(response),
         taken' = taken + 1, held' = Append(held, taken'), ~released,
         \/ enabled /\ ScansAtEnd /\ text' = text \o response[taken']
         \/ ~enabled /\ text' = text,
         UNCHANGED <<response, mode, pc, released, out, tasks, alerts, Scanner>>
  PROVE  StreamInv'
<1>1. Typed /\ Ordered /\ Collected /\ Counted
  BY DEF StreamInv
<1> USE DEF Scanner
<1>2. /\ taken \in Nat /\ Len(response) \in Nat /\ taken' \in 0 .. Len(response)
      /\ held \in Seq(Nat) /\ out \in Seq(Nat)
  BY <1>1, NextChunk
<1>3. Typed'
  <2>1. held' \in Seq(1 .. taken') /\ out' \in Seq(1 .. taken')
    BY <1>1, <1>2, MoreChunks DEF Typed
  <2>2. tasks' \subseteq 1 .. taken'
    BY <1>1, <1>2 DEF Typed
  <2> QED
    BY <1>1, <1>2, <2>1, <2>2 DEF Typed
<1>4. Ordered'
  <2>1. out' \o held' = Upto(taken')
    BY <1>1, <1>2, HeldGrows DEF Ordered
  <2> QED
    BY <1>1, <2>1 DEF Ordered, ScansAtEnd
<1>5. Collected'
  <2>1. CASE enabled /\ ScansAtEnd /\ text' = text \o response[taken']
    <3>1. text = Content(response, taken)
      BY <1>1, <2>1 DEF Collected
    <3>2. text' = Content(response, taken')
      BY <3>1, <2>1, <1>1, NextChunk
    <3>3. taken' \in 0 .. taken'
      BY <1>2
    <3> QED
      BY <3>2, <3>3 DEF Collected
  <2>2. CASE ~enabled /\ text' = text
    BY <2>2, <1>1, <1>2 DEF Collected
  <2> QED
    BY <2>1, <2>2
<1>6. Counted'
  BY <1>1 DEF Counted
<1> QED
  BY <1>3, <1>4, <1>5, <1>6 DEF StreamInv

\* Everything held and the chunk that arrives are released.
LEMMA ReleasesKeeps ==
  ASSUME StreamInv, pc = "streaming", mode = "buffered", taken < Len(response),
         taken' = taken + 1, out' = out \o Append(held, taken'), held' = <<>>,
         \/ /\ enabled /\ ~released /\ released' = TRUE
            /\ text' = text \o response[taken'] /\ Alerted(text')
         \/ /\ ~enabled \/ released
            /\ UNCHANGED <<text, released, alerts>>,
         UNCHANGED <<response, mode, pc, tasks, Scanner>>
  PROVE  StreamInv'
<1>1. Typed /\ Ordered /\ Collected /\ Counted
  BY DEF StreamInv
<1> USE DEF Scanner
<1>2. /\ taken \in Nat /\ Len(response) \in Nat /\ taken' \in 0 .. Len(response)
      /\ held \in Seq(Nat) /\ out \in Seq(Nat) /\ taken' \in Nat
  BY <1>1, NextChunk
<1>3. out' = Upto(taken') /\ out' \in Seq(1 .. taken') /\ out' \in Seq(Nat)
      /\ Len(out') = taken' /\ out' # <<>>
  <2>1. out \o Append(held, taken + 1) = Upto(taken + 1)
    BY <1>1, <1>2, HeldGrows DEF Ordered
  <2>2. out' = Upto(taken')
    BY <2>1
  <2>3. Upto(taken + 1) # <<>>
    BY <1>2, UptoGrows
  <2> QED
    BY <1>2, <2>2, <2>3, UptoGrows
<1>4. Typed'
  <2>1. tasks' \subseteq 1 .. taken' /\ held' \in Seq(1 .. taken')
    BY <1>1, <1>2 DEF Typed
  <2>2. released' \in BOOLEAN
    BY <1>1 DEF Typed
  <2> QED
    BY <1>1, <1>2, <1>3, <2>1, <2>2 DEF Typed
<1>5. Ordered'
  <2>1. out' \o held' = Upto(taken')
    BY <1>3, ConcatEmptySeq
  <2>2. ~(ScansAtEnd' /\ enabled')
    BY DEF ScansAtEnd
  <2> QED
    BY <1>1, <1>3, <2>1, <2>2 DEF Ordered
<1>6. Collected'
  <2>1. ~(ScansAtEnd' /\ enabled')
    BY DEF ScansAtEnd
  <2>2. CASE UNCHANGED text
    BY <2>1, <2>2, <1>1, <1>2 DEF Collected
  <2>3. CASE enabled /\ ~released /\ text' = text \o response[taken']
    <3>1. text = Content(response, taken)
      BY <1>1, <2>3 DEF Collected, ScansAtEnd
    <3>2. text' = Content(response, taken')
      BY <3>1, <2>3, <1>1, NextChunk
    <3>3. taken' \in 0 .. taken'
      BY <1>2
    <3> QED
      BY <2>1, <3>2, <3>3 DEF Collected
  <2> QED
    BY <2>2, <2>3
<1>7. Counted'
  <2>1. tasks' = {} /\ (released \/ released' \/ alerts = 0) /\ alerts \in 0 .. 1
    BY <1>1 DEF Counted
  <2>2. alerts' \in 0 .. 1
    <3>1. ~released => alerts = 0
      BY <1>1 DEF Counted
    <3> QED
      BY <2>1, <3>1 DEF Alerted
  <2>3. released' \/ alerts' = 0
    BY <1>1 DEF Counted
  <2> QED
    BY <2>1, <2>2, <2>3 DEF Counted
<1> QED
  BY <1>4, <1>5, <1>6, <1>7 DEF StreamInv

\* A response blocked at the chunk that fills the buffer, or at its end.
LEMMA BlocksKeeps ==
  ASSUME StreamInv, pc = "streaming", pc' = "blocked", ScansAtEnd, enabled,
         \/ /\ taken < Len(response) /\ taken' = taken + 1
            /\ text' = text \o response[taken']
         \/ UNCHANGED <<taken, text>>,
         UNCHANGED <<response, mode, released, held, out, tasks, alerts, Scanner>>
  PROVE  StreamInv'
<1>1. Typed /\ Ordered /\ Collected /\ Counted
  BY DEF StreamInv
<1> USE DEF Scanner
<1>2. /\ taken \in Nat /\ Len(response) \in Nat
      /\ held \in Seq(Nat) /\ out \in Seq(Nat)
      /\ taken' \in Nat /\ taken' \in 0 .. Len(response) /\ taken <= taken'
  BY <1>1, NextChunk DEF Typed
<1>3. Typed'
  <2>1. held' \in Seq(1 .. taken') /\ out' \in Seq(1 .. taken')
    BY <1>1, <1>2, MoreChunks DEF Typed
  <2>2. tasks' \subseteq 1 .. taken'
    BY <1>1, <1>2 DEF Typed
  <2> QED
    BY <1>1, <1>2, <2>1, <2>2 DEF Typed
<1>4. Ordered'
  BY <1>1 DEF Ordered, ScansAtEnd
<1>5. Collected'
  <2>1. text = Content(response, taken)
    BY <1>1 DEF Collected
  <2>2. text' = Content(response, taken')
    BY <2>1, <1>1, NextChunk
  <2>3. taken' \in 0 .. taken'
    BY <1>2
  <2> QED
    BY <2>2, <2>3 DEF Collected
<1>6. Counted'
  BY <1>1 DEF Counted, ScansAtEnd
<1> QED
  BY <1>3, <1>4, <1>5, <1>6 DEF StreamInv

\* A response that ends.
LEMMA EndPassesKeeps == StreamInv /\ EndPasses => StreamInv'
<1> SUFFICES ASSUME StreamInv, EndPasses PROVE StreamInv'
  OBVIOUS
<1>1. Typed /\ Ordered /\ Collected /\ Counted
  BY DEF StreamInv
<1> USE DEF EndPasses, Scanner
<1>2. /\ taken \in Nat /\ Len(response) \in Nat /\ held \in Seq(Nat) /\ out \in Seq(Nat)
  BY <1>1, NextChunk
<1>3. out' = Upto(Len(response)) /\ Len(out') = Len(response) /\ out' \in Seq(1 .. taken')
  BY <1>1, <1>2, UptoGrows DEF Ordered
<1>4. Typed'
  BY <1>1, <1>3 DEF Typed
<1>5. Ordered'
  <2>1. released => out' # <<>>
    <3>1. out' = out \o held
      OBVIOUS
    <3>2. out # <<>> => out \o held # <<>>
      BY <1>2, ConcatEqualIffEmpty
    <3> QED
      BY <1>1, <3>1, <3>2 DEF Ordered
  <2>2. released => mode = "buffered"
    BY <1>1 DEF Ordered
  <2> QED
    BY <1>3, <2>1, <2>2 DEF Ordered
<1>6. Collected'
  BY <1>1 DEF Collected
<1>7. Counted'
  <2>1. CASE ScansAtEnd
    BY <2>1, <1>1 DEF Counted, Alerted, ScansAtEnd, Ordered
  <2>2. CASE ~ScansAtEnd
    BY <2>2, <1>1 DEF Counted
  <2> QED
    BY <2>1, <2>2
<1> QED
  BY <1>4, <1>5, <1>6, <1>7 DEF StreamInv

\* A background scan.
LEMMA TaskScansKeeps ==
  ASSUME StreamInv, NEW i \in tasks, TaskScans(i)
  PROVE  StreamInv'
<1>1. Typed /\ Ordered /\ Collected /\ Counted
  BY DEF StreamInv
<1> USE DEF TaskScans, Scanner
<1>2. taken \in Nat /\ i \in 1 .. taken /\ mode = "passthrough"
  BY <1>1, NextChunk DEF Typed, Counted
<1>3. Typed'
  BY <1>1 DEF Typed
<1>4. Ordered'
  BY <1>1 DEF Ordered, ScansAtEnd
<1>5. Collected'
  BY <1>1 DEF Collected, ScansAtEnd
<1>6. Counted'
  <2> DEFINE D == (1 .. taken) \ tasks
  <2>1. (1 .. taken') \ tasks' = D \cup {i} /\ i \notin D
    BY <1>2
  <2>2. IsFiniteSet(D)
    <3>1. IsFiniteSet(1 .. taken)
      BY <1>2, FS_Interval
    <3> QED
      BY <3>1, FS_Subset
  <2>3. Cardinality(D \cup {i}) = Cardinality(D) + 1 /\ Cardinality(D) \in Nat
    BY <2>1, <2>2, FS_AddElement, FS_CardinalityType
  <2>4. alerts \in Nat /\ alerts <= Cardinality(D)
    BY <1>1, <1>2 DEF Counted
  <2>5. alerts' \in Nat /\ alerts' <= alerts + 1
    BY <2>4 DEF Alerted
  <2> HIDE DEF D
  <2> QED
    BY <1>2, <2>1, <2>3, <2>4, <2>5 DEF Counted
<1> QED
  BY <1>3, <1>4, <1>5, <1>6 DEF StreamInv

\* A push changes nothing the invariant needs.
LEMMA PushesKeep == StreamInv /\ (Reload \/ SwitchOn \/ SwitchOff) => StreamInv'
<1> SUFFICES ASSUME StreamInv, Reload \/ SwitchOn \/ SwitchOff PROVE StreamInv'
  OBVIOUS
<1>1. Typed /\ Ordered /\ Collected /\ Counted
  BY DEF StreamInv
<1> USE DEF Reload, SwitchOn, SwitchOff, Push, Stream
<1>2. Typed'
  <2>1. pushes' \in 0 .. MaxPushes
    BY <1>1, StreamAssumption DEF Typed
  <2>2. {enabled', attached', released', calm'} \subseteq BOOLEAN
    BY <1>1 DEF Typed
  <2>3. rules' \in RuleSets
    BY <1>1 DEF Typed
  <2> QED
    BY <1>1, <2>1, <2>2, <2>3 DEF Typed
<1>3. Ordered'
  <2>1. enabled' => enabled
    OBVIOUS
  <2>2. UNCHANGED <<response, mode, pc, taken, released, held, out>>
    OBVIOUS
  <2> HIDE DEF Reload, SwitchOn, SwitchOff
  <2> QED
    BY <1>1, <2>1, <2>2 DEF Ordered, ScansAtEnd
<1>4. Collected'
  <2>1. enabled' => enabled
    OBVIOUS
  <2> QED
    BY <1>1, <2>1 DEF Collected, ScansAtEnd
<1>5. Counted'
  BY <1>1 DEF Counted
<1> QED
  BY <1>2, <1>3, <1>4, <1>5 DEF StreamInv

\* Every step keeps the invariant of the stream.
LEMMA StepStream == StreamInv /\ [Next]_vars => StreamInv'
<1> SUFFICES ASSUME StreamInv, [Next]_vars PROVE StreamInv'
  OBVIOUS
<1>1. Typed /\ Ordered /\ Collected /\ Counted
  BY DEF StreamInv
<1>2. CASE PassesThrough
  BY <1>2, PassesThroughKeeps
<1>3. CASE Collects
  <2>1. ~released
    BY <1>1, <1>3 DEF Ordered, Collects, Arrives
  <2>2. enabled \in BOOLEAN
    BY <1>1 DEF Typed
  <2> QED
    BY <1>3, <2>1, <2>2, HoldsKeeps DEF Collects, Arrives, ScansAtEnd
<1>4. CASE Buffers
  BY <1>4, HoldsKeeps DEF Buffers, Buffered, Arrives, ScansAtEnd
<1>5. CASE BufferPasses
  <2>1. Alerted(text')
    BY <1>5 DEF BufferPasses
  <2> QED
    BY <1>5, <2>1, ReleasesKeeps DEF BufferPasses, Buffered, Arrives
<1>6. CASE BufferBlocks
  BY <1>6, BlocksKeeps DEF BufferBlocks, Buffered, Arrives, ScansAtEnd
<1>7. CASE Forwards
  BY <1>7, ReleasesKeeps DEF Forwards, Arrives
<1>8. CASE EndPasses
  BY <1>8, EndPassesKeeps
<1>9. CASE EndBlocks
  <2>1. enabled
    BY <1>1, <1>9 DEF EndBlocks, Blocks, Matches
  <2> QED
    BY <1>9, <2>1, BlocksKeeps DEF EndBlocks
<1>10. CASE \E i \in tasks : TaskScans(i)
  BY <1>10, TaskScansKeeps
<1>11. CASE Reload \/ SwitchOn \/ SwitchOff
  BY <1>11, PushesKeep
<1>12. CASE UNCHANGED vars
  BY <1>1, <1>12 DEF StreamInv, Typed, Ordered, Collected, Counted, ScansAtEnd, vars, Stream, Scanner
<1> QED
  BY <1>2, <1>3, <1>4, <1>5, <1>6, <1>7, <1>8, <1>9, <1>10, <1>11, <1>12 DEF Next

\* What the invariant states holds in every reachable state.
THEOREM Invariance == Spec => []StreamInv
  BY InitStream, StepStream, PTL DEF Spec

\* Every variable keeps its type, and a response scanned as one text is reported at
\* most once.
THEOREM TypeCorrect == Spec => []TypeOK
<1>1. StreamInv => TypeOK
  <2> SUFFICES ASSUME StreamInv PROVE TypeOK
    OBVIOUS
  <2>1. Typed /\ Ordered /\ Collected /\ Counted
    BY DEF StreamInv
  <2>2. response \in Seq(Seq(Characters)) /\ Len(response) \in Nat /\ taken \in Nat
    BY <2>1, NextChunk
  <2>3. IsPrefix(text, Text(Upto(taken)))
    <3>1. PICK k \in 0 .. taken : text = Content(response, k)
      BY <2>1 DEF Collected
    <3>2. k \in 0 .. Len(response) /\ taken \in k .. Len(response)
      BY <2>1, <2>2, <3>1 DEF Typed
    <3>3. IsPrefix(Content(response, k), Content(response, taken))
      BY <2>2, <3>2, ContentPrefix
    <3> QED
      BY <2>2, <3>1, <3>3, TextUpto
  <2>4. alerts \in 0 .. (IF mode = "passthrough" THEN taken ELSE 1)
    <3>1. CASE mode = "passthrough"
      <4> DEFINE D == (1 .. taken) \ tasks
      <4>1. IsFiniteSet(1 .. taken) /\ Cardinality(1 .. taken) = taken
        <5>1. IsFiniteSet(1 .. taken)
              /\ Cardinality(1 .. taken) = IF 1 > taken THEN 0 ELSE taken - 1 + 1
          BY <2>2, FS_Interval
        <5> QED
          BY <5>1, <2>2
      <4>2. IsFiniteSet(D) /\ Cardinality(D) <= taken /\ D \in SUBSET (1 .. taken)
        BY <4>1, FS_Subset
      <4>3. Cardinality(D) \in Nat
        BY <4>2, FS_CardinalityType
      <4>4. alerts \in Nat /\ alerts <= Cardinality(D)
        BY <2>1, <3>1 DEF Counted
      <4> HIDE DEF D
      <4> QED
        BY <2>2, <3>1, <4>2, <4>3, <4>4
    <3>2. CASE mode # "passthrough"
      BY <2>1, <3>2 DEF Counted
    <3> QED
      BY <3>1, <3>2
  <2> QED
    BY <2>1, <2>3, <2>4 DEF TypeOK, Typed
<1> QED
  BY <1>1, Invariance, PTL

\* The client gets the chunks in order, each once, all of them when the stream ends
\* and none when it is blocked.
THEOREM InOrder == Spec => []ReleasedInOrder
<1>1. StreamInv => ReleasedInOrder
  BY DEF StreamInv, Ordered, ReleasedInOrder
<1> QED
  BY <1>1, Invariance, PTL

\* The first release is of N characters or of everything, and holds nothing that a
\* rule in force at that moment blocks.
THEOREM Held == Spec => HeldUntilScanned
<1> DEFINE First == out = <<>> /\ out' # <<>> /\ enabled /\ mode # "passthrough"
           Scanned == /\ ~Blocks(Text(out'))
                      /\ IF mode = "full" THEN pc' = "ended"
                         ELSE pc' = "ended" \/ Len(Text(out')) >= BufferSize
<1>1. ASSUME StreamInv, StreamInv', Next, First PROVE Scanned
  <2>1. Typed /\ Ordered /\ Collected /\ Counted
    BY <1>1 DEF StreamInv
  <2>2. out' # out /\ enabled /\ mode # "passthrough" /\ ~released /\ taken \in Nat
    BY <1>1, <2>1, NextChunk DEF Ordered
  <2>3. CASE BufferPasses
    <3>1. text = Content(response, taken)
      BY <2>1, <2>3 DEF Collected, BufferPasses, ScansAtEnd, Arrives
    <3>2. Buffered = Content(response, taken')
      BY <3>1, <2>1, <2>3, NextChunk DEF BufferPasses, Buffered, Arrives
    <3>3. out' = Upto(taken')
      <4>1. out' \o held' = Upto(taken') /\ held' = <<>>
        BY <1>1, <2>3 DEF StreamInv, Ordered, BufferPasses, Arrives
      <4>2. out' \in Seq(1 .. taken')
        BY <1>1 DEF StreamInv, Typed
      <4> QED
        BY <4>1, <4>2, ConcatEmptySeq
    <3>4. Text(out') = Buffered
      <4>1. taken + 1 \in Nat /\ taken' = taken + 1
        BY <2>2, <2>3 DEF BufferPasses, Arrives
      <4>2. Text(Upto(taken + 1)) = Content(response, taken + 1)
        BY <4>1, TextUpto
      <4> QED
        BY <3>2, <3>3, <4>1, <4>2
    <3> QED
      BY <2>3, <3>4 DEF BufferPasses, Arrives
  <2>4. CASE EndPasses
    <3>1. ScansAtEnd
      BY <2>1, <2>2, StreamAssumption DEF ScansAtEnd, Typed
    <3>2. text = Content(response, taken) /\ ~Blocks(text) /\ taken = Len(response)
      BY <2>1, <2>2, <2>4, <3>1 DEF Collected, EndPasses
    <3>3. out' = Upto(taken)
      BY <2>1, <2>4 DEF Ordered, EndPasses
    <3>4. Text(out') = text
      BY <2>2, <3>2, <3>3, TextUpto
    <3> QED
      BY <2>4, <3>2, <3>4 DEF EndPasses
  <2>5. CASE Forwards
    BY <2>2, <2>5 DEF Forwards
  <2>6. CASE PassesThrough
    BY <2>2, <2>6 DEF PassesThrough, Arrives
  <2>7. CASE \/ Collects \/ Buffers \/ BufferBlocks \/ EndBlocks
             \/ (\E i \in tasks : TaskScans(i)) \/ Reload \/ SwitchOn \/ SwitchOff
    BY <2>2, <2>7 DEF Collects, Buffers, BufferBlocks, EndBlocks, TaskScans,
                      Reload, SwitchOn, SwitchOff, Stream
  <2> QED
    BY <1>1, <2>3, <2>4, <2>5, <2>6, <2>7 DEF Next
<1>2. ASSUME StreamInv, StreamInv', [Next]_vars PROVE [First => Scanned]_vars
  BY <1>1, <1>2
<1> QED
  BY <1>2, Invariance, PTL DEF Spec, HeldUntilScanned

----------------------------------------------------------------------------
(* The verdict of the whole.                                               *)

\* n chunks fill the buffer.
Enough(n) == Len(Content(response, n)) >= BufferSize

\* The text of the first m chunks is what the response is judged by.
JudgedAt(m) ==
  \/ mode = "full" /\ m = Len(response)
  \/ /\ mode = "buffered"
     /\ m \in 1 .. Len(response) /\ Enough(m) /\ \A n \in 1 .. m - 1 : ~Enough(n)
  \/ /\ mode = "buffered"
     /\ m = Len(response) /\ \A n \in 1 .. m : ~Enough(n)

\* The chunks whose background scan has reported.
Reported == {i \in (1 .. taken) \ tasks : Matches(response[i]) # {}}

\* Without pushes: what has been scanned so far, and what came of it.
Judging ==
  calm =>
    /\ enabled
    /\ mode = "passthrough" => alerts = Cardinality(Reported)
    /\ pc = "streaming" /\ mode = "buffered" /\ ~released => \A n \in 1 .. taken : ~Enough(n)
    /\ mode # "passthrough" /\ (released \/ pc = "ended") =>
         \E m \in 0 .. taken :
           /\ JudgedAt(m)
           /\ ~Blocks(Content(response, m))
           /\ alerts = Reports(Content(response, m))
    /\ pc = "blocked" => \E m \in 0 .. taken : JudgedAt(m) /\ Blocks(Content(response, m))

JudgingInv == StreamInv /\ Judging

\* Nothing has been judged.
LEMMA InitJudging == Init => Judging
<1> SUFFICES ASSUME Init PROVE Judging
  OBVIOUS
<1>1. Reported = {} /\ (1 .. taken) = {}
  BY DEF Init, Reported
<1> QED
  BY <1>1, FS_EmptySet DEF Init, Judging

\* Scans of the same text with the same rules agree.
LEMMA SameScans ==
  ASSUME UNCHANGED <<rules, enabled>>, NEW s
  PROVE  Matches(s)' = Matches(s) /\ Blocks(s)' = Blocks(s) /\ Reports(s)' = Reports(s)
<1>1. Matches(s)' = Matches(s)
  BY DEF Matches
<1> QED
  BY <1>1 DEF Blocks, Reports

\* A text without characters matches nothing.
LEMMA NothingMatches == Matches(<<>>) = {}
  BY DEF Matches, Occurs

\* A chunk passed through.
LEMMA PassesThroughJudges == JudgingInv /\ PassesThrough => Judging'
<1> SUFFICES ASSUME JudgingInv, PassesThrough, calm' PROVE Judging'
  BY DEF Judging
<1>1. Typed /\ Ordered /\ Collected /\ Counted /\ Judging
  BY DEF JudgingInv, StreamInv
<1> USE DEF PassesThrough, Arrives, Scanner
<1>2. taken \in Nat /\ calm /\ enabled /\ mode = "passthrough" /\ pc = "streaming"
  BY <1>1, NextChunk DEF Judging
<1>3. Reported' = Reported
  <2>1. ASSUME NEW i \in 1 .. taken' PROVE i \in Reported' <=> i \in Reported
    <3>1. Matches(response[i])' = Matches(response[i])
      BY SameScans DEF Matches
    <3>2. CASE i = taken'
      <4>1. i \notin 1 .. taken
        BY <1>2, <3>2
      <4>2. i \notin tasks' => response[i] = <<>>
        BY <1>2, <3>2
      <4> QED
        BY <4>1, <4>2, <3>1, NothingMatches DEF Reported
    <3>3. CASE i # taken'
      <4>1. i \in 1 .. taken /\ (i \in tasks' <=> i \in tasks)
        BY <1>2, <3>3
      <4> QED
        BY <4>1, <3>1 DEF Reported
    <3> QED
      BY <3>2, <3>3
  <2>2. Reported \subseteq 1 .. taken' /\ Reported' \subseteq 1 .. taken'
    BY <1>2 DEF Reported
  <2> QED
    BY <2>1, <2>2
<1> QED
  BY <1>1, <1>2, <1>3 DEF Judging, Ordered

\* A background scan.
LEMMA TaskScansJudges ==
  ASSUME JudgingInv, NEW i \in tasks, TaskScans(i)
  PROVE  Judging'
<1> SUFFICES ASSUME calm' PROVE Judging'
  BY DEF Judging
<1>1. Typed /\ Ordered /\ Collected /\ Counted /\ Judging
  BY DEF JudgingInv, StreamInv
<1> USE DEF TaskScans, Scanner
<1>2. /\ taken \in Nat /\ i \in 1 .. taken /\ mode = "passthrough" /\ calm /\ enabled
      /\ pc # "blocked" /\ ~released /\ i \notin Reported
      /\ IsFiniteSet(Reported) /\ alerts = Cardinality(Reported)
  <2>1. taken \in Nat /\ mode = "passthrough" /\ i \in 1 .. taken
    BY <1>1, NextChunk DEF Counted, Typed
  <2>2. IsFiniteSet(1 .. taken)
    BY <2>1, FS_Interval
  <2>3. Reported \in SUBSET (1 .. taken)
    BY DEF Reported
  <2>4. IsFiniteSet(Reported)
    BY <2>2, <2>3, FS_Subset
  <2> QED
    BY <2>1, <2>4, <1>1 DEF Judging, Ordered, Reported
<1>3. Reported' = IF Matches(response[i]) = {} THEN Reported ELSE Reported \cup {i}
  <2>1. ASSUME NEW j \in 1 .. taken
        PROVE  j \in Reported' <=> j \in Reported \/ (j = i /\ Matches(response[i]) # {})
    <3>1. Matches(response[j])' = Matches(response[j])
      BY DEF Matches
    <3> QED
      BY <3>1, <1>2 DEF Reported
  <2>2. Reported \subseteq 1 .. taken /\ Reported' \subseteq 1 .. taken
    BY <1>2 DEF Reported
  <2> QED
    BY <2>1, <2>2, <1>2
<1>4. alerts' = Cardinality(Reported')
  <2>1. Cardinality(Reported \cup {i}) = Cardinality(Reported) + 1
        /\ Cardinality(Reported) \in Nat
    BY <1>2, FS_AddElement, FS_CardinalityType
  <2> QED
    BY <2>1, <1>2, <1>3 DEF Alerted
<1> QED
  BY <1>2, <1>4 DEF Judging

\* What a response is judged by stays the same.
LEMMA SameJudged ==
  ASSUME UNCHANGED <<response, mode>>, NEW n
  PROVE  Enough(n)' = Enough(n) /\ JudgedAt(n)' = JudgedAt(n)
  BY DEF Enough, JudgedAt

\* A chunk held back: nothing has been scanned yet.
LEMMA HoldsJudges ==
  ASSUME JudgingInv, pc = "streaming", mode # "passthrough", taken' = taken + 1, ~released,
         mode = "buffered" /\ calm => ~Enough(taken'),
         UNCHANGED <<response, mode, pc, released, alerts, Scanner>>
  PROVE  Judging'
<1> SUFFICES ASSUME calm' PROVE Judging'
  BY DEF Judging
<1>1. Typed /\ Judging
  BY DEF JudgingInv, StreamInv
<1> USE DEF Scanner
<1>2. taken \in Nat /\ calm /\ enabled
  BY <1>1, NextChunk DEF Judging
<1>3. ASSUME mode = "buffered", NEW n \in 1 .. taken' PROVE ~Enough(n)'
  <2>1. n = taken' \/ n \in 1 .. taken
    BY <1>2
  <2>2. ~Enough(n)
    BY <2>1, <1>1, <1>2, <1>3 DEF Judging
  <2> QED
    BY <2>2, SameJudged
<1> QED
  BY <1>2, <1>3 DEF Judging

\* The scan of the text of the first m chunks lets the response pass.
LEMMA PassingJudges ==
  ASSUME JudgingInv, mode # "passthrough", ~released,
         NEW m \in 0 .. taken', JudgedAt(m), text' = Content(response, m),
         ~Blocks(text'), alerts = 0, Alerted(text'), pc' # "blocked",
         released' \/ pc' = "ended",
         UNCHANGED <<response, mode, Scanner>>
  PROVE  Judging'
<1> SUFFICES ASSUME calm' PROVE Judging'
  BY DEF Judging
<1>1. Judging
  BY DEF JudgingInv
<1> USE DEF Scanner
<1> DEFINE s == Content(response, m)
<1>2. calm /\ enabled
  BY <1>1 DEF Judging
<1>3. JudgedAt(m)'
  BY SameJudged
<1>4. ~Blocks(s)' /\ alerts' = Reports(s)'
  BY DEF Alerted, Reports, Blocks, Matches
<1>5. pc' = "streaming" => released'
  OBVIOUS
<1>6. \E n \in 0 .. taken' : /\ JudgedAt(n)'
                             /\ ~Blocks(Content(response, n))'
                             /\ alerts' = Reports(Content(response, n))'
  BY <1>3, <1>4
<1> HIDE DEF s
<1> QED
  BY <1>2, <1>5, <1>6 DEF Judging

\* The scan of the text of the first m chunks blocks the response.
LEMMA BlockingJudges ==
  ASSUME JudgingInv, mode # "passthrough", ~released,
         NEW m \in 0 .. taken', JudgedAt(m), text' = Content(response, m),
         Blocks(text'), pc' = "blocked",
         UNCHANGED <<response, mode, released, alerts, Scanner>>
  PROVE  Judging'
<1> SUFFICES ASSUME calm' PROVE Judging'
  BY DEF Judging
<1>1. Judging
  BY DEF JudgingInv
<1> USE DEF Scanner
<1>2. calm /\ enabled
  BY <1>1 DEF Judging
<1>3. JudgedAt(m)'
  BY SameJudged
<1>4. Blocks(Content(response, m))'
  BY DEF Blocks, Matches
<1>5. \E n \in 0 .. taken' : JudgedAt(n)' /\ Blocks(Content(response, n))'
  BY <1>3, <1>4
<1> QED
  BY <1>2, <1>5 DEF Judging

\* What follows the scan of a response does not change its verdict.
LEMMA JudgedStays ==
  ASSUME JudgingInv, mode # "passthrough", released, taken <= taken', taken' \in Nat,
         pc' # "blocked", UNCHANGED <<response, mode, released, alerts, Scanner>>
  PROVE  Judging'
<1> SUFFICES ASSUME calm' PROVE Judging'
  BY DEF Judging
<1>1. Typed /\ Judging
  BY DEF JudgingInv, StreamInv
<1> USE DEF Scanner
<1>2. calm /\ enabled /\ taken \in Nat
  BY <1>1, NextChunk DEF Judging
<1>3. PICK m \in 0 .. taken : /\ JudgedAt(m)
                              /\ ~Blocks(Content(response, m))
                              /\ alerts = Reports(Content(response, m))
  BY <1>1, <1>2 DEF Judging
<1>4. m \in 0 .. taken' /\ JudgedAt(m)'
  <2>1. m \in 0 .. taken'
    BY <1>2
  <2> QED
    BY <2>1, <1>3, SameJudged
<1>5. ~Blocks(Content(response, m))' /\ alerts' = Reports(Content(response, m))'
  BY <1>3 DEF Reports, Blocks, Matches
<1>6. \E n \in 0 .. taken' : /\ JudgedAt(n)'
                             /\ ~Blocks(Content(response, n))'
                             /\ alerts' = Reports(Content(response, n))'
  BY <1>4, <1>5
<1> QED
  BY <1>2, <1>6 DEF Judging

\* Every step keeps the judgements right.
LEMMA StepJudging == JudgingInv /\ [Next]_vars => Judging'
<1> SUFFICES ASSUME JudgingInv, [Next]_vars, calm' PROVE Judging'
  BY DEF Judging
<1>1. StreamInv /\ Typed /\ Ordered /\ Collected /\ Counted /\ Judging
  BY DEF JudgingInv, StreamInv
<1>2. taken \in Nat /\ Len(response) \in Nat
  BY <1>1, NextChunk
<1>3. calm' => calm /\ UNCHANGED <<rules, enabled>>
  BY DEF Next, PassesThrough, Collects, Buffers, BufferPasses, BufferBlocks, Forwards,
         EndPasses, EndBlocks, TaskScans, Reload, SwitchOn, SwitchOff, Scanner, vars
<1>4. calm /\ enabled
  BY <1>1, <1>3 DEF Judging
<1>5. CASE PassesThrough
  BY <1>5, PassesThroughJudges
<1>6. CASE Collects
  <2>1. ~released
    BY <1>1, <1>6 DEF Ordered, Collects, Arrives
  <2> QED
    BY <1>6, <2>1, HoldsJudges DEF Collects, Arrives
<1>7. ASSUME mode = "buffered", ~released, pc = "streaming",
             taken' = taken + 1, taken < Len(response)
      PROVE  Buffered = Content(response, taken + 1)
  <2>1. text = Content(response, taken)
    BY <1>1, <1>7, <1>4 DEF Collected, ScansAtEnd
  <2> QED
    BY <2>1, <1>1, <1>7, NextChunk DEF Buffered
<1>8. CASE Buffers
  <2>1. ~Enough(taken')
    <3>1. Len(Content(response, taken + 1)) < BufferSize
      BY <1>7, <1>8 DEF Buffers, Arrives
    <3>2. Content(response, taken + 1) \in Seq(Characters)
      BY <1>1, <1>8, NextChunk, ContentGrows DEF Buffers, Arrives
    <3>3. Len(Content(response, taken + 1)) \in Nat
      BY <3>2
    <3>4. taken' = taken + 1
      BY <1>8 DEF Buffers, Arrives
    <3> QED
      BY <3>1, <3>3, <3>4, StreamAssumption DEF Enough
  <2> QED
    BY <1>8, <2>1, HoldsJudges DEF Buffers, Arrives
<1>9. ASSUME mode = "buffered", ~released, pc = "streaming", taken' = taken + 1,
             taken < Len(response), Len(Buffered) >= BufferSize
      PROVE  JudgedAt(taken')
  <2>1. Enough(taken')
    BY <1>7, <1>9 DEF Enough
  <2>2. \A n \in 1 .. taken' - 1 : ~Enough(n)
    BY <1>1, <1>9, <1>2, <1>4 DEF Judging
  <2>3. taken' \in 1 .. Len(response)
    BY <1>2, <1>9
  <2> QED
    BY <1>9, <2>1, <2>2, <2>3 DEF JudgedAt
<1>10. CASE BufferPasses
  <2>1. JudgedAt(taken') /\ text' = Content(response, taken')
    BY <1>7, <1>9, <1>10 DEF BufferPasses, Arrives
  <2>2. taken' \in 0 .. taken' /\ alerts = 0
    BY <1>1, <1>10, <1>2 DEF BufferPasses, Arrives, Counted
  <2>3. Alerted(text') /\ ~Blocks(text')
    BY <1>10 DEF BufferPasses
  <2> QED
    BY <1>10, <2>1, <2>2, <2>3, PassingJudges DEF BufferPasses, Arrives
<1>11. CASE BufferBlocks
  <2>1. JudgedAt(taken') /\ text' = Content(response, taken')
    BY <1>7, <1>9, <1>11 DEF BufferBlocks, Arrives
  <2>2. taken' \in 0 .. taken'
    BY <1>11, <1>2 DEF BufferBlocks, Arrives
  <2>3. Blocks(text')
    BY <1>11 DEF BufferBlocks
  <2> QED
    BY <1>11, <2>1, <2>2, <2>3, BlockingJudges DEF BufferBlocks, Arrives
<1>12. CASE Forwards
  BY <1>12, <1>2, <1>4, JudgedStays DEF Forwards, Arrives
<1>13. ASSUME pc = "streaming", taken = Len(response), ScansAtEnd
      PROVE  JudgedAt(taken) /\ text = Content(response, taken) /\ alerts = 0
             /\ ~released /\ mode # "passthrough"
  <2>1. text = Content(response, taken)
    BY <1>1, <1>13, <1>4 DEF Collected
  <2>2. ~released /\ mode # "passthrough"
    BY <1>1, <1>13 DEF ScansAtEnd, Ordered
  <2>3. alerts = 0
    BY <1>1, <1>13, <2>2 DEF Counted
  <2>4. JudgedAt(taken)
    BY <1>1, <1>13, <1>4, <2>2 DEF Judging, JudgedAt, ScansAtEnd
  <2> QED
    BY <2>1, <2>2, <2>3, <2>4
<1>14. CASE EndPasses
  <2>1. CASE ScansAtEnd
    <3>1. /\ JudgedAt(taken) /\ text' = Content(response, taken) /\ alerts = 0
          /\ ~released /\ mode # "passthrough"
      BY <1>13, <1>14, <2>1 DEF EndPasses
    <3>2. taken \in 0 .. taken' /\ Alerted(text') /\ ~Blocks(text')
      BY <1>14, <1>2, <2>1 DEF EndPasses, Alerted
    <3> QED
      BY <1>14, <3>1, <3>2, PassingJudges DEF EndPasses
  <2>2. CASE ~ScansAtEnd /\ mode # "passthrough"
    <3>1. released
      BY <1>1, <2>2, StreamAssumption DEF ScansAtEnd, Typed
    <3>2. taken <= taken' /\ taken' \in Nat /\ UNCHANGED alerts
      BY <1>14, <1>2, <2>2 DEF EndPasses
    <3> QED
      BY <1>14, <2>2, <3>1, <3>2, JudgedStays DEF EndPasses
  <2>3. CASE mode = "passthrough"
    <3>1. UNCHANGED <<alerts, mode, response, taken, tasks>> /\ pc' = "ended"
      BY <1>14, <2>3 DEF EndPasses, ScansAtEnd
    <3>2. Reported' = Reported
      BY <3>1, <1>3 DEF Reported, Matches
    <3> QED
      BY <1>1, <1>3, <1>4, <2>3, <3>1, <3>2 DEF Judging
  <2> QED
    BY <2>1, <2>2, <2>3
<1>15. CASE EndBlocks
  <2>1. /\ JudgedAt(taken) /\ text' = Content(response, taken)
        /\ ~released /\ mode # "passthrough"
    BY <1>13, <1>15 DEF EndBlocks
  <2>2. taken \in 0 .. taken' /\ Blocks(text')
    BY <1>15, <1>2 DEF EndBlocks
  <2> QED
    BY <1>15, <2>1, <2>2, BlockingJudges DEF EndBlocks
<1>16. CASE \E i \in tasks : TaskScans(i)
  BY <1>16, TaskScansJudges
<1>17. CASE Reload \/ SwitchOn \/ SwitchOff \/ UNCHANGED vars
  <2>1. UNCHANGED Stream
    BY <1>17 DEF Reload, SwitchOn, SwitchOff, vars
  <2>2. \A n : JudgedAt(n)' = JudgedAt(n) /\ Enough(n)' = Enough(n)
    BY <2>1, SameJudged DEF Stream
  <2>3. Reported' = Reported
    BY <2>1, <1>3 DEF Stream, Reported, Matches
  <2>4. \A n : /\ Blocks(Content(response, n))' = Blocks(Content(response, n))
               /\ Reports(Content(response, n))' = Reports(Content(response, n))
    BY <2>1, <1>3 DEF Stream, Blocks, Reports, Matches
  <2> QED
    BY <1>1, <1>3, <1>4, <2>1, <2>2, <2>3, <2>4 DEF Judging, Stream
<1> QED
  BY <1>5, <1>6, <1>8, <1>10, <1>11, <1>12, <1>14, <1>15, <1>16, <1>17 DEF Next

\* A response that is scanned as one text is judged by that text.
LEMMA JudgedIs ==
  ASSUME Typed, mode # "passthrough", NEW m \in Nat, JudgedAt(m)
  PROVE  Judged = {<<0, Content(response, m)>>}
<1>1. /\ response \in Seq(Seq(Characters)) /\ Len(response) \in Nat
      /\ DOMAIN response = 1 .. Len(response)
  BY NextChunk
<1> DEFINE enough == {n \in DOMAIN response : Len(Text(Upto(n))) >= BufferSize}
<1>2. ASSUME NEW n \in 1 .. Len(response)
      PROVE  n \in enough <=> Enough(n)
  <2>1. n \in Nat
    BY <1>1
  <2> QED
    BY <2>1, <1>1, TextUpto DEF Enough
<1>3. enough \subseteq 1 .. Len(response)
  BY <1>1
<1> HIDE DEF enough
<1>4. CASE mode = "full"
  <2>1. Text(Upto(Len(response))) = Content(response, m)
    BY <1>1, <1>4, TextUpto DEF JudgedAt
  <2> QED
    BY <2>1, <1>4 DEF Judged
<1>5. CASE /\ mode = "buffered"
           /\ m \in 1 .. Len(response) /\ Enough(m) /\ \A n \in 1 .. m - 1 : ~Enough(n)
  <2>1. m \in enough
    BY <1>2, <1>5
  <2>2. ASSUME NEW n \in enough PROVE m <= n /\ n \in Nat
    <3>1. n \in 1 .. Len(response) /\ Enough(n)
      BY <1>2, <1>3
    <3>2. n \notin 1 .. m - 1
      BY <3>1, <1>5
    <3> QED
      BY <3>1, <3>2
  <2>3. Min(enough) = m
    <3>1. \A x \in enough : (\A y \in enough : x =< y) => x = m
      BY <2>1, <2>2
    <3> QED
      BY <2>1, <2>2, <3>1 DEF Min
  <2>4. Text(Upto(m)) = Content(response, m)
    BY TextUpto
  <2>5. enough # {}
    BY <2>1
  <2> QED
    BY <1>5, <2>3, <2>4, <2>5 DEF Judged, enough
<1>6. CASE /\ mode = "buffered"
           /\ m = Len(response) /\ \A n \in 1 .. m : ~Enough(n)
  <2>1. enough = {}
    BY <1>2, <1>3, <1>6
  <2>2. Text(Upto(Len(response))) = Content(response, m)
    BY <1>1, <1>6, TextUpto
  <2> QED
    BY <1>6, <2>1, <2>2 DEF Judged, enough
<1> QED
  BY <1>4, <1>5, <1>6 DEF JudgedAt

\* The chunk-by-chunk handling comes to the verdict one look at the whole response
\* gives.
THEOREM Verdict == Spec => []VerdictOfWhole
<1> DEFINE matched == {j \in Judged : Matches(j[2]) # {}}
<1>1. ASSUME JudgingInv, calm, pc # "streaming", tasks = {}, mode = "passthrough"
      PROVE  pc = "ended" /\ alerts = Cardinality(matched)
  <2>1. Typed /\ Ordered /\ Judging
    BY <1>1 DEF JudgingInv, StreamInv
  <2>2. /\ pc = "ended" /\ taken = Len(response) /\ Len(response) \in Nat
        /\ DOMAIN response = 1 .. Len(response)
    BY <2>1, <1>1, NextChunk DEF Ordered, Typed
  <2>3. alerts = Cardinality(Reported)
    BY <2>1, <1>1 DEF Judging
  <2>4. Reported = {i \in 1 .. Len(response) : Matches(response[i]) # {}}
    BY <1>1, <2>2 DEF Reported
  <2>5. matched = {j \in {<<i, response[i]>> : i \in 1 .. Len(response)} : Matches(j[2]) # {}}
    BY <1>1, <2>2 DEF Judged
  <2> HIDE DEF matched
  <2> DEFINE f == [i \in Reported |-> <<i, response[i]>>]
  <2>6. f \in Bijection(Reported, matched)
    <3>1. ASSUME NEW i \in Reported PROVE f[i] \in matched
      BY <2>4, <2>5
    <3>2. f \in [Reported -> matched]
      BY <3>1
    <3>3. \A i, j \in Reported : f[i] = f[j] => i = j
      OBVIOUS
    <3>4. ASSUME NEW j \in matched PROVE \E i \in Reported : f[i] = j
      <4>1. PICK i \in 1 .. Len(response) : j = <<i, response[i]>>
        BY <2>5
      <4>2. j[2] = response[i] /\ Matches(j[2]) # {}
        BY <2>5, <4>1
      <4>3. i \in Reported
        BY <2>4, <4>2
      <4> QED
        BY <4>1, <4>3
    <3> HIDE DEF f
    <3> QED
      BY <3>2, <3>3, <3>4 DEF Bijection, Injection, Surjection, IsInjective
  <2>7. ExistsBijection(Reported, matched)
    BY <2>6 DEF ExistsBijection
  <2>8. IsFiniteSet(Reported)
    <3>1. IsFiniteSet(1 .. Len(response))
      BY <2>2, FS_Interval
    <3>2. Reported \in SUBSET (1 .. Len(response))
      BY <2>4
    <3> QED
      BY <3>1, <3>2, FS_Subset
  <2>9. Cardinality(matched) = Cardinality(Reported)
    BY <2>7, <2>8, FS_Bijection
  <2> QED
    BY <2>2, <2>3, <2>9
<1>2. ASSUME JudgingInv, mode # "passthrough", NEW m \in 0 .. taken, JudgedAt(m)
      PROVE  /\ (\E j \in matched : Blocks(j[2])) <=> Blocks(Content(response, m))
             /\ Cardinality(matched) = Reports(Content(response, m))
  <2>1. Typed
    BY <1>2 DEF JudgingInv, StreamInv
  <2> DEFINE s == Content(response, m)
             p == <<0, s>>
  <2>2. m \in Nat
    BY <2>1, NextChunk
  <2>3. Judged = {p} /\ p[2] = s
    BY <2>1, <2>2, <1>2, JudgedIs
  <2> HIDE DEF s, p
  <2>4. matched = IF Matches(s) = {} THEN {} ELSE {p}
    BY <2>3
  <2>5. (\E j \in matched : Blocks(j[2])) <=> Blocks(s)
    <3>1. Matches(s) = {} => ~Blocks(s)
      BY DEF Blocks
    <3> QED
      BY <2>3, <2>4, <3>1
  <2>6. Cardinality(matched) = Reports(s)
    BY <2>4, FS_EmptySet, FS_Singleton DEF Reports
  <2> QED
    BY <2>5, <2>6 DEF s
<1>3. ASSUME JudgingInv, calm, pc # "streaming", tasks = {}
      PROVE  /\ pc = "blocked" <=> mode # "passthrough" /\ \E j \in matched : Blocks(j[2])
             /\ pc = "ended" => alerts = Cardinality(matched)
  <2>1. Typed /\ Judging
    BY <1>3 DEF JudgingInv, StreamInv
  <2> HIDE DEF matched
  <2>2. CASE mode = "passthrough"
    BY <1>1, <1>3, <2>2
  <2>3. CASE mode # "passthrough" /\ pc = "ended"
    <3>1. PICK m \in 0 .. taken : /\ JudgedAt(m)
                                  /\ ~Blocks(Content(response, m))
                                  /\ alerts = Reports(Content(response, m))
      BY <2>1, <2>3, <1>3 DEF Judging
    <3> QED
      BY <1>2, <1>3, <2>3, <3>1
  <2>4. CASE mode # "passthrough" /\ pc = "blocked"
    <3>1. PICK m \in 0 .. taken : JudgedAt(m) /\ Blocks(Content(response, m))
      BY <2>1, <2>4, <1>3 DEF Judging
    <3> QED
      BY <1>2, <1>3, <2>4, <3>1
  <2> QED
    BY <2>1, <2>2, <2>3, <2>4, <1>3 DEF Typed
<1>4. JudgingInv => VerdictOfWhole
  BY <1>3 DEF VerdictOfWhole
<1>5. Init => JudgingInv
  BY InitStream, InitJudging DEF JudgingInv
<1>6. JudgingInv /\ [Next]_vars => JudgingInv'
  BY StepStream, StepJudging DEF JudgingInv
<1> QED
  BY <1>4, <1>5, <1>6, PTL DEF Spec
=============================================================================
