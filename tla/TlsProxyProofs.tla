--------------------------- MODULE TlsProxyProofs ---------------------------
(***************************************************************************)
(* Proofs about the TLS transport for every value of its constants: the    *)
(* certificate cache holds the names used last, and responses match the    *)
(* requests of their connection.  For the second the units a client has    *)
(* sent and the one it sends next form a chain (Sent); the connection is   *)
(* at the first of them (Expects), each leads to the next (Leads).         *)
(***************************************************************************)
EXTENDS TlsProxy, SequenceLemmas

----------------------------------------------------------------------------
(* The invariant.                                                          *)

\* The cache is the end of the list of names by their last use.
CacheInv ==
  /\ cache \in Seq(Allowed) /\ recent \in Seq(Allowed)
  /\ IsInjective(recent)
  /\ Len(cache) = IF Len(recent) > CacheSize THEN CacheSize ELSE Len(recent)
  /\ \A i \in 1 .. Len(cache) : cache[i] = recent[Len(recent) - Len(cache) + i]

\* What the client sends next, "hello" and "nothing" included, as a unit.
Upcoming(k) ==
  [kind |-> k.next, number |-> IF k.next = "line" THEN k.sent + 1 ELSE k.sent,
   form |-> k.form, name |-> None]

\* The units not read, and the one to come.
Sent(k, q) == Append(q, Upcoming(k))

\* On a connection, with TLS or without, v is sent after u.
Leads(tls, u, v) ==
  \/ /\ u.kind = "connect"
     /\ v.kind = "line" /\ v.number = 1
  \/ /\ u.kind = "plain" /\ v.number = 1
     /\ IF u.form \in WithBody THEN v.kind = "body" ELSE v.kind = "nothing"
  \/ /\ u.kind = "line"
     /\ v.kind = "headers" /\ v.number = u.number /\ v.form = u.form
  \/ /\ u.kind = "headers" /\ u.form \in {"bare", "malformed"}
     /\ v.kind = "line" /\ v.number = u.number + 1
  \/ /\ u.kind = "headers" /\ u.form \in WithBody
     /\ v.kind = "body" /\ v.number = u.number /\ v.form = u.form
  \/ /\ u.kind = "body" /\ tls
     /\ v.kind = "line" /\ v.number = u.number + 1
  \/ /\ u.kind = "body" /\ ~tls
     /\ v.kind = "nothing"

\* Each unit leads to the next, without a body that spills in TLS and without a line
\* or headers outside of it.
Chained(tls, k, q) ==
  /\ \A i \in 1 .. Len(q) : Leads(tls, Sent(k, q)[i], Sent(k, q)[i + 1])
  /\ \A i, j \in 1 .. Len(q) + 1 : i <= j => Sent(k, q)[i].number <= Sent(k, q)[j].number
  /\ \A i \in 1 .. Len(q) :
       IF tls THEN ~(q[i].kind = "body" /\ q[i].form \in Spills)
       ELSE q[i].kind \notin {"line", "headers"}

\* The connection r has written m responses and u is what it gets to read next.
Expects(r, m, u) ==
  \/ /\ r.pc = "hello" /\ ~r.tls /\ m = 0 /\ r.body = 0
     /\ u.kind \in {"hello", "connect", "plain"}
     /\ u.kind = "hello" => u.number = 0
     /\ u.kind = "plain" => u.number = 1
  \/ /\ r.pc \in {"established", "handshake"} /\ ~r.tls /\ m = 0
     /\ u.kind = "line" /\ u.number = 1
  \/ /\ r.pc \in {"line", "drain"} /\ r.tls
     /\ \/ u.kind = "line" /\ u.number = m + 1
        \/ u.kind = "body" /\ u.form \in Spills /\ u.number = m
  \/ /\ r.pc = "headers" /\ r.tls /\ r.line = m + 1 /\ r.headers = 0 /\ r.body = 0
     /\ u.kind = "headers" /\ u.number = m + 1
  \/ /\ r.pc = "body" /\ r.line = m + 1 /\ r.headers = m + 1 /\ r.body = 0
     /\ ~r.tls => m = 0
     /\ u.kind = "body" /\ u.number = m + 1
  \/ /\ r.pc = "process" /\ r.line = m + 1 /\ r.headers = m + 1 /\ r.body \in {0, m + 1}
     /\ IF r.tls THEN \/ u.kind = "line" /\ u.number = m + 2
                      \/ u.kind = "body" /\ u.form = "chunked" /\ u.number = m + 1
        ELSE m = 0 /\ u.kind \in {"body", "nothing"}

\* Each response answers the whole request of its number.
Matched(a) == \A i \in 1 .. Len(a) : a[i].line = i /\ a[i].headers = i /\ a[i].body \in {0, i}

\* Client and connection keep to the framing.
InStep(r, k, q, a) ==
  Matched(a) /\ Expects(r, Len(a), Sent(k, q)[1]) /\ Chained(r.tls, k, q)

\* What AnsweredInOrder says of one connection.
InOrder(a) ==
  \A i \in 1 .. Len(a) :
    /\ a[i].line = i
    /\ a[i].headers = i \/ (a[i].headers = 0 /\ i = Len(a))
    /\ a[i].body \in {0, i}

\* The client was cut off within the headers of a request, which is processed
\* with the headers that came, or has been.
CutOff(r, k, q, a) ==
  /\ q = <<>> /\ k.gone
  /\ \/ /\ r.pc = "process" /\ Matched(a)
        /\ r.line = Len(a) + 1 /\ r.headers = 0 /\ r.body = 0
     \/ r.pc \in {"line", "drain"} /\ InOrder(a)

\* The connection is closed, or will be once its last answer is written.
Ended(r) == r.pc = "closed" \/ (r.pc = "drain" /\ ~r.tls)

Framed(r, k, q, a, s) ==
  \/ s
  \/ Ended(r) /\ InOrder(a)
  \/ InStep(r, k, q, a)
  \/ CutOff(r, k, q, a)

FramedAt(c) == Framed(conn[c], client[c], inbox[c], answers[c], spilled[c])

TlsInv ==
  /\ TypeOK
  /\ CacheInv
  /\ \A c \in Connections : FramedAt(c)

----------------------------------------------------------------------------
(* The certificate cache.                                                  *)

\* A list of distinct names without n has distinct names, n not among them: the
\* new list of names by their last use.
LEMMA MovedToTheEnd ==
  ASSUME NEW s \in Seq(Allowed), IsInjective(s), NEW n \in Allowed,
         NEW k \in 1 .. Len(s) + 1, \A i \in 1 .. Len(s) : s[i] = n <=> i = k
  PROVE  LET t == Append(Select(s, Names \ {n}), n)
             m == IF k <= Len(s) THEN Len(s) - 1 ELSE Len(s)
         IN /\ t \in Seq(Allowed) /\ Len(t) = m + 1 /\ t[m + 1] = n
            /\ \A i \in 1 .. m : t[i] = s[IF i < k THEN i ELSE i + 1]
            /\ IsInjective(t)
<1> DEFINE K == Names \ {n}
           u == Select(s, K)
           t == Append(u, n)
           m == IF k <= Len(s) THEN Len(s) - 1 ELSE Len(s)
<1>1. \A i \in 1 .. Len(s) : s[i] \in K <=> i # k
  BY TlsAssumption
<1> HIDE DEF K
<1>2. /\ u \in Seq(Allowed) /\ Len(u) = m
      /\ \A i \in 1 .. m : u[i] = s[IF i < k THEN i ELSE i + 1]
  <2>1. /\ u \in Seq(Allowed) /\ Len(u) = m
        /\ \A i \in 1 .. Len(u) : u[i] = s[IF i < k THEN i ELSE i + 1]
    <3>1. /\ Select(s, K) \in Seq(Allowed)
          /\ Len(Select(s, K)) = IF k <= Len(s) THEN Len(s) - 1 ELSE Len(s)
          /\ \A i \in 1 .. Len(Select(s, K)) : Select(s, K)[i] = s[IF i < k THEN i ELSE i + 1]
      BY <1>1, SelectSkips
    <3> QED
      BY <3>1
  <2> HIDE DEF u, m
  <2> QED
    BY <2>1
<1> HIDE DEF u
<1>3. /\ t \in Seq(Allowed) /\ Len(t) = m + 1 /\ t[m + 1] = n
      /\ \A i \in 1 .. m : t[i] = u[i]
  <2>1. u \in Seq(Allowed) /\ n \in Allowed
    BY <1>2
  <2> HIDE DEF m
  <2>2. /\ t \in Seq(Allowed) /\ Len(t) = Len(u) + 1 /\ t[Len(u) + 1] = n
        /\ \A i \in 1 .. Len(u) : t[i] = u[i]
    BY <2>1, AppendProperties
  <2> HIDE DEF t
  <2> QED
    BY <2>2, <1>2
<1>4. \A i \in 1 .. m : t[i] = s[IF i < k THEN i ELSE i + 1]
  BY <1>2, <1>3
<1> HIDE DEF t
<1>5. m \in Nat /\ Len(s) \in Nat /\ k \in Nat /\ DOMAIN t = 1 .. m + 1 /\ DOMAIN s = 1 .. Len(s)
  BY <1>3
<1>6. ASSUME NEW i \in 1 .. m
      PROVE  /\ (IF i < k THEN i ELSE i + 1) \in 1 .. Len(s)
             /\ (IF i < k THEN i ELSE i + 1) # k
  BY <1>5
<1>7. ASSUME NEW i \in 1 .. m PROVE t[i] # n
  BY <1>4, <1>6
<1>8. ASSUME NEW i \in 1 .. m, NEW j \in 1 .. m, t[i] = t[j] PROVE i = j
  <2> DEFINE x == IF i < k THEN i ELSE i + 1
             y == IF j < k THEN j ELSE j + 1
  <2>1. x \in DOMAIN s /\ y \in DOMAIN s
    BY <1>5, <1>6
  <2>2. s[x] = s[y]
    BY <1>4, <1>8
  <2>3. x = y
    <3> HIDE DEF x, y
    <3> QED
      BY <2>1, <2>2 DEF IsInjective
  <2>4. i \in Nat /\ j \in Nat /\ k \in Nat
    BY <1>5
  <2> QED
    BY <2>3, <2>4
<1>9. ASSUME NEW i \in DOMAIN t, NEW j \in DOMAIN t, t[i] = t[j] PROVE i = j
  <2>1. i \in 1 .. m \/ i = m + 1
    BY <1>5
  <2>2. j \in 1 .. m \/ j = m + 1
    BY <1>5
  <2>3. CASE i \in 1 .. m /\ j \in 1 .. m
    BY <2>3, <1>8, <1>9
  <2>4. CASE i \in 1 .. m /\ j = m + 1
    BY <2>4, <1>3, <1>7, <1>9
  <2>5. CASE i = m + 1 /\ j \in 1 .. m
    BY <2>5, <1>3, <1>7, <1>9
  <2>6. CASE i = m + 1 /\ j = m + 1
    BY <2>6
  <2> QED
    BY <2>1, <2>2, <2>3, <2>4, <2>5, <2>6
<1>10. IsInjective(t)
  BY <1>9 DEF IsInjective
<1> QED
  BY <1>3, <1>4, <1>10 DEF t, u, K

\* Using a certificate, cached or new, keeps the cache the end of the list.
LEMMA CertifiesKeepsCache ==
  ASSUME CacheInv, NEW n \in Allowed, Certifies(n)
  PROVE  CacheInv'
<1> DEFINE N == Len(recent)
           M == Len(cache)
           d == N - M
<1>1. /\ N \in Nat /\ M \in Nat /\ CacheSize \in Nat /\ d \in Nat
      /\ cache \in Seq(Allowed) /\ recent \in Seq(Allowed) /\ IsInjective(recent)
      /\ DOMAIN recent = 1 .. N /\ DOMAIN cache = 1 .. M
      /\ M = (IF N > CacheSize THEN CacheSize ELSE N)
      /\ \A i \in 1 .. M : cache[i] = recent[d + i]
  <2>1. /\ cache \in Seq(Allowed) /\ recent \in Seq(Allowed) /\ IsInjective(recent)
        /\ M = (IF N > CacheSize THEN CacheSize ELSE N)
        /\ \A i \in 1 .. M : cache[i] = recent[d + i]
    BY DEF CacheInv
  <2>2. N \in Nat /\ M \in Nat /\ DOMAIN recent = 1 .. N /\ DOMAIN cache = 1 .. M
    BY <2>1
  <2>3. CacheSize \in Nat /\ d \in Nat
    <3> HIDE DEF N, M
    <3> QED
      BY <2>1, <2>2, TlsAssumption
  <2> QED
    BY <2>1, <2>2, <2>3
<1> HIDE DEF N, M
<1>2. N \in Nat /\ M \in Nat /\ CacheSize \in Nat /\ N - M \in Nat
  BY <1>1
<1>3. PICK k \in 1 .. N + 1 : \A i \in 1 .. N : recent[i] = n <=> i = k
  <2>1. CASE \E i \in 1 .. N : recent[i] = n
    <3>1. PICK i \in 1 .. N : recent[i] = n
      BY <2>1
    <3>2. \A l \in 1 .. N : recent[l] = n <=> l = i
      BY <3>1, <1>1 DEF IsInjective
    <3>3. i \in 1 .. N + 1
      BY <1>1
    <3> QED
      BY <3>2, <3>3
  <2>2. CASE ~ \E i \in 1 .. N : recent[i] = n
    <3>1. N + 1 \in 1 .. N + 1 /\ \A i \in 1 .. N : recent[i] = n <=> i = N + 1
      BY <1>1, <2>2
    <3> QED
      BY <3>1
  <2> QED
    BY <2>1, <2>2
<1> DEFINE m == IF k <= N THEN N - 1 ELSE N
<1>4. /\ recent' \in Seq(Allowed) /\ Len(recent') = m + 1 /\ recent'[m + 1] = n
      /\ \A i \in 1 .. m : recent'[i] = recent[IF i < k THEN i ELSE i + 1]
      /\ IsInjective(recent')
  <2>1. recent' = Append(Select(recent, Names \ {n}), n)
    BY DEF Certifies
  <2>2. k \in 1 .. Len(recent) + 1 /\ \A i \in 1 .. Len(recent) : recent[i] = n <=> i = k
    BY <1>3 DEF N
  <2>3. LET t == Append(Select(recent, Names \ {n}), n)
        IN /\ t \in Seq(Allowed) /\ Len(t) = m + 1 /\ t[m + 1] = n
           /\ \A i \in 1 .. m : t[i] = recent[IF i < k THEN i ELSE i + 1]
           /\ IsInjective(t)
    BY <2>2, <1>1, MovedToTheEnd, Zenon DEF N
  <2> QED
    BY <2>1, <2>3
<1>5. CASE Contains(cache, n)
  <2>1. PICK j \in 1 .. M : cache[j] = n
    BY <1>5 DEF Contains, M
  <2>2. k = d + j
    <3>1. recent[d + j] = n /\ d + j \in 1 .. N
      BY <1>1, <2>1
    <3> QED
      BY <3>1, <1>3
  <2>3. IsInjective(cache) /\ \A i \in 1 .. M : cache[i] = n <=> i = j
    <3>1. ASSUME NEW i \in 1 .. M, NEW l \in 1 .. M, cache[i] = cache[l] PROVE i = l
      <4>1. d + i \in DOMAIN recent /\ d + l \in DOMAIN recent
        BY <1>1
      <4>2. recent[d + i] = recent[d + l]
        BY <3>1, <1>1
      <4> DEFINE x == d + i
                 y == d + l
      <4> HIDE DEF x, y
      <4>3. x \in DOMAIN recent /\ y \in DOMAIN recent /\ recent[x] = recent[y]
        BY <4>1, <4>2 DEF x, y
      <4>4. x = y
        BY <4>3, <1>1 DEF IsInjective
      <4> QED
        BY <4>4, <1>1 DEF x, y
    <3> QED
      BY <3>1, <2>1, <1>1 DEF IsInjective
  <2>4. cache' = Append(Select(cache, Names \ {n}), n)
    BY <1>5 DEF Certifies, LookedUp
  <2>5. /\ cache' \in Seq(Allowed) /\ Len(cache') = M /\ cache'[M] = n
        /\ \A i \in 1 .. M - 1 : cache'[i] = cache[IF i < j THEN i ELSE i + 1]
    <3>1. j \in 1 .. M + 1 /\ j <= M /\ (M - 1) + 1 = M
      BY <1>1
    <3>2. j \in 1 .. Len(cache) + 1 /\ \A i \in 1 .. Len(cache) : cache[i] = n <=> i = j
      BY <3>1, <2>3 DEF M
    <3>3. LET t == Append(Select(cache, Names \ {n}), n)
              l == IF j <= Len(cache) THEN Len(cache) - 1 ELSE Len(cache)
          IN /\ t \in Seq(Allowed) /\ Len(t) = l + 1 /\ t[l + 1] = n
             /\ \A i \in 1 .. l : t[i] = cache[IF i < j THEN i ELSE i + 1]
             /\ IsInjective(t)
      BY <3>2, <1>1, <2>3, MovedToTheEnd, Zenon
    <3>4. (IF j <= Len(cache) THEN Len(cache) - 1 ELSE Len(cache)) = M - 1
      BY <3>1 DEF M
    <3> QED
      BY <3>1, <3>3, <3>4, <2>4
  <2>6. m = N - 1 /\ Len(recent') = N
    BY <1>1, <1>4, <2>2
  <2>7. ASSUME NEW i \in 1 .. M PROVE cache'[i] = recent'[N - M + i]
    <3>1. CASE i = M
      <4>1. N - M + i = m + 1
        BY <3>1, <1>1, <2>6
      <4> QED
        BY <4>1, <3>1, <1>4, <2>5
    <3>2. CASE i # M
      <4>1. i \in 1 .. M - 1 /\ d + i \in 1 .. m
        BY <3>2, <1>1, <2>6
      <4>2. cache'[i] = cache[IF i < j THEN i ELSE i + 1]
        BY <4>1, <2>5
      <4>3. recent'[d + i] = recent[IF d + i < d + j THEN d + i ELSE d + i + 1]
        BY <4>1, <1>4, <2>2
      <4>4. cache[IF i < j THEN i ELSE i + 1] = recent[d + (IF i < j THEN i ELSE i + 1)]
        <5>1. (IF i < j THEN i ELSE i + 1) \in 1 .. M
          BY <4>1, <1>2
        <5> QED
          BY <5>1, <1>1
      <4> QED
        BY <4>1, <4>2, <4>3, <4>4, <1>1
    <3> QED
      BY <3>1, <3>2
  <2> QED
    BY <1>1, <1>4, <2>5, <2>6, <2>7 DEF CacheInv
<1>6. CASE ~Contains(cache, n)
  <2>1. CacheSize > 0 /\ cache' = Append(IF M >= CacheSize THEN Tail(cache) ELSE cache, n)
    BY <1>6 DEF Certifies, Stored, M
  <2>2. k <= d \/ k = N + 1
    <3>1. ASSUME k \in d + 1 .. N PROVE FALSE
      <4>1. k - d \in 1 .. M /\ d + (k - d) = k
        BY <3>1, <1>2
      <4>2. cache[k - d] = recent[k]
        BY <4>1, <1>1
      <4>3. k \in 1 .. N /\ recent[k] = n
        BY <3>1, <1>1, <1>3
      <4> QED
        BY <4>1, <4>2, <4>3, <1>6 DEF Contains, M
    <3> QED
      BY <3>1, <1>1
  <2>3. CASE M >= CacheSize
    <3> DEFINE u == Tail(cache)
    <3>1. M = CacheSize /\ cache # <<>>
      BY <2>1, <2>3, <1>1 DEF M
    <3>2. u \in Seq(Allowed) /\ Len(u) = M - 1 /\ \A i \in 1 .. M - 1 : u[i] = cache[i + 1]
      BY <3>1, <1>1, HeadTailProperties DEF M
    <3> HIDE DEF u
    <3>3. /\ cache' \in Seq(Allowed) /\ Len(cache') = M /\ cache'[M] = n
          /\ \A i \in 1 .. M - 1 : cache'[i] = u[i]
      <4>1. cache' = Append(u, n)
        BY <2>1, <2>3 DEF u
      <4>2. M - 1 + 1 = M /\ M - 1 \in Nat
        BY <3>2, <1>1
      <4> QED
        BY <4>1, <4>2, <3>2, AppendProperties
    <3>4. M = (IF m + 1 > CacheSize THEN CacheSize ELSE m + 1)
      BY <1>1, <3>1
    <3>5. ASSUME NEW i \in 1 .. M PROVE cache'[i] = recent'[m + 1 - M + i]
      <4>1. CASE i = M
        BY <4>1, <1>1, <1>4, <3>3
      <4>2. CASE i # M
        <5>1. i \in 1 .. M - 1 /\ i + 1 \in 1 .. M
          BY <4>2, <1>2
        <5>2. cache'[i] = recent[d + (i + 1)]
          BY <5>1, <3>2, <3>3, <1>1
        <5>3. m + 1 - M + i \in 1 .. m
          <6>1. m \in Nat /\ m + 1 >= M
            BY <1>2, <3>4
          <6> HIDE DEF m
          <6> QED
            BY <5>1, <6>1, <1>2
        <5>4. recent'[m + 1 - M + i]
                = recent[IF m + 1 - M + i < k THEN m + 1 - M + i ELSE m + 1 - M + i + 1]
          BY <5>3, <1>4
        <5>5. (IF m + 1 - M + i < k THEN m + 1 - M + i ELSE m + 1 - M + i + 1) = d + (i + 1)
          <6>1. CASE k = N + 1
            <7>1. m = N /\ N + 1 - M = d + 1
              BY <6>1, <1>2
            <7>2. m + 1 - M + i = d + (i + 1) /\ m + 1 - M + i < k
              <8>1. m \in Nat /\ i \in Nat /\ i <= M - 1
                BY <7>1, <5>1, <1>2
              <8> HIDE DEF m, d
              <8>2. d \in Nat /\ d = N - M
                BY <1>1 DEF d
              <8> QED
                BY <6>1, <7>1, <8>1, <8>2, <1>2
            <7> QED
              BY <7>2
          <6>2. CASE k <= d
            <7>1. k \in Nat /\ d \in Nat /\ k <= N
              BY <6>2, <1>2
            <7>2. m + 1 - M = d
              BY <7>1, <1>2
            <7>3. m \in Nat /\ M \in Nat /\ i \in Nat
              BY <7>1, <1>2, <5>1
            <7> HIDE DEF m, d
            <7> DEFINE x == m + 1 - M + i
            <7>4. x = d + i /\ ~(x < k) /\ x + 1 = d + (i + 1)
              BY <7>1, <7>2, <7>3, <6>2
            <7> HIDE DEF x
            <7>5. (IF x < k THEN x ELSE x + 1) = d + (i + 1)
              BY <7>4
            <7> QED
              BY <7>5 DEF x
          <6> QED
            BY <6>1, <6>2, <2>2
        <5> QED
          BY <5>2, <5>4, <5>5
      <4> QED
        BY <4>1, <4>2
    <3>6. Len(cache') = M /\ Len(recent') = m + 1
      BY <3>3, <1>4
    <3>7. Len(cache') = IF Len(recent') > CacheSize THEN CacheSize ELSE Len(recent')
      BY <3>4, <3>6
    <3>8. ASSUME NEW i \in 1 .. Len(cache')
          PROVE  cache'[i] = recent'[Len(recent') - Len(cache') + i]
      <4>1. i \in 1 .. M
        BY <3>6
      <4>2. Len(recent') - Len(cache') + i = m + 1 - M + i
        BY <3>6, <1>2
      <4> QED
        BY <4>1, <4>2, <3>5
    <3> QED
      BY <1>4, <3>3, <3>7, <3>8 DEF CacheInv
  <2>4. CASE M < CacheSize
    <3>1. N = M /\ k = N + 1 /\ m = N
      BY <2>2, <2>4, <1>1
    <3>2. /\ cache' \in Seq(Allowed) /\ Len(cache') = M + 1 /\ cache'[M + 1] = n
          /\ \A i \in 1 .. M : cache'[i] = cache[i]
      <4>1. cache' = Append(cache, n)
        BY <2>1, <2>4, <1>2
      <4>2. cache \in Seq(Allowed)
        BY <1>1
      <4>3. /\ cache' \in Seq(Allowed) /\ Len(cache') = Len(cache) + 1
            /\ cache'[Len(cache) + 1] = n /\ \A i \in 1 .. Len(cache) : cache'[i] = cache[i]
        BY <4>1, <4>2, AppendProperties
      <4> QED
        BY <4>3 DEF M
    <3>3. ASSUME NEW i \in 1 .. M + 1 PROVE cache'[i] = recent'[i]
      <4>1. CASE i = M + 1
        BY <4>1, <3>1, <3>2, <1>4
      <4>2. CASE i # M + 1
        <5>1. i \in 1 .. M /\ i < k /\ d + i = i
          BY <4>2, <3>1, <1>1
        <5> QED
          BY <5>1, <3>1, <3>2, <1>1, <1>4
      <4> QED
        BY <4>1, <4>2
    <3>4. (m + 1) - (M + 1) = 0 /\ M + 1 = (IF m + 1 > CacheSize THEN CacheSize ELSE m + 1)
      BY <3>1, <2>4, <1>1
    <3>5. Len(cache') = M + 1 /\ Len(recent') = m + 1
      BY <3>2, <1>4
    <3>6. Len(cache') = IF Len(recent') > CacheSize THEN CacheSize ELSE Len(recent')
      BY <3>4, <3>5
    <3>7. ASSUME NEW i \in 1 .. Len(cache')
          PROVE  cache'[i] = recent'[Len(recent') - Len(cache') + i]
      <4>1. i \in 1 .. M + 1 /\ Len(recent') - Len(cache') + i = i
        BY <3>4, <3>5, <1>2
      <4> QED
        BY <4>1, <3>3
    <3> QED
      BY <1>4, <3>2, <3>6, <3>7 DEF CacheInv
  <2> QED
    BY <2>3, <2>4, <1>1
<1> QED
  BY <1>5, <1>6

\* A cache that is the end of the list is what RecentHostsCached says it is.
LEMMA CacheIsRecent == CacheInv => RecentHostsCached
<1> SUFFICES ASSUME CacheInv PROVE RecentHostsCached
  OBVIOUS
<1> DEFINE n == Len(recent)
           kept == IF n > CacheSize THEN CacheSize ELSE n
           t == SubSeq(recent, n - kept + 1, n)
<1>1. /\ cache \in Seq(Allowed) /\ recent \in Seq(Allowed)
      /\ Len(cache) = kept
      /\ \A i \in 1 .. Len(cache) : cache[i] = recent[n - Len(cache) + i]
  BY DEF CacheInv
<1>2. n \in Nat /\ kept \in Nat /\ kept <= n
  BY <1>1, TlsAssumption
<1> HIDE DEF n, kept
<1>3. n - kept + 1 \in Int /\ n \in Int /\ \A i \in n - kept + 1 .. n : i \in 1 .. n
  BY <1>2
<1>4. \A i \in n - kept + 1 .. n : recent[i] \in Allowed
  BY <1>1, <1>3 DEF n
<1>5. /\ t \in Seq(Allowed)
      /\ Len(t) = IF n - kept + 1 <= n THEN n - (n - kept + 1) + 1 ELSE 0
      /\ \A i \in 1 .. n - (n - kept + 1) + 1 : t[i] = recent[n - kept + 1 + i - 1]
  BY <1>3, <1>4, SubSeqProperties
<1> HIDE DEF t
<1>6. Len(t) = kept
  BY <1>2, <1>5
<1>7. ASSUME NEW i \in 1 .. Len(cache) PROVE cache[i] = t[i]
  <2>1. /\ i \in 1 .. n - (n - kept + 1) + 1
        /\ n - kept + 1 + i - 1 = n - Len(cache) + i
    BY <1>1, <1>2
  <2> QED
    BY <2>1, <1>1, <1>5
<1>8. cache = t
  BY <1>1, <1>5, <1>6, <1>7, SeqEqual
<1> QED
  BY <1>8 DEF RecentHostsCached, t, kept, n

----------------------------------------------------------------------------
(* The chain of units.                                                     *)

\* The elements of the chain.
LEMMA SentElements ==
  ASSUME NEW k \in ClientType, NEW q \in Seq(UnitType)
  PROVE  /\ Len(q) \in Nat
         /\ \A i \in 1 .. Len(q) : Sent(k, q)[i] = q[i] /\ q[i] \in UnitType /\ q[i].number \in Nat
         /\ Sent(k, q)[Len(q) + 1] = Upcoming(k) /\ Upcoming(k).number \in Nat
<1> DEFINE S == UnitType \cup {Upcoming(k)}
<1>1. q \in Seq(S) /\ Upcoming(k) \in S
  OBVIOUS
<1>2. Len(q) \in Nat /\ \A i \in 1 .. Len(q) : q[i] \in UnitType
  OBVIOUS
<1>3. /\ \A i \in 1 .. Len(q) : Append(q, Upcoming(k))[i] = q[i]
      /\ Append(q, Upcoming(k))[Len(q) + 1] = Upcoming(k)
  <2> HIDE DEF S
  <2> QED
    BY <1>1, AppendProperties
<1>4. \A u \in UnitType : u.number \in Nat
  BY TlsAssumption DEF UnitType, Numbers
<1>5. Upcoming(k).number \in Nat
  BY TlsAssumption DEF Upcoming, ClientType, Numbers
<1> QED
  BY <1>2, <1>3, <1>4, <1>5 DEF Sent

\* A chain of nothing but what comes next.
LEMMA NoUnit ==
  ASSUME NEW tls \in BOOLEAN, NEW k \in ClientType
  PROVE  Chained(tls, k, <<>>) /\ Sent(k, <<>>)[1] = Upcoming(k)
<1>1. <<>> \in Seq(UnitType) /\ Len(<<>>) + 1 = 1
  OBVIOUS
<1>2. Sent(k, <<>>)[Len(<<>>) + 1] = Upcoming(k) /\ Upcoming(k).number \in Nat
  BY <1>1, SentElements
<1> QED
  BY <1>1, <1>2 DEF Chained

\* The unit a connection reads next, and what follows it.
LEMMA FirstUnit ==
  ASSUME NEW r \in ConnType, NEW k \in ClientType, NEW q \in Seq(UnitType), NEW a,
         InStep(r, k, q, a), q # <<>>
  PROVE  /\ Head(q) \in UnitType
         /\ Expects(r, Len(a), Head(q))
         /\ Leads(r.tls, Head(q), Sent(k, q)[2])
         /\ r.tls => ~(Head(q).kind = "body" /\ Head(q).form \in Spills)
         /\ ~r.tls => Head(q).kind \notin {"line", "headers"}
<1>1. 1 \in 1 .. Len(q) /\ Head(q) = q[1] /\ 1 + 1 = 2
  OBVIOUS
<1>2. Sent(k, q)[1] = q[1] /\ q[1] \in UnitType
  BY <1>1, SentElements
<1>3. Leads(r.tls, Sent(k, q)[1], Sent(k, q)[2])
  BY <1>1 DEF InStep, Chained
<1> QED
  BY <1>1, <1>2, <1>3 DEF InStep, Chained

\* The last unit sent, and what the client sends next.
LEMMA LastUnit ==
  ASSUME NEW r \in ConnType, NEW k \in ClientType, NEW q \in Seq(UnitType), NEW a,
         InStep(r, k, q, a)
  PROVE  /\ q = <<>> => Expects(r, Len(a), Upcoming(k))
         /\ q # <<>> => \E u \in UnitType : /\ Leads(r.tls, u, Upcoming(k))
                                            /\ ~r.tls => u.kind \notin {"line", "headers"}
<1>1. ASSUME q = <<>> PROVE Expects(r, Len(a), Upcoming(k))
  BY <1>1, NoUnit DEF InStep
<1>2. ASSUME q # <<>>
      PROVE  \E u \in UnitType : /\ Leads(r.tls, u, Upcoming(k))
                                 /\ ~r.tls => u.kind \notin {"line", "headers"}
  <2>1. Len(q) \in 1 .. Len(q)
    BY <1>2
  <2>2. /\ Sent(k, q)[Len(q)] = q[Len(q)] /\ q[Len(q)] \in UnitType
        /\ Sent(k, q)[Len(q) + 1] = Upcoming(k)
    BY <2>1, SentElements
  <2>3. Leads(r.tls, Sent(k, q)[Len(q)], Sent(k, q)[Len(q) + 1])
    BY <2>1 DEF InStep, Chained
  <2>4. ~r.tls => q[Len(q)].kind \notin {"line", "headers"}
    BY <2>1 DEF InStep, Chained
  <2> QED
    BY <2>2, <2>3, <2>4
<1> QED
  BY <1>1, <1>2

\* A unit the client was to send next, sent.
LEMMA Sending ==
  ASSUME NEW r \in ConnType, NEW k \in ClientType, NEW q \in Seq(UnitType), NEW a,
         InStep(r, k, q, a), NEW u \in UnitType, NEW l \in ClientType,
         q # <<>> => \A x \in UnitType :
                       Leads(r.tls, x, Upcoming(k)) => Leads(r.tls, x, u),
         q = <<>> => Expects(r, Len(a), u),
         Leads(r.tls, u, Upcoming(l)),
         Upcoming(k).number <= u.number, u.number <= Upcoming(l).number,
         IF r.tls THEN ~(u.kind = "body" /\ u.form \in Spills)
         ELSE u.kind \notin {"line", "headers"}
  PROVE  InStep(r, l, Append(q, u), a) /\ Append(q, u) \in Seq(UnitType)
<1> DEFINE p == Append(q, u)
           n == Len(q)
<1>1. /\ p \in Seq(UnitType) /\ Len(p) = n + 1 /\ p[n + 1] = u
      /\ \A i \in 1 .. n : p[i] = q[i]
  BY AppendProperties
<1> HIDE DEF p
<1>2. /\ n \in Nat /\ \A i \in 1 .. n : Sent(k, q)[i] = q[i] /\ q[i] \in UnitType
      /\ \A i \in 1 .. n : q[i].number \in Nat
      /\ Sent(k, q)[n + 1] = Upcoming(k) /\ Upcoming(k).number \in Nat
  BY SentElements
<1>3. /\ \A i \in 1 .. n + 1 : Sent(l, p)[i] = p[i] /\ p[i].number \in Nat
      /\ Sent(l, p)[n + 2] = Upcoming(l) /\ Upcoming(l).number \in Nat
  <2>1. (n + 1) + 1 = n + 2
    BY <1>2
  <2>2. /\ \A i \in 1 .. Len(p) : Sent(l, p)[i] = p[i] /\ p[i].number \in Nat
        /\ Sent(l, p)[Len(p) + 1] = Upcoming(l) /\ Upcoming(l).number \in Nat
    BY <1>1, SentElements
  <2> QED
    BY <2>1, <2>2, <1>1
<1> DEFINE s == Sent(k, q)
           z == Sent(l, p)
<1> HIDE DEF n, s, z
<1>4. /\ \A i \in 1 .. n : z[i] = q[i] /\ s[i] = q[i]
      /\ z[n + 1] = u /\ s[n + 1] = Upcoming(k) /\ z[n + 2] = Upcoming(l)
  <2>1. n + 1 \in 1 .. n + 1 /\ \A i \in 1 .. n : i \in 1 .. n + 1
    BY <1>2
  <2> QED
    BY <2>1, <1>1, <1>2, <1>3 DEF s, z
<1>5. /\ \A i \in 1 .. n : Leads(r.tls, s[i], s[i + 1])
      /\ \A i, j \in 1 .. n + 1 : i <= j => s[i].number <= s[j].number
  BY DEF InStep, Chained, n, s
<1>6. ASSUME NEW i \in 1 .. n + 1 PROVE Leads(r.tls, z[i], z[i + 1])
  <2>1. CASE i = n + 1
    <3>1. z[i] = u /\ z[i + 1] = Upcoming(l)
      BY <2>1, <1>2, <1>4
    <3> QED
      BY <3>1
  <2>2. CASE i = n
    <3>1. i \in 1 .. n /\ q # <<>>
      BY <2>2, <1>2 DEF n
    <3>2. Leads(r.tls, q[i], Upcoming(k)) /\ z[i] = q[i] /\ z[i + 1] = u /\ q[i] \in UnitType
      BY <3>1, <2>2, <1>2, <1>4, <1>5
    <3> QED
      BY <3>1, <3>2
  <2>3. CASE i < n
    <3>1. i \in 1 .. n /\ i + 1 \in 1 .. n
      BY <2>3, <1>2
    <3> QED
      BY <3>1, <1>4, <1>5
  <2> QED
    BY <2>1, <2>2, <2>3, <1>2
<1>7. ASSUME NEW i \in 1 .. n + 2, NEW j \in 1 .. n + 2, i <= j
      PROVE  z[i].number <= z[j].number
  <2>1. \A h \in 1 .. n : z[h].number \in Nat /\ z[h].number <= Upcoming(k).number
    <3>1. \A h \in 1 .. n : h \in 1 .. n + 1 /\ n + 1 \in 1 .. n + 1 /\ h <= n + 1
      BY <1>2
    <3> QED
      BY <3>1, <1>2, <1>4, <1>5
  <2>2. u.number \in Nat /\ Upcoming(k).number \in Nat /\ Upcoming(l).number \in Nat
    <3>1. n + 1 \in 1 .. n + 1
      BY <1>2
    <3> QED
      BY <3>1, <1>1, <1>2, <1>3
  <2>3. CASE j \in 1 .. n
    <3>1. i \in 1 .. n /\ i \in 1 .. n + 1 /\ j \in 1 .. n + 1
      BY <2>3, <1>2, <1>7
    <3> QED
      BY <3>1, <2>3, <1>4, <1>5, <1>7
  <2>4. CASE j = n + 1
    <3>1. i \in 1 .. n \/ i = n + 1
      BY <2>4, <1>2, <1>7
    <3> QED
      BY <3>1, <2>1, <2>2, <2>4, <1>4
  <2>5. CASE j = n + 2
    <3>1. i \in 1 .. n \/ i = n + 1 \/ i = n + 2
      BY <2>5, <1>2, <1>7
    <3> QED
      BY <3>1, <2>1, <2>2, <2>5, <1>4
  <2> QED
    BY <2>3, <2>4, <2>5, <1>2
<1>8. ASSUME NEW i \in 1 .. n + 1
      PROVE  IF r.tls THEN ~(p[i].kind = "body" /\ p[i].form \in Spills)
             ELSE p[i].kind \notin {"line", "headers"}
  <2>1. i \in 1 .. n \/ i = n + 1
    BY <1>2
  <2>2. CASE i \in 1 .. n
    BY <2>2, <1>1 DEF InStep, Chained, n
  <2> QED
    BY <2>1, <2>2, <1>1
<1>9. Chained(r.tls, l, p)
  <2>1. Len(p) = n + 1 /\ Len(p) + 1 = n + 2
    BY <1>1, <1>2
  <2> QED
    BY <2>1, <1>6, <1>7, <1>8 DEF Chained, z
<1>10. Expects(r, Len(a), Sent(l, p)[1])
  <2>1. CASE q = <<>>
    <3>1. z[1] = u
      BY <2>1, <1>4 DEF n
    <3> QED
      BY <3>1, <2>1 DEF z
  <2>2. CASE q # <<>>
    <3>1. 1 \in 1 .. n
      BY <2>2, <1>2 DEF n
    <3>2. z[1] = s[1]
      BY <3>1, <1>4
    <3> QED
      BY <3>2 DEF InStep, s, z
  <2> QED
    BY <2>1, <2>2
<1> QED
  BY <1>1, <1>9, <1>10 DEF InStep, p

\* The first unit read.
LEMMA Taking ==
  ASSUME NEW r \in ConnType, NEW k \in ClientType, NEW q \in Seq(UnitType), NEW a,
         InStep(r, k, q, a), q # <<>>,
         NEW x \in ConnType, NEW b, x.tls = r.tls, Matched(b),
         Expects(x, Len(b), Sent(k, q)[2])
  PROVE  InStep(x, k, Tail(q), b)
<1> DEFINE p == Tail(q)
           n == Len(q)
           s == Sent(k, q)
           z == Sent(k, p)
<1>1. /\ p \in Seq(UnitType) /\ Len(p) = n - 1 /\ n \in Nat /\ n # 0
      /\ \A i \in 1 .. n - 1 : p[i] = q[i + 1]
  BY HeadTailProperties
<1>2. /\ \A i \in 1 .. n : s[i] = q[i]
      /\ s[n + 1] = Upcoming(k)
  BY SentElements
<1> HIDE DEF p
<1>3. /\ \A i \in 1 .. Len(p) : z[i] = p[i]
      /\ z[Len(p) + 1] = Upcoming(k)
  BY <1>1, SentElements
<1>4. /\ \A i \in 1 .. n : Leads(r.tls, s[i], s[i + 1])
      /\ \A i, j \in 1 .. n + 1 : i <= j => s[i].number <= s[j].number
      /\ \A i \in 1 .. n : IF r.tls THEN ~(q[i].kind = "body" /\ q[i].form \in Spills)
                           ELSE q[i].kind \notin {"line", "headers"}
  BY DEF InStep, Chained
<1> HIDE DEF n, s, z
<1>5. ASSUME NEW i \in 1 .. n PROVE z[i] = s[i + 1]
  <2>1. CASE i = n
    <3>1. Len(p) + 1 = n
      BY <1>1
    <3> QED
      BY <3>1, <2>1, <1>2, <1>3
  <2>2. CASE i # n
    <3>1. i \in 1 .. n - 1 /\ i + 1 \in 1 .. n /\ i \in 1 .. Len(p)
      BY <2>2, <1>1
    <3> QED
      BY <3>1, <1>1, <1>2, <1>3
  <2> QED
    BY <2>1, <2>2
<1>6. ASSUME NEW i \in 1 .. n - 1 PROVE Leads(r.tls, z[i], z[i + 1])
  <2>1. i \in 1 .. n /\ i + 1 \in 1 .. n
    BY <1>1
  <2> QED
    BY <2>1, <1>4, <1>5
<1>7. ASSUME NEW i \in 1 .. n, NEW j \in 1 .. n, i <= j
      PROVE  z[i].number <= z[j].number
  <2>1. i + 1 \in 1 .. n + 1 /\ j + 1 \in 1 .. n + 1 /\ i + 1 <= j + 1
    BY <1>1, <1>7
  <2> QED
    BY <2>1, <1>4, <1>5
<1>8. ASSUME NEW i \in 1 .. n - 1
      PROVE  IF r.tls THEN ~(p[i].kind = "body" /\ p[i].form \in Spills)
             ELSE p[i].kind \notin {"line", "headers"}
  <2>1. i + 1 \in 1 .. n /\ p[i] = q[i + 1]
    BY <1>1
  <2> QED
    BY <2>1, <1>4
<1>9. Chained(x.tls, k, p)
  <2>1. Len(p) = n - 1 /\ Len(p) + 1 = n
    BY <1>1
  <2> QED
    BY <2>1, <1>6, <1>7, <1>8 DEF Chained, z
<1>10. z[1] = s[2]
  <2>1. 1 \in 1 .. n /\ 1 + 1 = 2
    BY <1>1
  <2> QED
    BY <2>1, <1>5
<1> QED
  BY <1>9, <1>10 DEF InStep, p, s, z

----------------------------------------------------------------------------
(* What each party does.                                                   *)

\* A connection whose responses each match their request is in order, also after
\* one more that matches, or one last with no headers.
LEMMA OneMore ==
  ASSUME NEW a \in Seq(AnswerType), Matched(a), NEW x \in AnswerType,
         x.line = Len(a) + 1, x.body \in {0, Len(a) + 1}
  PROVE  /\ InOrder(a)
         /\ Append(a, x) \in Seq(AnswerType) /\ Len(Append(a, x)) = Len(a) + 1
         /\ x.headers = Len(a) + 1 => Matched(Append(a, x)) /\ InOrder(Append(a, x))
         /\ x.headers = 0 => InOrder(Append(a, x))
<1> DEFINE b == Append(a, x)
           m == Len(a)
<1>1. /\ b \in Seq(AnswerType) /\ Len(b) = m + 1 /\ b[m + 1] = x /\ m \in Nat
      /\ \A i \in 1 .. m : b[i] = a[i]
  BY AppendProperties
<1>2. InOrder(a)
  BY DEF Matched, InOrder
<1> HIDE DEF b, m
<1>3. /\ \A i \in 1 .. m : a[i].line = i /\ a[i].headers = i /\ a[i].body \in {0, i}
      /\ x.line = m + 1 /\ x.body \in {0, m + 1}
  BY DEF Matched, m
<1>4. ASSUME NEW i \in 1 .. m + 1
      PROVE  /\ b[i].line = i /\ b[i].body \in {0, i}
             /\ b[i].headers = IF i = m + 1 THEN x.headers ELSE i
  <2>1. (i \in 1 .. m /\ i # m + 1) \/ i = m + 1
    BY <1>1
  <2> QED
    BY <2>1, <1>1, <1>3
<1>5. ASSUME x.headers = m + 1 PROVE Matched(b) /\ InOrder(b)
  BY <1>1, <1>4, <1>5 DEF Matched, InOrder
<1>6. ASSUME x.headers = 0 PROVE InOrder(b)
  BY <1>1, <1>4, <1>6 DEF InOrder
<1> QED
  BY <1>1, <1>2, <1>5, <1>6 DEF b, m

\* The step of a client, or of its connection, that leaves the place of c as given.
Moves(c, r, k, q, a, s) ==
  /\ conn' = [conn EXCEPT ![c] = r]
  /\ client' = [client EXCEPT ![c] = k]
  /\ inbox' = [inbox EXCEPT ![c] = q]
  /\ answers' = [answers EXCEPT ![c] = a]
  /\ spilled' = [spilled EXCEPT ![c] = s]

\* A step at one connection that keeps its framing, and the cache, keeps the invariant.
LEMMA MovesKeeps ==
  ASSUME TlsInv, NEW c \in Connections, CacheInv',
         NEW r \in ConnType, NEW k \in ClientType, NEW q \in Seq(UnitType),
         NEW a \in Seq(AnswerType), NEW s \in BOOLEAN,
         Moves(c, r, k, q, a, s), Framed(r, k, q, a, s)
  PROVE  TlsInv'
<1>1. TypeOK'
  <2>1. /\ conn' \in [Connections -> ConnType] /\ client' \in [Connections -> ClientType]
        /\ inbox' \in [Connections -> Seq(UnitType)]
        /\ answers' \in [Connections -> Seq(AnswerType)]
        /\ spilled' \in [Connections -> BOOLEAN]
    BY DEF TlsInv, TypeOK, Moves
  <2>2. cache' \in Seq(Allowed) /\ recent' \in Seq(Allowed) /\ Len(cache') <= CacheSize
    <3>1. /\ cache' \in Seq(Allowed) /\ recent' \in Seq(Allowed)
          /\ Len(cache') = IF Len(recent') > CacheSize THEN CacheSize ELSE Len(recent')
      BY DEF CacheInv
    <3>2. Len(recent') \in Nat
      BY <3>1
    <3> QED
      BY <3>1, <3>2, TlsAssumption
  <2> QED
    BY <2>1, <2>2 DEF TypeOK
<1>2. ASSUME NEW d \in Connections PROVE FramedAt(d)'
  <2>1. CASE d = c
    <3>1. /\ conn'[d] = r /\ client'[d] = k /\ inbox'[d] = q /\ answers'[d] = a
          /\ spilled'[d] = s
      BY <2>1 DEF Moves, TlsInv, TypeOK
    <3> QED
      BY <3>1 DEF FramedAt
  <2>2. CASE d # c
    <3>1. /\ conn'[d] = conn[d] /\ client'[d] = client[d] /\ inbox'[d] = inbox[d]
          /\ answers'[d] = answers[d] /\ spilled'[d] = spilled[d]
      BY <2>2 DEF Moves, TlsInv, TypeOK
    <3> QED
      BY <3>1 DEF FramedAt, TlsInv
  <2> QED
    BY <2>1, <2>2
<1> QED
  BY <1>1, <1>2 DEF TlsInv

\* What the invariant says of one connection.
LEMMA Place ==
  ASSUME TlsInv, NEW c \in Connections
  PROVE  /\ conn[c] \in ConnType /\ client[c] \in ClientType /\ inbox[c] \in Seq(UnitType)
         /\ answers[c] \in Seq(AnswerType) /\ spilled[c] \in BOOLEAN
         /\ Framed(conn[c], client[c], inbox[c], answers[c], spilled[c])
         /\ conn = [conn EXCEPT ![c] = conn[c]]
         /\ client = [client EXCEPT ![c] = client[c]]
         /\ inbox = [inbox EXCEPT ![c] = inbox[c]]
         /\ answers = [answers EXCEPT ![c] = answers[c]]
         /\ spilled = [spilled EXCEPT ![c] = spilled[c]]
<1>1. /\ conn \in [Connections -> ConnType] /\ client \in [Connections -> ClientType]
      /\ inbox \in [Connections -> Seq(UnitType)]
      /\ answers \in [Connections -> Seq(AnswerType)]
      /\ spilled \in [Connections -> BOOLEAN]
  BY DEF TlsInv, TypeOK
<1>2. FramedAt(c)
  BY DEF TlsInv
<1> QED
  BY <1>1, <1>2 DEF FramedAt

\* A unit sent, by a client that keeps to the framing or has spilled a body.
LEMMA UnitSent ==
  ASSUME TlsInv, NEW c \in Connections, ByClient(c), NEW u \in UnitType, NEW l \in ClientType,
         NEW s \in BOOLEAN,
         Sends(c, u), client' = [client EXCEPT ![c] = l],
         spilled' = [spilled EXCEPT ![c] = s], spilled[c] => s,
         ASSUME ~s, InStep(conn[c], client[c], inbox[c], answers[c])
         PROVE  InStep(conn[c], l, Append(inbox[c], u), answers[c])
  PROVE  TlsInv'
<1> DEFINE r == conn[c]
           k == client[c]
           q == inbox[c]
           a == answers[c]
           p == Append(q, u)
<1>1. /\ r \in ConnType /\ k \in ClientType /\ q \in Seq(UnitType) /\ a \in Seq(AnswerType)
      /\ Framed(r, k, q, a, spilled[c])
      /\ conn = [conn EXCEPT ![c] = r] /\ answers = [answers EXCEPT ![c] = a]
  BY Place
<1>2. r.pc # "closed" /\ ~k.gone /\ conn' = conn /\ answers' = answers /\ UNCHANGED cacheVars
  BY DEF ByClient
<1>3. p \in Seq(UnitType)
  BY <1>1, AppendProperties
<1>4. CacheInv'
  BY <1>2 DEF CacheInv, TlsInv, cacheVars
<1>5. Moves(c, r, l, p, a, s)
  BY <1>1, <1>2 DEF Moves, Sends, TlsInv, TypeOK
<1>6. ASSUME ~s PROVE InStep(r, k, q, a) \/ (Ended(r) /\ InOrder(a))
  BY <1>1, <1>2, <1>6 DEF Framed, CutOff
<1>7. Framed(r, l, p, a, s)
  BY <1>6 DEF Framed
<1> HIDE DEF r, k, q, a, p
<1> QED
  BY <1>1, <1>3, <1>4, <1>5, <1>7, MovesKeeps

\* The first thing a client sends: nothing was sent before, or is read yet.
LEMMA FirstSent ==
  ASSUME NEW r \in ConnType, NEW k \in ClientType, NEW q \in Seq(UnitType), NEW a,
         InStep(r, k, q, a), k.next = "hello"
  PROVE  q = <<>> /\ r.pc = "hello" /\ ~r.tls /\ Len(a) = 0 /\ r.body = 0 /\ k.sent = 0
<1>1. Upcoming(k).kind = "hello" /\ Upcoming(k).number = k.sent
  BY DEF Upcoming
<1>2. q = <<>>
  BY <1>1, LastUnit DEF Leads
<1>3. Expects(r, Len(a), Upcoming(k))
  BY <1>2, LastUnit
<1> QED
  BY <1>1, <1>2, <1>3 DEF Expects

\* SendsConnect keeps the invariant.
LEMMA SendsConnectKeeps ==
  ASSUME TlsInv, NEW c \in Connections, NEW n \in Names, SendsConnect(c, n)
  PROVE  TlsInv'
<1> DEFINE r == conn[c]
           k == client[c]
           q == inbox[c]
           a == answers[c]
           u == Unit("connect", 0, "bare", n)
           l == [k EXCEPT !.next = "line"]
<1>1. /\ r \in ConnType /\ k \in ClientType /\ q \in Seq(UnitType) /\ a \in Seq(AnswerType)
      /\ spilled[c] \in BOOLEAN /\ spilled = [spilled EXCEPT ![c] = spilled[c]]
  BY Place
<1>2. /\ u \in UnitType /\ u.kind = "connect" /\ u.number = 0
      /\ l \in ClientType /\ l.next = "line" /\ l.sent = k.sent
  <2>1. u \in UnitType /\ u.kind = "connect" /\ u.number = 0
    BY TlsAssumption DEF Unit, UnitType, Numbers, Forms
  <2>2. l \in ClientType /\ l.next = "line" /\ l.sent = k.sent
    BY <1>1 DEF ClientType
  <2> QED
    BY <2>1, <2>2
<1>3. /\ ByClient(c) /\ Sends(c, u) /\ client' = [client EXCEPT ![c] = l]
      /\ UNCHANGED spilled /\ k.next = "hello"
  BY DEF SendsConnect
<1> HIDE DEF r, k, q, a, u, l
<1>4. ASSUME InStep(r, k, q, a)
      PROVE  InStep(r, l, Append(q, u), a)
  <2>1. q = <<>> /\ r.pc = "hello" /\ ~r.tls /\ Len(a) = 0 /\ r.body = 0 /\ k.sent = 0
    BY <1>1, <1>3, <1>4, FirstSent
  <2>2. Expects(r, Len(a), u)
    BY <2>1, <1>2 DEF Expects
  <2>3. /\ Upcoming(k).number = 0 /\ Upcoming(l).number = 1 /\ Upcoming(l).kind = "line"
    BY <2>1, <1>2, <1>3 DEF Upcoming
  <2>4. Leads(r.tls, u, Upcoming(l))
    BY <2>3, <1>2 DEF Leads
  <2>5. Upcoming(k).number <= u.number /\ u.number <= Upcoming(l).number
    BY <2>3, <1>2
  <2> QED
    BY <2>1, <2>2, <2>4, <2>5, <1>1, <1>2, <1>4, Sending
<1> QED
  BY <1>1, <1>2, <1>3, <1>4, UnitSent DEF r, k, q, a

\* SendsPlain keeps the invariant.
LEMMA SendsPlainKeeps ==
  ASSUME TlsInv, NEW c \in Connections, NEW n \in Names, NEW form \in Forms,
         SendsPlain(c, n, form)
  PROVE  TlsInv'
<1> DEFINE r == conn[c]
           k == client[c]
           q == inbox[c]
           a == answers[c]
           u == Unit("plain", 1, form, n)
           next == IF form \in WithBody THEN "body" ELSE "nothing"
           l == [k EXCEPT !.next = next, !.form = form, !.sent = 1]
<1>1. /\ r \in ConnType /\ k \in ClientType /\ q \in Seq(UnitType) /\ a \in Seq(AnswerType)
      /\ spilled[c] \in BOOLEAN /\ spilled = [spilled EXCEPT ![c] = spilled[c]]
  BY Place
<1>2. /\ u \in UnitType /\ u.kind = "plain" /\ u.number = 1 /\ u.form = form
      /\ l \in ClientType /\ l.sent = 1 /\ l.form = form
      /\ l.next = IF form \in WithBody THEN "body" ELSE "nothing"
  <2>1. 1 \in Numbers
    BY TlsAssumption DEF Numbers
  <2>2. u \in UnitType /\ u.kind = "plain" /\ u.number = 1 /\ u.form = form
    BY <2>1 DEF Unit, UnitType
  <2>3. next \in {"hello", "line", "headers", "body", "nothing"}
    OBVIOUS
  <2> HIDE DEF next
  <2>4. l \in ClientType /\ l.sent = 1 /\ l.form = form /\ l.next = next
    BY <2>1, <2>3, <1>1 DEF ClientType
  <2> QED
    BY <2>2, <2>4 DEF next
<1>3. /\ ByClient(c) /\ Sends(c, u) /\ client' = [client EXCEPT ![c] = l]
      /\ UNCHANGED spilled /\ k.next = "hello"
  BY DEF SendsPlain
<1> HIDE DEF r, k, q, a, u, l
<1>4. ASSUME InStep(r, k, q, a)
      PROVE  InStep(r, l, Append(q, u), a)
  <2>1. q = <<>> /\ r.pc = "hello" /\ ~r.tls /\ Len(a) = 0 /\ r.body = 0 /\ k.sent = 0
    BY <1>1, <1>3, <1>4, FirstSent
  <2>2. Expects(r, Len(a), u)
    BY <2>1, <1>2 DEF Expects
  <2>3. /\ Upcoming(k).number = 0 /\ Upcoming(l).number = 1 /\ Upcoming(l).kind = l.next
    BY <2>1, <1>2, <1>3 DEF Upcoming
  <2>4. Leads(r.tls, u, Upcoming(l))
    BY <2>3, <1>2 DEF Leads
  <2>5. Upcoming(k).number <= u.number /\ u.number <= Upcoming(l).number
    BY <2>3, <1>2
  <2> QED
    BY <2>1, <2>2, <2>4, <2>5, <1>1, <1>2, <1>4, Sending
<1> QED
  BY <1>1, <1>2, <1>3, <1>4, UnitSent DEF r, k, q, a

\* A client that has its answer and goes on without the large body it announced
\* has nothing unread, and its connection is to read a line.
LEMMA BodySkipped ==
  ASSUME NEW r \in ConnType, NEW k \in ClientType, NEW q \in Seq(UnitType),
         NEW a \in Seq(AnswerType), InStep(r, k, q, a), r.tls,
         k.next = "body", k.form = "large", Len(a) = k.sent
  PROVE  q = <<>> /\ r.pc \in {"line", "drain"}
<1> DEFINE m == Len(a)
<1>1. m \in Nat /\ Upcoming(k).kind = "body" /\ Upcoming(k).number = m
  BY DEF Upcoming
<1> HIDE DEF m
<1>2. ASSUME q # <<>> PROVE FALSE
  <2>1. /\ Expects(r, m, Head(q)) /\ Head(q) \in UnitType
        /\ ~(Head(q).kind = "body" /\ Head(q).form \in Spills)
    BY <1>2, FirstUnit DEF m
  <2>2. Head(q).number >= m + 1
    BY <2>1, <1>1, TlsAssumption DEF Expects, UnitType, Numbers
  <2>3. Sent(k, q)[1].number <= Sent(k, q)[Len(q) + 1].number
    <3>1. 1 \in 1 .. Len(q) + 1 /\ Len(q) + 1 \in 1 .. Len(q) + 1 /\ 1 <= Len(q) + 1
      BY <1>2
    <3> QED
      BY <3>1 DEF InStep, Chained
  <2>4. Sent(k, q)[1] = Head(q) /\ Sent(k, q)[Len(q) + 1] = Upcoming(k)
    <3>1. 1 \in 1 .. Len(q) /\ Head(q) = q[1]
      BY <1>2
    <3> QED
      BY <3>1, SentElements
  <2>5. Head(q).number <= m /\ Head(q).number \in Nat
    BY <2>1, <2>3, <2>4, <1>1, TlsAssumption DEF UnitType, Numbers
  <2> QED
    BY <2>2, <2>5, <1>1
<1>3. Expects(r, m, Upcoming(k))
  BY <1>2, LastUnit DEF m
<1>4. r.pc \in {"line", "drain"}
  BY <1>1, <1>3 DEF Expects
<1> QED
  BY <1>2, <1>4

\* SendsLine keeps the invariant.
LEMMA SendsLineKeeps ==
  ASSUME TlsInv, NEW c \in Connections, NEW form \in Forms, SendsLine(c, form)
  PROVE  TlsInv'
<1> DEFINE r == conn[c]
           k == client[c]
           q == inbox[c]
           a == answers[c]
           u == Unit("line", k.sent + 1, form, None)
           l == [k EXCEPT !.next = "headers", !.form = form, !.sent = k.sent + 1]
<1>1. /\ r \in ConnType /\ k \in ClientType /\ q \in Seq(UnitType) /\ a \in Seq(AnswerType)
      /\ spilled[c] \in BOOLEAN /\ spilled = [spilled EXCEPT ![c] = spilled[c]]
  BY Place
<1>2. /\ ByClient(c) /\ Sends(c, u) /\ client' = [client EXCEPT ![c] = l]
      /\ UNCHANGED spilled /\ r.tls /\ k.sent < MaxRequests
      /\ \/ k.next = "line"
         \/ k.next = "body" /\ k.form = "large" /\ Len(a) = k.sent
  BY DEF SendsLine
<1>3. k.sent \in Nat /\ k.sent + 1 \in Numbers
  BY <1>1, <1>2, TlsAssumption DEF ClientType, Numbers
<1>4. /\ u \in UnitType /\ u.kind = "line" /\ u.number = k.sent + 1 /\ u.form = form
      /\ l \in ClientType /\ l.next = "headers" /\ l.sent = k.sent + 1 /\ l.form = form
  BY <1>1, <1>3 DEF Unit, UnitType, ClientType
<1> HIDE DEF r, k, q, a, u, l
<1>5. ASSUME InStep(r, k, q, a)
      PROVE  InStep(r, l, Append(q, u), a)
  <2>1. /\ Upcoming(l).number = k.sent + 1 /\ Upcoming(l).kind = "headers"
        /\ Upcoming(l).form = form
    BY <1>4 DEF Upcoming
  <2>2. Leads(r.tls, u, Upcoming(l))
    BY <2>1, <1>4 DEF Leads
  <2>3. Upcoming(k).number <= u.number /\ u.number <= Upcoming(l).number
    BY <2>1, <1>3, <1>4 DEF Upcoming
  <2>4. CASE k.next = "line"
    <3>1. Upcoming(k).kind = "line" /\ Upcoming(k).number = k.sent + 1
      BY <2>4 DEF Upcoming
    <3>2. \A x \in UnitType : Leads(r.tls, x, Upcoming(k)) => Leads(r.tls, x, u)
      BY <3>1, <1>4 DEF Leads
    <3>3. q = <<>> => Expects(r, Len(a), Upcoming(k))
      BY <1>1, <1>5, LastUnit
    <3>4. q = <<>> => Expects(r, Len(a), u)
      BY <3>1, <3>3, <1>4 DEF Expects
    <3> QED
      BY <3>2, <3>4, <2>2, <2>3, <1>1, <1>2, <1>4, <1>5, Sending
  <2>5. CASE k.next = "body" /\ k.form = "large" /\ Len(a) = k.sent
    <3>1. q = <<>> /\ r.pc \in {"line", "drain"}
      BY <2>5, <1>1, <1>2, <1>5, BodySkipped
    <3>2. Expects(r, Len(a), u)
      BY <3>1, <2>5, <1>2, <1>4 DEF Expects
    <3> QED
      BY <3>1, <3>2, <2>2, <2>3, <1>1, <1>2, <1>4, <1>5, Sending
  <2> QED
    BY <2>4, <2>5, <1>2
<1> QED
  BY <1>1, <1>2, <1>4, <1>5, UnitSent DEF r, k, q, a

\* The unit a client sends next, headers or a body, sent as it was expected.
LEMMA AsExpected ==
  ASSUME NEW r \in ConnType, NEW k \in ClientType, NEW q \in Seq(UnitType), NEW a,
         InStep(r, k, q, a), k.next \in {"headers", "body"},
         ~(r.tls /\ k.next = "body" /\ k.form \in Spills), NEW l \in ClientType,
         Leads(r.tls, Upcoming(k), Upcoming(l)), k.sent <= Upcoming(l).number
  PROVE  InStep(r, l, Append(q, Upcoming(k)), a)
<1> DEFINE u == Upcoming(k)
<1>1. u.kind = k.next /\ u.number = k.sent /\ u.form = k.form /\ u.name = None
  BY DEF Upcoming
<1>2. u \in UnitType
  BY DEF Upcoming, UnitType, ClientType
<1>3. q = <<>> => Expects(r, Len(a), u)
  BY LastUnit
<1>4. ASSUME ~r.tls PROVE u.kind \notin {"line", "headers"}
  <2>1. CASE q = <<>>
    BY <2>1, <1>1, <1>3, <1>4 DEF Expects
  <2>2. CASE q # <<>>
    <3>1. PICK x \in UnitType : Leads(r.tls, x, u) /\ x.kind \notin {"line", "headers"}
      BY <2>2, <1>4, LastUnit
    <3> QED
      BY <3>1, <1>1 DEF Leads
  <2> QED
    BY <2>1, <2>2
<1>5. u.number <= u.number
  BY <1>1, TlsAssumption DEF ClientType, Numbers
<1> HIDE DEF u
<1>6. IF r.tls THEN ~(u.kind = "body" /\ u.form \in Spills) ELSE u.kind \notin {"line", "headers"}
  BY <1>1, <1>4
<1> QED
  BY <1>1, <1>2, <1>3, <1>5, <1>6, Sending DEF u

\* SendsHeaders keeps the invariant.
LEMMA SendsHeadersKeeps ==
  ASSUME TlsInv, NEW c \in Connections, SendsHeaders(c)
  PROVE  TlsInv'
<1> DEFINE r == conn[c]
           k == client[c]
           q == inbox[c]
           a == answers[c]
           u == Unit("headers", k.sent, k.form, None)
           l == [k EXCEPT !.next = IF k.form \in WithBody THEN "body" ELSE "line"]
<1>1. /\ r \in ConnType /\ k \in ClientType /\ q \in Seq(UnitType) /\ a \in Seq(AnswerType)
      /\ spilled[c] \in BOOLEAN /\ spilled = [spilled EXCEPT ![c] = spilled[c]]
  BY Place
<1>2. /\ ByClient(c) /\ Sends(c, u) /\ client' = [client EXCEPT ![c] = l]
      /\ UNCHANGED spilled /\ k.next = "headers"
  BY DEF SendsHeaders
<1>3. /\ l \in ClientType /\ l.sent = k.sent /\ l.form = k.form
      /\ l.next = IF k.form \in WithBody THEN "body" ELSE "line"
  BY <1>1 DEF ClientType
<1>4. u \in UnitType /\ u = Upcoming(k)
  BY <1>1, <1>2 DEF Unit, Upcoming, UnitType, ClientType
<1>5. k.form \in Forms /\ k.sent \in Nat
  BY <1>1, TlsAssumption DEF ClientType, Numbers
<1> HIDE DEF r, k, q, a, u, l
<1>6. Leads(r.tls, Upcoming(k), Upcoming(l)) /\ k.sent <= Upcoming(l).number
  BY <1>2, <1>3, <1>5 DEF Leads, Upcoming, Forms, WithBody
<1>7. ASSUME InStep(r, k, q, a)
      PROVE  InStep(r, l, Append(q, u), a)
  BY <1>1, <1>2, <1>3, <1>4, <1>6, <1>7, AsExpected
<1> QED
  BY <1>1, <1>2, <1>3, <1>4, <1>7, UnitSent DEF r, k, q, a

\* SendsBody keeps the invariant.
LEMMA SendsBodyKeeps ==
  ASSUME TlsInv, NEW c \in Connections, SendsBody(c)
  PROVE  TlsInv'
<1> DEFINE r == conn[c]
           k == client[c]
           q == inbox[c]
           a == answers[c]
           s == spilled[c] \/ (r.tls /\ k.form \in Spills)
           u == Unit("body", k.sent, k.form, None)
           l == [k EXCEPT !.next = IF r.tls THEN "line" ELSE "nothing"]
<1>1. /\ r \in ConnType /\ k \in ClientType /\ q \in Seq(UnitType) /\ a \in Seq(AnswerType)
      /\ spilled[c] \in BOOLEAN
  BY Place
<1>2. /\ ByClient(c) /\ Sends(c, u) /\ client' = [client EXCEPT ![c] = l]
      /\ spilled' = [spilled EXCEPT ![c] = s] /\ k.next = "body"
  BY DEF SendsBody
<1>3. /\ l \in ClientType /\ l.sent = k.sent /\ l.form = k.form
      /\ l.next = IF r.tls THEN "line" ELSE "nothing"
  BY <1>1 DEF ClientType
<1>4. u \in UnitType /\ u = Upcoming(k)
  BY <1>1, <1>2 DEF Unit, Upcoming, UnitType, ClientType
<1>5. k.sent \in Nat /\ r.tls \in BOOLEAN
  BY <1>1, TlsAssumption DEF ClientType, ConnType, Numbers
<1>6. s \in BOOLEAN /\ (spilled[c] => s)
  OBVIOUS
<1> HIDE DEF r, k, q, a, u, l
<1>7. Leads(r.tls, Upcoming(k), Upcoming(l)) /\ k.sent <= Upcoming(l).number
  BY <1>2, <1>3, <1>5 DEF Leads, Upcoming
<1>8. ASSUME ~s, InStep(r, k, q, a)
      PROVE  InStep(r, l, Append(q, u), a)
  <2>1. ~(r.tls /\ k.form \in Spills)
    BY <1>8
  <2> QED
    BY <2>1, <1>1, <1>2, <1>3, <1>4, <1>7, <1>8, AsExpected
<1> HIDE DEF s
<1> QED
  BY <1>1, <1>2, <1>3, <1>4, <1>6, <1>8, UnitSent DEF r, k, q, a

\* Opens keeps the invariant: a client and a connection begin in step.
LEMMA OpensKeeps ==
  ASSUME TlsInv, NEW c \in Connections, Opens(c)
  PROVE  TlsInv'
<1>1. 0 \in Numbers
  BY TlsAssumption DEF Numbers
<1>2. /\ Fresh \in ConnType /\ Fresh.pc = "hello" /\ Fresh.tls = FALSE /\ Fresh.body = 0
      /\ Newcomer \in ClientType /\ Newcomer.next = "hello" /\ Newcomer.sent = 0
      /\ <<>> \in Seq(UnitType) /\ <<>> \in Seq(AnswerType) /\ Len(<<>>) = 0
  BY <1>1 DEF Fresh, Newcomer, ConnType, ClientType, Forms
<1>3. Chained(FALSE, Newcomer, <<>>) /\ Sent(Newcomer, <<>>)[1] = Upcoming(Newcomer)
  BY <1>2, NoUnit
<1>4. Upcoming(Newcomer).kind = "hello" /\ Upcoming(Newcomer).number = 0
  BY <1>2 DEF Upcoming
<1>5. Expects(Fresh, 0, Upcoming(Newcomer)) /\ Matched(<<>>)
  BY <1>2, <1>4 DEF Expects, Matched
<1>6. Framed(Fresh, Newcomer, <<>>, <<>>, FALSE)
  BY <1>2, <1>3, <1>5 DEF Framed, InStep
<1>7. Moves(c, Fresh, Newcomer, <<>>, <<>>, FALSE) /\ UNCHANGED cacheVars
  BY DEF Opens, Moves
<1>8. CacheInv'
  BY <1>7 DEF CacheInv, TlsInv, cacheVars
<1> QED
  BY <1>2, <1>6, <1>7, <1>8, MovesKeeps

\* Leaves keeps the invariant.
LEMMA LeavesKeeps ==
  ASSUME TlsInv, NEW c \in Connections, Leaves(c)
  PROVE  TlsInv'
<1> DEFINE r == conn[c]
           k == client[c]
           q == inbox[c]
           a == answers[c]
           s == spilled[c]
           l == [k EXCEPT !.gone = TRUE]
<1>1. /\ r \in ConnType /\ k \in ClientType /\ q \in Seq(UnitType) /\ a \in Seq(AnswerType)
      /\ s \in BOOLEAN /\ Framed(r, k, q, a, s)
      /\ conn = [conn EXCEPT ![c] = r] /\ inbox = [inbox EXCEPT ![c] = q]
      /\ answers = [answers EXCEPT ![c] = a] /\ spilled = [spilled EXCEPT ![c] = s]
  BY Place
<1>2. /\ conn' = conn /\ inbox' = inbox /\ answers' = answers /\ spilled' = spilled
      /\ client' = [client EXCEPT ![c] = l] /\ UNCHANGED cacheVars /\ r.pc # "closed" /\ ~k.gone
  BY DEF Leaves, ByClient
<1>3. l \in ClientType /\ Upcoming(l) = Upcoming(k)
  BY <1>1 DEF ClientType, Upcoming
<1>4. CacheInv'
  BY <1>2 DEF CacheInv, TlsInv, cacheVars
<1> HIDE DEF r, k, q, a, s, l
<1>5. s \/ InStep(r, k, q, a) \/ (Ended(r) /\ InOrder(a))
  BY <1>1, <1>2 DEF Framed, CutOff
<1>6. Framed(r, l, q, a, s)
  BY <1>3, <1>5 DEF Framed, InStep, Chained, Sent
<1>7. Moves(c, r, l, q, a, s)
  BY <1>1, <1>2 DEF Moves
<1> QED
  BY <1>1, <1>3, <1>4, <1>6, <1>7, MovesKeeps

\* Stalls keeps the invariant: what is sent is the same.
LEMMA StallsKeeps ==
  ASSUME TlsInv, NEW c \in Connections, Stalls(c)
  PROVE  TlsInv'
<1> DEFINE r == conn[c]
           k == client[c]
           q == inbox[c]
           a == answers[c]
           s == spilled[c]
           l == [k EXCEPT !.reads = ~@]
<1>1. /\ r \in ConnType /\ k \in ClientType /\ q \in Seq(UnitType) /\ a \in Seq(AnswerType)
      /\ s \in BOOLEAN /\ Framed(r, k, q, a, s)
      /\ conn = [conn EXCEPT ![c] = r] /\ inbox = [inbox EXCEPT ![c] = q]
      /\ answers = [answers EXCEPT ![c] = a] /\ spilled = [spilled EXCEPT ![c] = s]
  BY Place
<1>2. /\ conn' = conn /\ inbox' = inbox /\ answers' = answers /\ spilled' = spilled
      /\ client' = [client EXCEPT ![c] = l] /\ UNCHANGED cacheVars
  BY DEF Stalls, ByClient
<1>3. l \in ClientType /\ Upcoming(l) = Upcoming(k) /\ l.gone = k.gone
  BY <1>1 DEF ClientType, Upcoming
<1>4. CacheInv'
  BY <1>2 DEF CacheInv, TlsInv, cacheVars
<1> HIDE DEF r, k, q, a, s, l
<1>5. Framed(r, l, q, a, s)
  BY <1>1, <1>3 DEF Framed, InStep, CutOff, Chained, Sent
<1>6. Moves(c, r, l, q, a, s)
  BY <1>1, <1>2 DEF Moves
<1> QED
  BY <1>1, <1>3, <1>4, <1>5, <1>6, MovesKeeps

\* A step of a connection, from the framing to the framing.
LEMMA Served ==
  ASSUME TlsInv, NEW c \in Connections, CacheInv', ~Ended(conn[c]),
         NEW r \in ConnType, NEW k \in ClientType, NEW q \in Seq(UnitType),
         NEW a \in Seq(AnswerType),
         conn' = [conn EXCEPT ![c] = r], client' = [client EXCEPT ![c] = k],
         inbox' = [inbox EXCEPT ![c] = q], answers' = [answers EXCEPT ![c] = a],
         spilled' = spilled,
         ASSUME InStep(conn[c], client[c], inbox[c], answers[c])
         PROVE  Framed(r, k, q, a, FALSE),
         ASSUME CutOff(conn[c], client[c], inbox[c], answers[c])
         PROVE  Framed(r, k, q, a, FALSE)
  PROVE  TlsInv'
<1> DEFINE s == spilled[c]
<1>1. /\ s \in BOOLEAN /\ spilled = [spilled EXCEPT ![c] = s]
      /\ Framed(conn[c], client[c], inbox[c], answers[c], s)
  BY Place
<1>2. Moves(c, r, k, q, a, s)
  BY <1>1 DEF Moves
<1>3. \/ s
      \/ InStep(conn[c], client[c], inbox[c], answers[c])
      \/ CutOff(conn[c], client[c], inbox[c], answers[c])
  BY <1>1 DEF Framed
<1>4. s \/ Framed(r, k, q, a, FALSE)
  BY <1>3
<1>5. Framed(r, k, q, a, s)
  BY <1>4 DEF Framed
<1> HIDE DEF s
<1> QED
  BY <1>1, <1>2, <1>5, MovesKeeps

\* What is left of a connection once it is closed.
LEMMA Blank ==
  /\ Closed \in ConnType /\ Closed.pc = "closed"
  /\ Newcomer \in ClientType /\ <<>> \in Seq(UnitType)
<1>1. 0 \in Numbers
  BY TlsAssumption DEF Numbers
<1>2. Closed \in ConnType /\ Closed.pc = "closed"
  BY <1>1 DEF Closed, Fresh, ConnType
<1>3. Newcomer \in ClientType
  BY <1>1 DEF Newcomer, ClientType, Forms
<1> QED
  BY <1>2, <1>3

\* A connection that is closed without a response more.
LEMMA ClosesSilently ==
  ASSUME TlsInv, NEW c \in Connections, CacheInv', Closes(c), Silent
  PROVE  TlsInv'
<1> DEFINE a == answers[c]
           s == spilled[c]
<1>1. /\ a \in Seq(AnswerType) /\ s \in BOOLEAN
      /\ Framed(conn[c], client[c], inbox[c], a, s)
      /\ answers = [answers EXCEPT ![c] = a] /\ spilled = [spilled EXCEPT ![c] = s]
  BY Place
<1> DEFINE r == Closed
           k == Newcomer
           q == <<>>
<1>2. r \in ConnType /\ r.pc = "closed" /\ k \in ClientType /\ q \in Seq(UnitType)
  BY Blank
<1>3. Moves(c, r, k, q, a, s)
  BY <1>1 DEF Moves, Closes, Silent
<1>4. s \/ InOrder(a)
  BY <1>1 DEF Framed, InStep, CutOff, Matched, InOrder
<1> HIDE DEF a, s, r, k, q
<1>5. Framed(r, k, q, a, s)
  BY <1>2, <1>4 DEF Framed, Ended
<1> QED
  BY <1>1, <1>2, <1>3, <1>5, MovesKeeps

\* A unit read, without a response.
LEMMA UnitTaken ==
  ASSUME TlsInv, NEW c \in Connections, CacheInv', ~Ended(conn[c]), inbox[c] # <<>>,
         NEW x \in ConnType, Takes(c, x), Silent,
         ASSUME InStep(conn[c], client[c], inbox[c], answers[c])
         PROVE  /\ x.tls = conn[c].tls
                /\ Expects(x, Len(answers[c]), Sent(client[c], inbox[c])[2])
  PROVE  TlsInv'
<1> DEFINE r == conn[c]
           k == client[c]
           q == inbox[c]
           a == answers[c]
           p == Tail(q)
<1>1. /\ r \in ConnType /\ k \in ClientType /\ q \in Seq(UnitType) /\ a \in Seq(AnswerType)
      /\ client = [client EXCEPT ![c] = k] /\ answers = [answers EXCEPT ![c] = a]
  BY Place
<1>2. /\ conn' = [conn EXCEPT ![c] = x] /\ inbox' = [inbox EXCEPT ![c] = p]
      /\ client' = [client EXCEPT ![c] = k] /\ answers' = [answers EXCEPT ![c] = a]
      /\ spilled' = spilled
  BY <1>1 DEF Takes, Silent
<1>3. p \in Seq(UnitType)
  BY <1>1, HeadTailProperties
<1>4. ASSUME InStep(r, k, q, a) PROVE Framed(x, k, p, a, FALSE)
  <2>1. x.tls = r.tls /\ Expects(x, Len(a), Sent(k, q)[2]) /\ Matched(a)
    BY <1>4 DEF InStep
  <2> HIDE DEF r, k, q, a
  <2>2. InStep(x, k, Tail(q), a)
    BY <2>1, <1>1, <1>4, Taking DEF q
  <2> QED
    BY <2>2 DEF Framed
<1>5. ASSUME CutOff(r, k, q, a) PROVE Framed(x, k, p, a, FALSE)
  BY <1>5 DEF CutOff
<1> HIDE DEF p
<1> QED
  BY <1>1, <1>2, <1>3, <1>4, <1>5, Served

\* Connect keeps the invariant.
LEMMA ConnectKeeps ==
  ASSUME TlsInv, NEW c \in Connections, Connect(c)
  PROVE  TlsInv'
<1> DEFINE n == Head(inbox[c]).name
           x == [conn[c] EXCEPT !.pc = "established", !.host = n]
           y == [conn[c] EXCEPT !.pc = "drain"]
<1>1. /\ conn[c].pc = "hello" /\ inbox[c] # <<>> /\ Head(inbox[c]).kind = "connect" /\ Silent
      /\ UNCHANGED cacheVars
      /\ Takes(c, IF n \in Allowed THEN x ELSE y)
  BY DEF Connect, Meets
<1>2. /\ conn[c] \in ConnType /\ client[c] \in ClientType /\ inbox[c] \in Seq(UnitType)
      /\ answers[c] \in Seq(AnswerType)
      /\ client = [client EXCEPT ![c] = client[c]] /\ answers = [answers EXCEPT ![c] = answers[c]]
  BY Place
<1>3. CacheInv' /\ ~Ended(conn[c])
  BY <1>1 DEF CacheInv, TlsInv, cacheVars, Ended
<1>4. ASSUME InStep(conn[c], client[c], inbox[c], answers[c])
      PROVE  /\ ~conn[c].tls /\ Len(answers[c]) = 0
             /\ Sent(client[c], inbox[c])[2].kind = "line"
             /\ Sent(client[c], inbox[c])[2].number = 1
  <2>1. /\ Expects(conn[c], Len(answers[c]), Head(inbox[c]))
        /\ Leads(conn[c].tls, Head(inbox[c]), Sent(client[c], inbox[c])[2])
    BY <1>1, <1>2, <1>4, FirstUnit
  <2> QED
    BY <2>1, <1>1 DEF Expects, Leads
<1>5. CASE n \in Allowed
  <2>1. x \in ConnType /\ x.pc = "established" /\ x.tls = conn[c].tls
    BY <1>1, <1>2, <1>5 DEF ConnType
  <2>2. Takes(c, x)
    BY <1>1, <1>5
  <2> HIDE DEF x
  <2>3. ASSUME InStep(conn[c], client[c], inbox[c], answers[c])
        PROVE  /\ x.tls = conn[c].tls
               /\ Expects(x, Len(answers[c]), Sent(client[c], inbox[c])[2])
    BY <2>1, <2>3, <1>4 DEF Expects
  <2> QED
    BY <2>1, <2>2, <2>3, <1>1, <1>3, UnitTaken
<1>6. CASE n \notin Allowed
  <2> DEFINE q == Tail(inbox[c])
             k == client[c]
             a == answers[c]
  <2>1. y \in ConnType /\ y.pc = "drain" /\ y.tls = conn[c].tls
    BY <1>1, <1>2 DEF ConnType
  <2>2. /\ conn' = [conn EXCEPT ![c] = y] /\ client' = [client EXCEPT ![c] = k]
        /\ inbox' = [inbox EXCEPT ![c] = q] /\ answers' = [answers EXCEPT ![c] = a]
        /\ spilled' = spilled
    BY <1>1, <1>2, <1>6 DEF Takes, Silent
  <2>3. q \in Seq(UnitType)
    BY <1>1, <1>2, HeadTailProperties
  <2> HIDE DEF y
  <2>4. ASSUME InStep(conn[c], client[c], inbox[c], answers[c])
        PROVE  Framed(y, k, q, a, FALSE)
    <3>1. Ended(y)
      BY <2>1, <2>4, <1>4 DEF Ended
    <3>2. InOrder(a)
      BY <2>4 DEF InStep, Matched, InOrder
    <3> QED
      BY <3>1, <3>2 DEF Framed
  <2>5. ~CutOff(conn[c], client[c], inbox[c], answers[c])
    BY <1>1 DEF CutOff
  <2> HIDE DEF k, q, a
  <2> QED
    BY <2>1, <2>2, <2>3, <2>4, <2>5, <1>2, <1>3, Served DEF k, a
<1> QED
  BY <1>5, <1>6

\* Drains keeps the invariant: a certificate for an allowed host, the next request, or
\* the end.
LEMMA DrainsKeeps ==
  ASSUME TlsInv, NEW c \in Connections, Drains(c)
  PROVE  TlsInv'
<1> DEFINE r == conn[c]
           k == client[c]
           q == inbox[c]
           a == answers[c]
           x == [r EXCEPT !.pc = "handshake", !.host = None]
           y == [r EXCEPT !.pc = "line"]
<1>1. /\ Silent
      /\ \/ /\ r.pc = "established" /\ Certifies(r.host)
            /\ Goes(c, x) \/ Closes(c)
         \/ r.pc = "drain" /\ r.tls /\ Goes(c, y) /\ UNCHANGED cacheVars
         \/ Closes(c) /\ UNCHANGED cacheVars
  BY DEF Drains
<1>2. /\ r \in ConnType /\ k \in ClientType /\ q \in Seq(UnitType) /\ a \in Seq(AnswerType)
      /\ client = [client EXCEPT ![c] = k] /\ inbox = [inbox EXCEPT ![c] = q]
      /\ answers = [answers EXCEPT ![c] = a]
  BY Place
<1>3. CASE r.pc = "established" /\ Certifies(r.host) /\ (Goes(c, x) \/ Closes(c))
  <2>1. r.host \in Allowed
    BY <1>2, <1>3 DEF ConnType
  <2>2. CacheInv'
    <3> DEFINE n == r.host
    <3>1. n \in Allowed /\ Certifies(n)
      BY <2>1, <1>3
    <3> HIDE DEF n
    <3> QED
      BY <3>1, CertifiesKeepsCache DEF TlsInv
  <2>3. CASE Goes(c, x)
    <3>1. /\ conn' = [conn EXCEPT ![c] = x] /\ client' = [client EXCEPT ![c] = k]
          /\ inbox' = [inbox EXCEPT ![c] = q] /\ answers' = [answers EXCEPT ![c] = a]
          /\ spilled' = spilled
      BY <2>3, <1>1, <1>2 DEF Goes, Silent
    <3>2. x \in ConnType /\ x.pc = "handshake" /\ x.tls = r.tls
      BY <1>2, <1>3 DEF ConnType
    <3> HIDE DEF x
    <3>3. ASSUME InStep(r, k, q, a) PROVE Framed(x, k, q, a, FALSE)
      <4>1. Expects(x, Len(a), Sent(k, q)[1])
        BY <3>2, <3>3, <1>3 DEF InStep, Expects
      <4> QED
        BY <4>1, <3>2, <3>3 DEF Framed, InStep
    <3>4. ~CutOff(r, k, q, a) /\ ~Ended(r)
      BY <1>3 DEF CutOff, Ended
    <3> QED
      BY <3>1, <3>2, <3>3, <3>4, <2>2, <1>2, Served
  <2>4. CASE Closes(c)
    BY <2>2, <2>4, <1>1, ClosesSilently
  <2> QED
    BY <2>3, <2>4, <1>3
<1>4. CASE r.pc = "drain" /\ r.tls /\ Goes(c, y) /\ UNCHANGED cacheVars
  <2>1. /\ conn' = [conn EXCEPT ![c] = y] /\ client' = [client EXCEPT ![c] = k]
        /\ inbox' = [inbox EXCEPT ![c] = q] /\ answers' = [answers EXCEPT ![c] = a]
        /\ spilled' = spilled
    BY <1>1, <1>2, <1>4 DEF Goes, Silent
  <2>2. y \in ConnType /\ y.pc = "line" /\ y.tls = r.tls
    BY <1>2, <1>4 DEF ConnType
  <2> HIDE DEF y
  <2>3. ASSUME InStep(r, k, q, a) PROVE Framed(y, k, q, a, FALSE)
    <3>1. Expects(y, Len(a), Sent(k, q)[1])
      BY <2>2, <2>3, <1>4 DEF InStep, Expects
    <3> QED
      BY <3>1, <2>2, <2>3 DEF Framed, InStep
  <2>4. ASSUME CutOff(r, k, q, a) PROVE Framed(y, k, q, a, FALSE)
    BY <2>2, <2>4, <1>4 DEF Framed, CutOff
  <2>5. CacheInv' /\ ~Ended(r)
    BY <1>4 DEF CacheInv, TlsInv, cacheVars, Ended
  <2> QED
    BY <2>1, <2>2, <2>3, <2>4, <2>5, <1>2, Served
<1>5. CASE Closes(c) /\ UNCHANGED cacheVars
  <2>1. CacheInv'
    BY <1>5 DEF CacheInv, TlsInv, cacheVars
  <2> QED
    BY <2>1, <1>1, <1>5, ClosesSilently
<1> QED
  BY <1>1, <1>3, <1>4, <1>5

\* A response written to a connection: one more in the list, of the type.
LEMMA Written ==
  ASSUME TlsInv, NEW c \in Connections, NEW r \in ConnType, NEW status \in {200, 400, 403, 413},
         Writes(c, status, r)
  PROVE  \E x \in AnswerType :
           /\ x.line = r.line /\ x.headers = r.headers /\ x.body = r.body
           /\ answers' = [answers EXCEPT ![c] = Append(answers[c], x)]
           /\ Append(answers[c], x) \in Seq(AnswerType)
<1> DEFINE x == [status |-> status, line |-> r.line, headers |-> r.headers, body |-> r.body]
<1>1. x \in AnswerType /\ x.line = r.line /\ x.headers = r.headers /\ x.body = r.body
  BY DEF AnswerType, ConnType
<1>2. answers' = [answers EXCEPT ![c] = Append(answers[c], x)]
  BY DEF Writes
<1>3. answers[c] \in Seq(AnswerType)
  BY Place
<1> HIDE DEF x
<1>4. Append(answers[c], x) \in Seq(AnswerType)
  BY <1>1, <1>3, AppendProperties
<1> QED
  BY <1>1, <1>2, <1>4

\* Plain keeps the invariant.
LEMMA PlainKeeps ==
  ASSUME TlsInv, NEW c \in Connections, Plain(c)
  PROVE  TlsInv'
<1> DEFINE u == Head(inbox[c])
           r == [conn[c] EXCEPT !.line = 1, !.headers = 1]
           x == [r EXCEPT !.pc = AfterHeaders(u.form)]
<1>1. /\ conn[c].pc = "hello" /\ inbox[c] # <<>> /\ u.kind = "plain"
      /\ UNCHANGED <<cacheVars, spilled>>
      /\ \/ Takes(c, [r EXCEPT !.pc = "drain"]) /\ Writes(c, 400, r)
         \/ Takes(c, [r EXCEPT !.pc = "drain"]) /\ Writes(c, 403, r)
         \/ Closes(c) /\ UNCHANGED answers
         \/ u.form # "malformed" /\ Takes(c, x) /\ UNCHANGED answers
  BY DEF Plain, Meets
<1>2. /\ conn[c] \in ConnType /\ client[c] \in ClientType /\ inbox[c] \in Seq(UnitType)
      /\ answers[c] \in Seq(AnswerType)
  BY Place
<1>3. CacheInv'
  BY <1>1 DEF CacheInv, TlsInv, cacheVars
<1>4. 1 \in Numbers
  BY TlsAssumption DEF Numbers
<1>5. /\ r \in ConnType /\ r.line = 1 /\ r.headers = 1 /\ r.body = conn[c].body
      /\ r.tls = conn[c].tls /\ r.pc = "hello"
  BY <1>1, <1>2, <1>4 DEF ConnType
<1>6. u \in UnitType
  BY <1>1, <1>2, HeadTailProperties
<1>7. ASSUME InStep(conn[c], client[c], inbox[c], answers[c])
      PROVE  /\ Len(answers[c]) = 0 /\ ~conn[c].tls /\ conn[c].body = 0
             /\ Leads(FALSE, u, Sent(client[c], inbox[c])[2])
  <2>1. /\ Expects(conn[c], Len(answers[c]), u)
        /\ Leads(conn[c].tls, u, Sent(client[c], inbox[c])[2])
    BY <1>1, <1>2, <1>7, FirstUnit
  <2>2. /\ Len(answers[c]) = 0 /\ ~conn[c].tls /\ conn[c].body = 0
    BY <2>1, <1>1 DEF Expects
  <2>3. conn[c].tls = FALSE
    BY <2>2, <1>2 DEF ConnType
  <2> QED
    BY <2>1, <2>2, <2>3
<1> HIDE DEF r
<1>8. ASSUME NEW status \in {200, 400, 403, 413}, Takes(c, [r EXCEPT !.pc = "drain"]),
             Writes(c, status, r)
      PROVE  TlsInv'
  <2> DEFINE z == [r EXCEPT !.pc = "drain"]
             k == client[c]
             q == inbox[c]
             p == Tail(q)
             a == answers[c]
  <2>1. PICK y \in AnswerType :
           /\ y.line = r.line /\ y.headers = r.headers /\ y.body = r.body
           /\ answers' = [answers EXCEPT ![c] = Append(a, y)]
           /\ Append(a, y) \in Seq(AnswerType)
    BY <1>5, <1>8, Written
  <2> DEFINE b == Append(a, y)
  <2>2. z \in ConnType /\ z.pc = "drain" /\ z.tls = conn[c].tls
    BY <1>5 DEF ConnType
  <2>3. /\ conn' = [conn EXCEPT ![c] = z] /\ client' = [client EXCEPT ![c] = k]
        /\ inbox' = [inbox EXCEPT ![c] = p] /\ answers' = [answers EXCEPT ![c] = b]
        /\ spilled' = spilled
    <3>1. client = [client EXCEPT ![c] = k]
      BY Place
    <3> QED
      BY <3>1, <2>1, <1>1, <1>8 DEF Takes
  <2>4. p \in Seq(UnitType)
    BY <1>1, <1>2, HeadTailProperties
  <2> HIDE DEF z
  <2>5. ASSUME InStep(conn[c], client[c], inbox[c], answers[c])
        PROVE  Framed(z, k, p, b, FALSE)
    <3>1. Len(a) = 0 /\ conn[c].body = 0 /\ ~conn[c].tls /\ Matched(a)
      BY <2>5, <1>7 DEF InStep
    <3>2. y.line = Len(a) + 1 /\ y.headers = Len(a) + 1 /\ y.body = 0
      BY <3>1, <2>1, <1>5
    <3>3. InOrder(b)
      BY <3>1, <3>2, <1>2, OneMore
    <3> HIDE DEF b
    <3> QED
      BY <3>1, <3>3, <2>2 DEF Framed, Ended
  <2>6. ~CutOff(conn[c], client[c], inbox[c], answers[c]) /\ ~Ended(conn[c])
    BY <1>1 DEF CutOff, Ended
  <2>7. b \in Seq(AnswerType)
    BY <2>1
  <2>8. k \in ClientType
    BY <1>2
  <2> HIDE DEF b, p, k, q, a
  <2> QED
    BY <2>2, <2>3, <2>4, <2>5, <2>6, <2>7, <2>8, <1>3, Served
<1>9. ASSUME Closes(c), UNCHANGED answers PROVE TlsInv'
  <2>1. Silent
    BY <1>1, <1>9 DEF Silent
  <2> QED
    BY <2>1, <1>3, <1>9, ClosesSilently
<1>10. ASSUME u.form # "malformed", Takes(c, x), UNCHANGED answers PROVE TlsInv'
  <2>1. /\ x \in ConnType /\ x.tls = r.tls /\ x.line = 1 /\ x.headers = 1 /\ x.body = r.body
        /\ x.pc = IF u.form \in {"post", "large"} THEN "body" ELSE "process"
    BY <1>5 DEF AfterHeaders, ConnType
  <2> HIDE DEF x
  <2>2. ASSUME InStep(conn[c], client[c], inbox[c], answers[c])
        PROVE  /\ x.tls = conn[c].tls
               /\ Expects(x, Len(answers[c]), Sent(client[c], inbox[c])[2])
    <3>1. /\ Sent(client[c], inbox[c])[2].number = 1
          /\ Sent(client[c], inbox[c])[2].kind \in {"body", "nothing"}
          /\ u.form \in {"post", "large"} => Sent(client[c], inbox[c])[2].kind = "body"
      BY <2>2, <1>1, <1>7 DEF Leads, WithBody
    <3>2. x.body = 0 /\ x.tls = FALSE /\ Len(answers[c]) = 0 /\ x.tls = conn[c].tls
      BY <2>1, <2>2, <1>2, <1>5, <1>7 DEF ConnType
    <3> QED
      BY <3>1, <3>2, <2>1 DEF Expects
  <2>3. ~Ended(conn[c]) /\ Silent
    BY <1>1, <1>10 DEF Silent, Ended
  <2> QED
    BY <2>1, <2>2, <2>3, <1>1, <1>3, <1>10, UnitTaken
<1> HIDE DEF u, x
<1> QED
  BY <1>1, <1>8, <1>9, <1>10

\* Handshakes keeps the invariant: nothing was sent before TLS but the CONNECT.
LEMMA HandshakesKeeps ==
  ASSUME TlsInv, NEW c \in Connections, Handshakes(c)
  PROVE  TlsInv'
<1> DEFINE r == conn[c]
           k == client[c]
           q == inbox[c]
           a == answers[c]
           x == [r EXCEPT !.pc = "line", !.tls = TRUE]
<1>1. /\ r.pc = "handshake" /\ Goes(c, x) /\ Silent /\ UNCHANGED cacheVars
  BY DEF Handshakes
<1>2. /\ r \in ConnType /\ k \in ClientType /\ q \in Seq(UnitType) /\ a \in Seq(AnswerType)
      /\ client = [client EXCEPT ![c] = k] /\ inbox = [inbox EXCEPT ![c] = q]
      /\ answers = [answers EXCEPT ![c] = a]
  BY Place
<1>3. /\ conn' = [conn EXCEPT ![c] = x] /\ client' = [client EXCEPT ![c] = k]
      /\ inbox' = [inbox EXCEPT ![c] = q] /\ answers' = [answers EXCEPT ![c] = a]
      /\ spilled' = spilled
  BY <1>1, <1>2 DEF Goes, Silent
<1>4. x \in ConnType /\ x.pc = "line" /\ x.tls = TRUE
  BY <1>1, <1>2 DEF ConnType
<1>5. CacheInv' /\ ~Ended(r)
  BY <1>1 DEF CacheInv, TlsInv, cacheVars, Ended
<1> HIDE DEF x
<1>6. ASSUME InStep(r, k, q, a) PROVE Framed(x, k, q, a, FALSE)
  <2> HIDE DEF r, k, q, a
  <2>1. q = <<>>
    <3>1. ASSUME q # <<>> PROVE FALSE
      <4>1. /\ Expects(r, Len(a), Head(q))
            /\ ~r.tls => Head(q).kind \notin {"line", "headers"}
        BY <3>1, <1>2, <1>6, FirstUnit
      <4> QED
        BY <4>1, <1>1 DEF Expects
    <3> QED
      BY <3>1
  <2>2. Expects(r, Len(a), Upcoming(k))
    BY <2>1, <1>2, <1>6, LastUnit
  <2>3. Expects(x, Len(a), Upcoming(k))
    BY <2>2, <1>1, <1>4 DEF Expects
  <2>4. Chained(x.tls, k, <<>>) /\ Sent(k, <<>>)[1] = Upcoming(k)
    BY <1>2, <1>4, NoUnit
  <2> QED
    BY <2>1, <2>3, <2>4, <1>6 DEF Framed, InStep
<1>7. ~CutOff(r, k, q, a)
  BY <1>1 DEF CutOff
<1> QED
  BY <1>1, <1>2, <1>3, <1>4, <1>5, <1>6, <1>7, Served

\* ReadsLine keeps the invariant.
LEMMA ReadsLineKeeps ==
  ASSUME TlsInv, NEW c \in Connections, ReadsLine(c)
  PROVE  TlsInv'
<1> DEFINE r == conn[c]
           u == Head(inbox[c])
           v == Sent(client[c], inbox[c])[2]
           x == [r EXCEPT !.pc = "headers", !.line = u.number, !.headers = 0, !.body = 0]
           y == [x EXCEPT !.pc = "process", !.headers = u.number]
<1>1. /\ r.pc = "line" /\ inbox[c] # <<>> /\ u.kind \in {"line", "body"}
      /\ Silent /\ UNCHANGED cacheVars
      /\ \/ Takes(c, x)
         \/ Closes(c)
         \/ u.kind = "body" /\ Takes(c, y)
  BY DEF ReadsLine, Meets
<1>2. /\ r \in ConnType /\ client[c] \in ClientType /\ inbox[c] \in Seq(UnitType)
  BY Place
<1>3. CacheInv' /\ ~Ended(r)
  BY <1>1 DEF CacheInv, TlsInv, cacheVars, Ended
<1>4. u \in UnitType /\ 0 \in Numbers /\ u.number \in Numbers
  <2>1. u \in UnitType
    BY <1>1, <1>2, HeadTailProperties
  <2> QED
    BY <2>1, TlsAssumption DEF UnitType, Numbers
<1>5. ASSUME InStep(r, client[c], inbox[c], answers[c])
      PROVE  /\ r.tls /\ u.kind = "line" /\ u.number = Len(answers[c]) + 1
             /\ v.kind = "headers" /\ v.number = u.number
  <2>1. /\ Expects(r, Len(answers[c]), u) /\ Leads(r.tls, u, v)
        /\ r.tls => ~(u.kind = "body" /\ u.form \in Spills)
    BY <1>1, <1>2, <1>5, FirstUnit
  <2>2. r.tls /\ u.kind = "line" /\ u.number = Len(answers[c]) + 1
    BY <2>1, <1>1 DEF Expects
  <2> QED
    BY <2>1, <2>2 DEF Leads
<1>6. /\ x \in ConnType /\ x.pc = "headers" /\ x.tls = r.tls
      /\ x.line = u.number /\ x.headers = 0 /\ x.body = 0
  BY <1>1, <1>2, <1>4 DEF ConnType
<1> HIDE DEF x
<1>7. y \in ConnType
  BY <1>4, <1>6 DEF ConnType
<1> HIDE DEF y
<1>8. CASE Takes(c, x)
  <2>1. ASSUME InStep(r, client[c], inbox[c], answers[c])
        PROVE  x.tls = r.tls /\ Expects(x, Len(answers[c]), v)
    BY <2>1, <1>5, <1>6 DEF Expects
  <2> QED
    BY <2>1, <1>1, <1>3, <1>6, <1>8, UnitTaken
<1>9. CASE Closes(c)
  BY <1>1, <1>3, <1>9, ClosesSilently
<1>10. CASE u.kind = "body" /\ Takes(c, y)
  <2>1. ~InStep(r, client[c], inbox[c], answers[c])
    BY <1>5, <1>10
  <2> QED
    BY <2>1, <1>1, <1>3, <1>7, <1>10, UnitTaken
<1> QED
  BY <1>1, <1>8, <1>9, <1>10

\* What a connection that reads headers has before it.
LEMMA HeadersNext ==
  ASSUME NEW r \in ConnType, NEW k \in ClientType, NEW q \in Seq(UnitType), NEW a,
         InStep(r, k, q, a), q # <<>>, r.pc = "headers"
  PROVE  /\ r.tls /\ r.line = Len(a) + 1 /\ r.body = 0
         /\ Head(q).kind = "headers" /\ Head(q).number = Len(a) + 1
         /\ IF Head(q).form \in WithBody
            THEN /\ Sent(k, q)[2].kind = "body" /\ Sent(k, q)[2].number = Len(a) + 1
                 /\ Sent(k, q)[2].form = Head(q).form
            ELSE Sent(k, q)[2].kind = "line" /\ Sent(k, q)[2].number = Len(a) + 1 + 1
<1> DEFINE v == Sent(k, q)[2]
<1>1. Expects(r, Len(a), Head(q)) /\ Leads(r.tls, Head(q), v)
  BY FirstUnit
<1> HIDE DEF v
<1>2. /\ r.tls /\ r.line = Len(a) + 1 /\ r.body = 0
      /\ Head(q).kind = "headers" /\ Head(q).number = Len(a) + 1
  BY <1>1 DEF Expects
<1>3. IF Head(q).form \in WithBody
      THEN v.kind = "body" /\ v.number = Len(a) + 1 /\ v.form = Head(q).form
      ELSE v.kind = "line" /\ v.number = Len(a) + 1 + 1
  BY <1>1, <1>2 DEF Leads, WithBody
<1> QED
  BY <1>2, <1>3 DEF v

\* ReadsHeaders keeps the invariant.
LEMMA ReadsHeadersKeeps ==
  ASSUME TlsInv, NEW c \in Connections, ReadsHeaders(c)
  PROVE  TlsInv'
<1> DEFINE r == conn[c]
           k == client[c]
           q == inbox[c]
           a == answers[c]
           u == Head(q)
           v == Sent(k, q)[2]
           x == [r EXCEPT !.headers = u.number]
<1>1. /\ r.pc = "headers" /\ q # <<>> /\ UNCHANGED <<cacheVars, spilled>>
      /\ \/ u.form = "large" /\ TooLarge(c, x)
         \/ u.kind = "line" /\ Takes(c, r) /\ UNCHANGED answers
         \/ Closes(c) /\ UNCHANGED answers
         \/ /\ u.form \in {"bare", "post", "chunked"}
            /\ Takes(c, [x EXCEPT !.pc = AfterHeaders(u.form)]) /\ UNCHANGED answers
  BY DEF ReadsHeaders, Meets
<1>2. /\ r \in ConnType /\ k \in ClientType /\ q \in Seq(UnitType) /\ a \in Seq(AnswerType)
      /\ client = [client EXCEPT ![c] = k]
  BY Place
<1>3. CacheInv'
  BY <1>1 DEF CacheInv, TlsInv, cacheVars
<1>4. u \in UnitType
  BY <1>1, <1>2, HeadTailProperties
<1>5. /\ x \in ConnType /\ x.line = r.line /\ x.headers = u.number /\ x.body = r.body
      /\ x.tls = r.tls /\ x.pc = "headers"
  BY <1>1, <1>2, <1>4 DEF ConnType, UnitType
<1>6. ASSUME InStep(r, k, q, a)
      PROVE  /\ r.tls /\ r.line = Len(a) + 1 /\ r.body = 0
             /\ u.kind = "headers" /\ u.number = Len(a) + 1
             /\ IF u.form \in WithBody
                THEN v.kind = "body" /\ v.number = Len(a) + 1 /\ v.form = u.form
                ELSE v.kind = "line" /\ v.number = Len(a) + 1 + 1
  BY <1>1, <1>2, <1>6, HeadersNext
<1>7. ~Ended(r) /\ (UNCHANGED answers => Silent) /\ Len(a) \in Nat
  BY <1>1, <1>2 DEF Silent, Ended
<1> HIDE DEF x
<1>8. CASE u.form = "large" /\ TooLarge(c, x)
  <2> DEFINE z == [x EXCEPT !.pc = "drain"]
             p == Tail(q)
  <2>1. z \in ConnType /\ z.pc = "drain" /\ z.tls = r.tls
    BY <1>5 DEF ConnType
  <2>2. PICK y \in AnswerType :
           /\ y.line = x.line /\ y.headers = x.headers /\ y.body = x.body
           /\ answers' = [answers EXCEPT ![c] = Append(a, y)]
           /\ Append(a, y) \in Seq(AnswerType)
    BY <1>5, <1>8, Written DEF TooLarge
  <2> DEFINE b == Append(a, y)
  <2>3. /\ conn' = [conn EXCEPT ![c] = z] /\ client' = [client EXCEPT ![c] = k]
        /\ inbox' = [inbox EXCEPT ![c] = p] /\ answers' = [answers EXCEPT ![c] = b]
        /\ spilled' = spilled
    BY <2>2, <1>1, <1>2, <1>8 DEF TooLarge, Takes
  <2>4. p \in Seq(UnitType)
    BY <1>1, <1>2, HeadTailProperties
  <2> HIDE DEF z
  <2>5. ASSUME InStep(r, k, q, a) PROVE Framed(z, k, p, b, FALSE)
    <3> HIDE DEF r, k, q, a, u, v
    <3>1. y.line = Len(a) + 1 /\ y.headers = Len(a) + 1 /\ y.body = 0
      BY <2>2, <2>5, <1>5, <1>6
    <3>2. Matched(b) /\ Len(b) = Len(a) + 1
      BY <3>1, <2>5, <1>2, OneMore DEF InStep
    <3>3. z.tls = r.tls /\ Expects(z, Len(b), v)
      BY <3>2, <2>1, <2>5, <1>6, <1>8 DEF Expects, WithBody, Spills
    <3> HIDE DEF b
    <3>4. InStep(z, k, Tail(q), b)
      BY <3>2, <3>3, <2>1, <2>5, <1>1, <1>2, Taking DEF v
    <3> QED
      BY <3>4 DEF Framed
  <2>6. ~CutOff(r, k, q, a)
    BY <1>1 DEF CutOff
  <2> HIDE DEF p, b
  <2>7. b \in Seq(AnswerType)
    BY <2>2 DEF b
  <2> QED
    BY <2>1, <2>3, <2>4, <2>5, <2>6, <2>7, <1>2, <1>3, <1>7, Served
<1>9. CASE u.kind = "line" /\ Takes(c, r) /\ UNCHANGED answers
  <2>1. ~InStep(r, k, q, a)
    BY <1>6, <1>9
  <2> QED
    BY <2>1, <1>1, <1>2, <1>3, <1>7, <1>9, UnitTaken
<1>10. CASE Closes(c) /\ UNCHANGED answers
  BY <1>3, <1>7, <1>10, ClosesSilently
<1>11. CASE /\ u.form \in {"bare", "post", "chunked"}
            /\ Takes(c, [x EXCEPT !.pc = AfterHeaders(u.form)]) /\ UNCHANGED answers
  <2> DEFINE z == [x EXCEPT !.pc = AfterHeaders(u.form)]
  <2>1. /\ z \in ConnType /\ z.tls = r.tls /\ z.line = r.line /\ z.headers = u.number
        /\ z.body = r.body
        /\ z.pc = IF u.form \in {"post", "large"} THEN "body" ELSE "process"
    BY <1>5 DEF AfterHeaders, ConnType
  <2>2. Takes(c, z)
    BY <1>11
  <2> HIDE DEF z
  <2>3. ASSUME InStep(r, k, q, a) PROVE z.tls = r.tls /\ Expects(z, Len(a), v)
    <3> HIDE DEF r, k, q, a, u, v
    <3>1. z.body = 0 /\ z.tls /\ z.line = Len(a) + 1 /\ z.headers = Len(a) + 1
      BY <2>1, <2>3, <1>6
    <3>2. Len(a) + 2 = Len(a) + 1 + 1
      BY <1>7
    <3>3. CASE u.form = "post"
      BY <3>1, <3>3, <2>1, <2>3, <1>6 DEF Expects, WithBody
    <3>4. CASE u.form = "bare"
      BY <3>1, <3>2, <3>4, <2>1, <2>3, <1>6 DEF Expects, WithBody
    <3>5. CASE u.form = "chunked"
      BY <3>1, <3>5, <2>1, <2>3, <1>6 DEF Expects, WithBody
    <3> QED
      BY <3>3, <3>4, <3>5, <1>11
  <2> QED
    BY <2>1, <2>2, <2>3, <1>1, <1>3, <1>7, <1>11, UnitTaken
<1> QED
  BY <1>1, <1>8, <1>9, <1>10, <1>11

\* ReadsBody keeps the invariant.
LEMMA ReadsBodyKeeps ==
  ASSUME TlsInv, NEW c \in Connections, ReadsBody(c)
  PROVE  TlsInv'
<1> DEFINE r == conn[c]
           u == Head(inbox[c])
           v == Sent(client[c], inbox[c])[2]
           m == Len(answers[c])
           x == [r EXCEPT !.pc = "process", !.body = u.number]
<1>1. /\ r.pc = "body" /\ inbox[c] # <<>> /\ Takes(c, x) /\ Silent /\ UNCHANGED cacheVars
  BY DEF ReadsBody, Meets
<1>2. /\ r \in ConnType /\ client[c] \in ClientType /\ inbox[c] \in Seq(UnitType)
      /\ answers[c] \in Seq(AnswerType)
  BY Place
<1>3. CacheInv' /\ ~Ended(r)
  BY <1>1 DEF CacheInv, TlsInv, cacheVars, Ended
<1>4. u \in UnitType
  BY <1>1, <1>2, HeadTailProperties
<1>5. /\ x \in ConnType /\ x.pc = "process" /\ x.tls = r.tls
      /\ x.line = r.line /\ x.headers = r.headers /\ x.body = u.number
  BY <1>1, <1>2, <1>4 DEF ConnType, UnitType
<1> HIDE DEF x
<1>6. ASSUME InStep(r, client[c], inbox[c], answers[c])
      PROVE  x.tls = r.tls /\ Expects(x, m, v)
  <2>1. Expects(r, m, u) /\ Leads(r.tls, u, v)
    BY <1>1, <1>2, <1>6, FirstUnit
  <2>2. m \in Nat
    BY <1>2
  <2> HIDE DEF r, u, v, m
  <2>3. /\ r.line = m + 1 /\ r.headers = m + 1 /\ (~r.tls => m = 0)
        /\ u.kind = "body" /\ u.number = m + 1
    BY <2>1, <1>1 DEF Expects
  <2>4. IF r.tls THEN v.kind = "line" /\ v.number = m + 2 ELSE v.kind = "nothing"
    BY <2>1, <2>2, <2>3 DEF Leads
  <2> QED
    BY <2>3, <2>4, <1>5 DEF Expects
<1> QED
  BY <1>1, <1>3, <1>5, <1>6, UnitTaken

\* ReadsEnd keeps the invariant: a client that has left within its headers is cut off.
LEMMA ReadsEndKeeps ==
  ASSUME TlsInv, NEW c \in Connections, ReadsEnd(c)
  PROVE  TlsInv'
<1> DEFINE r == conn[c]
           k == client[c]
           q == inbox[c]
           a == answers[c]
           x == [r EXCEPT !.pc = "process"]
<1>1. /\ r.pc \in {"hello", "line", "headers", "body"} /\ q = <<>> /\ k.gone
      /\ Silent /\ UNCHANGED cacheVars
      /\ \/ Closes(c)
         \/ r.pc = "headers" /\ Goes(c, x)
  BY DEF ReadsEnd, AtEnd
<1>2. /\ r \in ConnType /\ k \in ClientType /\ q \in Seq(UnitType) /\ a \in Seq(AnswerType)
      /\ client = [client EXCEPT ![c] = k] /\ inbox = [inbox EXCEPT ![c] = q]
      /\ answers = [answers EXCEPT ![c] = a]
  BY Place
<1>3. CacheInv'
  BY <1>1 DEF CacheInv, TlsInv, cacheVars
<1>4. ~Ended(r)
  BY <1>1 DEF Ended
<1>5. CASE Closes(c)
  BY <1>1, <1>3, <1>4, <1>5, ClosesSilently
<1>6. CASE r.pc = "headers" /\ Goes(c, x)
  <2>1. /\ conn' = [conn EXCEPT ![c] = x] /\ client' = [client EXCEPT ![c] = k]
        /\ inbox' = [inbox EXCEPT ![c] = q] /\ answers' = [answers EXCEPT ![c] = a]
        /\ spilled' = spilled
    BY <1>1, <1>2, <1>6 DEF Goes, Silent
  <2>2. /\ x \in ConnType /\ x.pc = "process" /\ x.line = r.line
        /\ x.headers = r.headers /\ x.body = r.body
    BY <1>2, <1>6 DEF ConnType
  <2> HIDE DEF x
  <2>3. ASSUME InStep(r, k, q, a) PROVE Framed(x, k, q, a, FALSE)
    <3>1. /\ r.line = Len(a) + 1 /\ r.headers = 0 /\ r.body = 0 /\ Matched(a)
      BY <2>3, <1>6 DEF InStep, Expects
    <3> QED
      BY <3>1, <2>2, <1>1 DEF Framed, CutOff
  <2>4. ~CutOff(r, k, q, a)
    BY <1>6 DEF CutOff
  <2> QED
    BY <2>1, <2>2, <2>3, <2>4, <1>2, <1>3, <1>4, Served
<1> QED
  BY <1>1, <1>5, <1>6

\* Responds keeps the invariant: the response is that of the request read.
LEMMA RespondsKeeps ==
  ASSUME TlsInv, NEW c \in Connections, Responds(c)
  PROVE  TlsInv'
<1> DEFINE r == conn[c]
           k == client[c]
           q == inbox[c]
           a == answers[c]
           x == [r EXCEPT !.pc = "drain"]
<1>1. /\ r.pc = "process" /\ Writes(c, 200, r) /\ UNCHANGED <<cacheVars, spilled>>
      /\ Goes(c, x)
  BY DEF Responds
<1>2. /\ r \in ConnType /\ k \in ClientType /\ q \in Seq(UnitType) /\ a \in Seq(AnswerType)
      /\ client = [client EXCEPT ![c] = k] /\ inbox = [inbox EXCEPT ![c] = q]
  BY Place
<1>3. CacheInv'
  BY <1>1 DEF CacheInv, TlsInv, cacheVars
<1>4. PICK y \in AnswerType :
           /\ y.line = r.line /\ y.headers = r.headers /\ y.body = r.body
           /\ answers' = [answers EXCEPT ![c] = Append(a, y)]
           /\ Append(a, y) \in Seq(AnswerType)
  <2> HIDE DEF r, k, q, x
  <2> QED
    BY <1>1, <1>2, Written
<1> DEFINE b == Append(a, y)
<1>5. ~Ended(r) /\ spilled' = spilled /\ Len(a) \in Nat
  BY <1>1, <1>2 DEF Ended
<1>6. ASSUME InStep(r, k, q, a)
      PROVE  /\ InOrder(b) /\ Matched(b) /\ Len(b) = Len(a) + 1
             /\ r.tls => \/ Sent(k, q)[1].kind = "line" /\ Sent(k, q)[1].number = Len(a) + 2
                         \/ /\ Sent(k, q)[1].kind = "body" /\ Sent(k, q)[1].form = "chunked"
                            /\ Sent(k, q)[1].number = Len(a) + 1
  <2> HIDE DEF r, k, q, a
  <2>1. /\ Matched(a) /\ r.line = Len(a) + 1 /\ r.headers = Len(a) + 1
        /\ r.body \in {0, Len(a) + 1}
        /\ r.tls => \/ Sent(k, q)[1].kind = "line" /\ Sent(k, q)[1].number = Len(a) + 2
                    \/ /\ Sent(k, q)[1].kind = "body" /\ Sent(k, q)[1].form = "chunked"
                       /\ Sent(k, q)[1].number = Len(a) + 1
    BY <1>1, <1>6 DEF InStep, Expects
  <2> QED
    BY <2>1, <1>2, <1>4, OneMore
<1>7. ASSUME CutOff(r, k, q, a)
      PROVE  InOrder(b) /\ q = <<>> /\ k.gone
  <2> HIDE DEF r, k, q, a
  <2>1. /\ Matched(a) /\ r.line = Len(a) + 1 /\ r.headers = 0 /\ r.body = 0
        /\ q = <<>> /\ k.gone
    BY <1>1, <1>7 DEF CutOff
  <2> QED
    BY <2>1, <1>2, <1>4, OneMore
<1> HIDE DEF b
<1>8. b \in Seq(AnswerType) /\ answers' = [answers EXCEPT ![c] = b]
  BY <1>4 DEF b
<1>9. /\ conn' = [conn EXCEPT ![c] = x] /\ client' = [client EXCEPT ![c] = k]
      /\ inbox' = [inbox EXCEPT ![c] = q]
  BY <1>1, <1>2 DEF Goes
<1>10. x \in ConnType /\ x.pc = "drain" /\ x.tls = r.tls
  BY <1>1, <1>2 DEF ConnType
<1> HIDE DEF x
<1>11. ASSUME InStep(r, k, q, a) PROVE Framed(x, k, q, b, FALSE)
  <2>1. CASE r.tls
    <3>1. Matched(b) /\ Len(b) = Len(a) + 1 /\ Expects(x, Len(b), Sent(k, q)[1])
      BY <2>1, <1>5, <1>6, <1>10, <1>11 DEF Expects, Spills
    <3>2. Chained(x.tls, k, q)
      BY <1>10, <1>11 DEF InStep
    <3> QED
      BY <3>1, <3>2 DEF Framed, InStep
  <2>2. CASE ~r.tls
    BY <2>2, <1>6, <1>10, <1>11 DEF Framed, Ended
  <2> QED
    BY <2>1, <2>2
<1>12. ASSUME CutOff(r, k, q, a) PROVE Framed(x, k, q, b, FALSE)
  BY <1>7, <1>10, <1>12 DEF Framed, CutOff
<1> QED
  BY <1>2, <1>3, <1>5, <1>8, <1>9, <1>10, <1>11, <1>12, Served

----------------------------------------------------------------------------
(* The theorems.                                                           *)

\* Before the first connection nothing is cached and every place is closed.
LEMMA InitEstablishes == Init => TlsInv
<1> SUFFICES ASSUME Init PROVE TlsInv
  OBVIOUS
<1>1. Len(<<>>) = 0 /\ CacheSize \in Nat
  BY TlsAssumption
<1>2. TypeOK
  BY <1>1, Blank DEF Init, TypeOK
<1>3. CacheInv
  BY <1>1 DEF Init, CacheInv, IsInjective
<1>4. \A c \in Connections : FramedAt(c)
  BY <1>1, Blank DEF Init, FramedAt, Framed, Ended, InOrder
<1> QED
  BY <1>2, <1>3, <1>4 DEF TlsInv

\* Every step keeps the invariant.
LEMMA NextKeeps == TlsInv /\ [Next]_vars => TlsInv'
<1> SUFFICES ASSUME TlsInv, [Next]_vars PROVE TlsInv'
  OBVIOUS
<1>1. CASE UNCHANGED vars
  <2>1. /\ conn' = conn /\ inbox' = inbox /\ answers' = answers /\ client' = client
        /\ cache' = cache /\ recent' = recent /\ spilled' = spilled
    BY <1>1 DEF vars, connVars, cacheVars
  <2>2. TypeOK'
    BY <2>1 DEF TlsInv, TypeOK
  <2>3. CacheInv'
    BY <2>1 DEF TlsInv, CacheInv
  <2>4. \A c \in Connections : FramedAt(c)'
    BY <2>1 DEF TlsInv, FramedAt
  <2> QED
    BY <2>2, <2>3, <2>4 DEF TlsInv
<1>2. ASSUME NEW c \in Connections, Client(c) PROVE TlsInv'
  BY <1>2, OpensKeeps, SendsConnectKeeps, SendsPlainKeeps, SendsLineKeeps, SendsHeadersKeeps,
     SendsBodyKeeps, StallsKeeps, LeavesKeeps DEF Client
<1>3. ASSUME NEW c \in Connections,
             HandshakeFails(c) \/ Raises(c) \/ TimesOut(c)
      PROVE  TlsInv'
  <2>1. Closes(c) /\ Silent /\ UNCHANGED cacheVars
    BY <1>3 DEF HandshakeFails, Raises, TimesOut
  <2>2. CacheInv'
    BY <2>1 DEF CacheInv, TlsInv, cacheVars
  <2> QED
    BY <2>1, <2>2, ClosesSilently
<1>4. ASSUME NEW c \in Connections, Serve(c) PROVE TlsInv'
  BY <1>3, <1>4, ConnectKeeps, PlainKeeps, HandshakesKeeps, ReadsLineKeeps, ReadsHeadersKeeps,
     ReadsBodyKeeps, ReadsEndKeeps, RespondsKeeps DEF Serve
<1>5. ASSUME NEW c \in Connections, Drains(c) PROVE TlsInv'
  BY <1>5, DrainsKeeps
<1> QED
  BY <1>1, <1>2, <1>3, <1>4, <1>5 DEF Next

\* TlsInv is an invariant of the transport.
THEOREM Invariance == Spec => []TlsInv
  BY InitEstablishes, NextKeeps, PTL DEF Spec

\* The type of every variable, and that the certificate cache is never over its size.
THEOREM TypeCorrect == Spec => []TypeOK
<1>1. TlsInv => TypeOK
  BY DEF TlsInv
<1> QED
  BY <1>1, Invariance, PTL

\* However many connections use certificates in whatever order, cached are those of
\* the names used last.
THEOREM Caching == Spec => []RecentHostsCached
<1>1. TlsInv => RecentHostsCached
  BY CacheIsRecent DEF TlsInv
<1> QED
  BY <1>1, Invariance, PTL

\* The i-th response of a connection that keeps to the framing answers the i-th
\* request, however many requests are pipelined or too large.
THEOREM Ordering == Spec => []AnsweredInOrder
<1>1. ASSUME TlsInv PROVE AnsweredInOrder
  <2>1. ASSUME NEW c \in Connections, ~spilled[c] PROVE InOrder(answers[c])
    <3>1. Framed(conn[c], client[c], inbox[c], answers[c], spilled[c])
      BY <1>1, Place
    <3> QED
      BY <3>1, <2>1 DEF Framed, InStep, CutOff, Matched, InOrder
  <2>2. \A c \in Connections : DOMAIN answers[c] = 1 .. Len(answers[c])
    BY <1>1 DEF TlsInv, TypeOK
  <2> QED
    BY <2>1, <2>2 DEF AnsweredInOrder, InOrder
<1>2. TlsInv => AnsweredInOrder
  BY <1>1
<1> QED
  BY <1>2, Invariance, PTL
=============================================================================
