------------------------ MODULE ScannerPipelineProofs ------------------------
(***************************************************************************)
(* Proofs about the scanner for every value of the constants: what a scan  *)
(* of either regex engine applies while the signatures are reloaded, which *)
(* model runs after a sync pass, what an undisturbed call is answered, and *)
(* what a stricter policy does.                                            *)
(***************************************************************************)
EXTENDS ScannerPipeline, SequenceLemmas

----------------------------------------------------------------------------
(* The engines with lists.                                                 *)

Valid == List!Patterns \ Invalid
ValidOf(v) == {p \in Valid : p.version = v}
PatternsOf(v) == [i \in 1 .. Size |-> [version |-> v, index |-> i]]

\* The list a reload to v has built after n patterns.
Built(v, n) == Selected(PatternsOf(v), Valid)[n]

\* The list grows by the patterns that compile, in order, up to the whole set.
LEMMA BuiltGrows ==
  ASSUME NEW v \in 1 .. MaxVersions
  PROVE  /\ Built(v, 0) = <<>>
         /\ List!Whole(v) = Built(v, Size)
         /\ \A n \in 0 .. Size : Built(v, n) \in Seq(ValidOf(v))
         /\ \A n \in 1 .. Size :
              LET p == [version |-> v, index |-> n]
              IN Built(v, n) = IF p \in Invalid THEN Built(v, n - 1)
                               ELSE Append(Built(v, n - 1), p)
<1> DEFINE s == PatternsOf(v)
           p(n) == [version |-> v, index |-> n]
<1>1. Size \in Nat /\ MaxVersions \in Nat
  BY EnginesAssumption DEF List!ListConstants
<1>2. s \in Seq(List!Patterns) /\ Len(s) = Size /\ \A n \in 1 .. Size : s[n] = p(n)
  BY <1>1 DEF PatternsOf, List!Patterns
<1>3. \A n \in 1 .. Size : p(n) \in List!Patterns /\ (p(n) \in Valid <=> p(n) \notin Invalid)
  BY <1>1 DEF Valid, List!Patterns
<1>4. List!Whole(v) = Built(v, Size)
  <2>1. List!Whole(v) = Selected(s, Valid)[Len(s)]
    BY Zenon DEF List!Whole, List!Select, List!Selected, Selected, PatternsOf, Valid
  <2> QED
    BY <2>1, <1>2 DEF Built
<1> DEFINE f == Selected(s, Valid)
<1>5. /\ f[0] = <<>>
      /\ \A n \in 1 .. Len(s) : f[n] = IF s[n] \in Valid THEN Append(f[n - 1], s[n]) ELSE f[n - 1]
  <2> HIDE DEF s
  <2> QED
    BY <1>2, SelectedStep
<1> HIDE DEF f, s
<1>6. \A n \in 1 .. Size : f[n] = IF p(n) \in Invalid THEN f[n - 1] ELSE Append(f[n - 1], p(n))
  BY <1>2, <1>3, <1>5
<1>7. ASSUME NEW m \in 0 .. Size, f[m] \notin Seq(ValidOf(v)) PROVE FALSE
  <2> DEFINE Bad == {n \in 0 .. Size : f[n] \notin Seq(ValidOf(v))}
  <2>1. Bad \in SUBSET Nat /\ Bad # {}
    BY <1>1, <1>7
  <2>2. PICK n \in Bad : \A j \in Bad : n <= j
    <3> HIDE DEF Bad
    <3> QED
      BY <2>1, LeastPosition
  <2>3. n \in 0 .. Size /\ f[n] \notin Seq(ValidOf(v))
    OBVIOUS
  <2>4. n # 0
    <3>1. <<>> \in Seq(ValidOf(v))
      OBVIOUS
    <3> QED
      BY <3>1, <2>3, <1>5
  <2>5. n \in 1 .. Size /\ n - 1 \in 0 .. Size /\ ~(n <= n - 1)
    BY <2>3, <2>4, <1>1
  <2>6. f[n - 1] \in Seq(ValidOf(v))
    BY <2>2, <2>5
  <2>7. p(n) \notin Invalid => p(n) \in ValidOf(v)
    BY <1>3, <2>5 DEF ValidOf
  <2> DEFINE a == f[n - 1]
             e == p(n)
             K == ValidOf(v)
  <2>8. a \in Seq(K) /\ (e \notin Invalid => e \in K)
        /\ f[n] = IF e \in Invalid THEN a ELSE Append(a, e)
    BY <1>6, <2>5, <2>6, <2>7
  <2> HIDE DEF a, e, K
  <2>9. f[n] \in Seq(K)
    BY <2>8, AppendProperties
  <2> QED
    BY <2>3, <2>9 DEF K
<1> QED
  BY <1>4, <1>5, <1>6, <1>7 DEF Built, f, s

ListScanType == [pc : {"ready", "iterating", "done"}, list : 1 .. Len(lists), applied : Seq(Valid)]

\* What a scan s has applied is the beginning of its list, in force at its beginning
\* or not (c = 0).  A list in force then is complete, and no reload works on it.
Iterates(s, c, l, b, lp) ==
  /\ Len(s.applied) <= Len(l[s.list])
  /\ \A i \in 1 .. Len(s.applied) : s.applied[i] = l[s.list][i]
  /\ s.pc # "ready" /\ c # 0 =>
       /\ l[s.list] = List!Whole(c)
       /\ lp # "idle" => s.list # b
       /\ s.pc = "done" => Len(s.applied) = Len(l[s.list])

\* Every list is of one set; the one bound is whole, or as far as the reload is.
ListInv ==
  /\ version \in 1 .. MaxVersions
  /\ loop \in {"idle", "cleared", "compiling"}
  /\ next \in 1 .. Size + 1
  /\ lists \in Seq(Seq(Valid))
  /\ bound \in 1 .. Len(lists)
  /\ \A k \in 1 .. Len(lists) : \E v \in 1 .. MaxVersions : lists[k] \in Seq(ValidOf(v))
  /\ loop = "idle" => lists[bound] = List!Whole(version)
  /\ loop = "cleared" => lists[bound] = <<>> /\ next = 1
  /\ loop = "compiling" => lists[bound] = Built(version, next - 1)
  /\ listScan \in [Threads -> ListScanType]
  /\ since \in [Threads -> 0 .. MaxVersions]
  /\ \A t \in Threads : Iterates(listScan[t], since[t], lists, bound, loop)

\* A longer list of lists keeps the scans going.
LEMMA IteratesOn ==
  ASSUME NEW l \in Seq(Seq(Valid)), NEW m \in Seq(Seq(Valid)), NEW b, NEW e, NEW lp, NEW lq,
         NEW c, NEW s \in [pc : {"ready", "iterating", "done"}, list : 1 .. Len(l),
                           applied : Seq(Valid)],
         Iterates(s, c, l, b, lp),
         Len(l) <= Len(m),
         \A k \in 1 .. Len(l) : /\ Len(l[k]) <= Len(m[k])
                                /\ \A i \in 1 .. Len(l[k]) : m[k][i] = l[k][i],
         \A k \in 1 .. Len(l) : lp = "idle" \/ k # b => m[k] = l[k],
         lq # "idle" => \A k \in 1 .. Len(l) : lp = "idle" \/ k # b => k # e
  PROVE  /\ s \in [pc : {"ready", "iterating", "done"}, list : 1 .. Len(m), applied : Seq(Valid)]
         /\ Iterates(s, c, m, e, lq)
<1> DEFINE k == s.list
<1>1. k \in 1 .. Len(l) /\ s.applied \in Seq(Valid) /\ Len(s.applied) \in Nat
  OBVIOUS
<1>2. Len(l) \in Nat /\ Len(m) \in Nat /\ k \in 1 .. Len(m)
  BY <1>1
<1>3. l[k] \in Seq(Valid) /\ m[k] \in Seq(Valid) /\ Len(l[k]) \in Nat /\ Len(m[k]) \in Nat
  BY <1>1, <1>2
<1>4. Len(s.applied) <= Len(m[k]) /\ \A i \in 1 .. Len(s.applied) : s.applied[i] = m[k][i]
  <2>1. Len(s.applied) <= Len(l[k]) /\ Len(l[k]) <= Len(m[k])
    BY <1>1 DEF Iterates
  <2>2. \A i \in 1 .. Len(s.applied) : i \in 1 .. Len(l[k])
    BY <1>1, <1>3, <2>1
  <2>3. Len(s.applied) <= Len(m[k])
    BY <2>1, <1>1, <1>3
  <2>4. ASSUME NEW i \in 1 .. Len(s.applied) PROVE s.applied[i] = m[k][i]
    <3>1. s.applied[i] = l[k][i]
      BY DEF Iterates
    <3>2. m[k][i] = l[k][i]
      BY <1>1, <2>2
    <3> QED
      BY <3>1, <3>2
  <2> QED
    BY <2>3, <2>4
<1>5. ASSUME s.pc # "ready", c # 0
      PROVE  /\ m[k] = List!Whole(c)
             /\ lq # "idle" => k # e
             /\ s.pc = "done" => Len(s.applied) = Len(m[k])
  BY <1>1, <1>5 DEF Iterates
<1> QED
  BY <1>2, <1>4, <1>5 DEF Iterates

\* The list built at boot is whole.
LEMMA InitList == List!Init => ListInv
<1> SUFFICES ASSUME List!Init PROVE ListInv
  OBVIOUS
<1> USE DEF List!Init, List!Ready
<1>1. Size \in Nat /\ MaxVersions \in Nat /\ 1 \in 1 .. MaxVersions
  BY EnginesAssumption DEF List!ListConstants
<1>2. List!Whole(1) \in Seq(ValidOf(1)) /\ List!Whole(1) \in Seq(Valid)
  <2>1. List!Whole(1) \in Seq(ValidOf(1))
    <3>1. Size \in 0 .. Size
      BY <1>1
    <3> QED
      BY <1>1, <3>1, BuiltGrows
  <2>2. ValidOf(1) \subseteq Valid
    BY DEF ValidOf
  <2> QED
    BY <2>1, <2>2
<1>3. lists \in Seq(Seq(Valid)) /\ Len(lists) = 1 /\ lists[1] = List!Whole(1)
  BY <1>2
<1>4. ASSUME NEW t \in Threads
      PROVE  listScan[t] \in ListScanType /\ Iterates(listScan[t], since[t], lists, bound, loop)
  <2>1. listScan[t] = [pc |-> "ready", list |-> 1, applied |-> <<>>]
    OBVIOUS
  <2>2. Len(lists[1]) \in Nat
    BY <1>2, <1>3
  <2> QED
    BY <1>3, <2>1, <2>2 DEF ListScanType, Iterates
<1>5. listScan \in [Threads -> ListScanType]
  BY <1>4
<1>6. next \in 1 .. Size + 1 /\ since \in [Threads -> 0 .. MaxVersions]
  BY <1>1
<1> QED
  BY <1>1, <1>2, <1>3, <1>4, <1>5, <1>6 DEF ListInv

\* What the reload does to the lists keeps the invariant, if the list bound is right.
LEMMA ReloadKeepsList ==
  ASSUME ListInv,
         version' \in 1 .. MaxVersions, loop' \in {"idle", "cleared", "compiling"},
         next' \in 1 .. Size + 1,
         lists' \in Seq(Seq(Valid)), bound' \in 1 .. Len(lists'),
         \A k \in 1 .. Len(lists') : \E v \in 1 .. MaxVersions : lists'[k] \in Seq(ValidOf(v)),
         loop' = "idle" => lists'[bound'] = List!Whole(version'),
         loop' = "cleared" => lists'[bound'] = <<>> /\ next' = 1,
         loop' = "compiling" => lists'[bound'] = Built(version', next' - 1),
         UNCHANGED <<listScan, since>>,
         Len(lists) <= Len(lists'),
         \A k \in 1 .. Len(lists) : /\ Len(lists[k]) <= Len(lists'[k])
                                    /\ \A i \in 1 .. Len(lists[k]) : lists'[k][i] = lists[k][i],
         \A k \in 1 .. Len(lists) : loop = "idle" \/ k # bound => lists'[k] = lists[k],
         loop' # "idle" => \A k \in 1 .. Len(lists) : loop = "idle" \/ k # bound => k # bound'
  PROVE  ListInv'
<1>1. lists \in Seq(Seq(Valid))
  BY DEF ListInv
<1>2. ASSUME NEW t \in Threads
      PROVE  /\ listScan[t] \in [pc : {"ready", "iterating", "done"}, list : 1 .. Len(lists'),
                                 applied : Seq(Valid)]
             /\ Iterates(listScan[t], since[t], lists', bound', loop')
  <2> DEFINE s == listScan[t]
             c == since[t]
  <2>1. s \in [pc : {"ready", "iterating", "done"}, list : 1 .. Len(lists), applied : Seq(Valid)]
        /\ Iterates(s, c, lists, bound, loop)
    BY DEF ListInv, ListScanType
  <2> HIDE DEF s, c
  <2>2. /\ s \in [pc : {"ready", "iterating", "done"}, list : 1 .. Len(lists'),
                  applied : Seq(Valid)]
        /\ Iterates(s, c, lists', bound', loop')
    BY <1>1, <2>1, IteratesOn
  <2> QED
    BY <2>2 DEF s, c
<1>3. (listScan \in [Threads -> ListScanType])'
  <2>1. listScan' = listScan /\ DOMAIN listScan = Threads
        /\ listScan = [t \in Threads |-> listScan[t]]
    BY DEF ListInv
  <2> QED
    BY <1>2, <2>1 DEF ListScanType
<1>4. \A t \in Threads : Iterates(listScan[t], since[t], lists, bound, loop)'
  BY <1>2 DEF Iterates
<1>5. since' \in [Threads -> 0 .. MaxVersions]
  BY DEF ListInv
<1> QED
  BY <1>3, <1>4, <1>5 DEF ListInv

\* A new list is bound.
LEMMA RebindKeepsList ==
  ASSUME ListInv, List!Rebind, version' \in 1 .. MaxVersions,
         loop' \in {"cleared", "compiling"}, next' = 1,
         UNCHANGED <<listScan, since>>
  PROVE  ListInv'
<1> DEFINE n == Len(lists)
<1>1. lists \in Seq(Seq(Valid)) /\ n \in Nat /\ <<>> \in Seq(Valid) /\ MaxVersions \in Nat
      /\ bound \in 1 .. n
  BY EnginesAssumption DEF ListInv, List!ListConstants
<1>2. /\ lists' = Append(lists, <<>>) /\ bound' = Len(lists')
      /\ lists' \in Seq(Seq(Valid)) /\ Len(lists') = n + 1 /\ lists'[n + 1] = <<>>
      /\ \A k \in 1 .. n : lists'[k] = lists[k]
  BY <1>1, AppendProperties DEF List!Rebind
<1>3. ASSUME NEW k \in 1 .. n + 1
      PROVE  \E v \in 1 .. MaxVersions : lists'[k] \in Seq(ValidOf(v))
  <2>1. CASE k = n + 1
    <3>1. lists'[k] \in Seq(ValidOf(1)) /\ 1 \in 1 .. MaxVersions
      BY <2>1, <1>2, EnginesAssumption DEF List!ListConstants
    <3> QED
      BY <3>1
  <2>2. CASE k # n + 1
    <3>1. n \in Nat /\ k \in 1 .. n + 1
      BY <1>1
    <3>2. k \in 1 .. n
      <4> HIDE DEF n
      <4> QED
        BY <3>1, <2>2
    <3> QED
      BY <3>2, <1>2 DEF ListInv
  <2> QED
    BY <2>1, <2>2
<1>4. bound' = n + 1 /\ lists'[bound'] = <<>> /\ bound' \in 1 .. Len(lists')
  BY <1>1, <1>2
<1>5. \A k \in 1 .. n : k # bound' /\ lists'[k] = lists[k] /\ Len(lists[k]) <= Len(lists'[k])
  <2>1. ASSUME NEW k \in 1 .. n PROVE Len(lists[k]) \in Nat /\ k # n + 1
    <3>1. lists[k] \in Seq(Valid)
      BY <1>1
    <3> QED
      BY <3>1, <1>1
  <2> QED
    BY <1>2, <1>4, <2>1
<1>6. lists'[bound'] = Built(version', next' - 1) /\ next' \in 1 .. Size + 1
  <2>1. 1 \in 1 .. Size + 1 /\ next' - 1 = 0
    BY EnginesAssumption DEF List!ListConstants
  <2> QED
    BY <1>4, <2>1, BuiltGrows
<1>7. n <= Len(lists') /\ Len(lists') = n + 1
  BY <1>1, <1>2
<1>8. \A k \in 1 .. Len(lists') : \E v \in 1 .. MaxVersions : lists'[k] \in Seq(ValidOf(v))
  BY <1>3, <1>7
<1> QED
  BY <1>2, <1>4, <1>5, <1>6, <1>7, <1>8, ReloadKeepsList

\* One more pattern.
LEMMA CompilesKeepsList == ListInv /\ List!Compiles => ListInv'
<1> SUFFICES ASSUME ListInv, List!Compiles PROVE ListInv'
  OBVIOUS
<1> DEFINE n == Len(lists)
           p == [version |-> version, index |-> next]
           old == lists[bound]
           new == Built(version, next)
<1>1. /\ lists \in Seq(Seq(Valid)) /\ n \in Nat /\ MaxVersions \in Nat /\ Size \in Nat
      /\ bound \in 1 .. n /\ next \in 1 .. Size /\ next + 1 \in 1 .. Size + 1
      /\ version \in 1 .. MaxVersions /\ loop = "compiling"
      /\ old = Built(version, next - 1)
  BY EnginesAssumption DEF ListInv, List!ListConstants, List!Compiles
<1>2. /\ next' = next + 1
      /\ UNCHANGED <<version, loop, bound, listScan, since>>
  BY DEF List!Compiles
<1>3. lists' = [lists EXCEPT ![bound] = new]
  <2>1. new = IF p \in Invalid THEN old ELSE Append(old, p)
    BY <1>1, BuiltGrows
  <2>2. lists' = IF p \in Invalid THEN lists ELSE [lists EXCEPT ![bound] = Append(old, p)]
    BY DEF List!Compiles
  <2>3. lists = [lists EXCEPT ![bound] = old]
    BY <1>1
  <2> HIDE DEF new, old, p
  <2> QED
    BY <2>1, <2>2, <2>3
<1>4. new \in Seq(ValidOf(version)) /\ new \in Seq(Valid)
  <2>1. new \in Seq(ValidOf(version))
    BY <1>1, BuiltGrows
  <2> QED
    BY <2>1 DEF ValidOf
<1>5. Len(old) <= Len(new) /\ \A i \in 1 .. Len(old) : new[i] = old[i]
  <2>1. old \in Seq(Valid)
    BY <1>1
  <2>2. new = old \/ (new = Append(old, p) /\ p \in Valid)
    <3>1. new = IF p \in Invalid THEN old ELSE Append(old, p)
      BY <1>1, BuiltGrows
    <3>2. p \in List!Patterns
      BY <1>1 DEF List!Patterns
    <3> QED
      BY <3>1, <3>2 DEF Valid
  <2> HIDE DEF new, old, p
  <2> QED
    BY <2>1, <2>2, AppendProperties
<1> HIDE DEF new
<1>6. /\ lists' \in Seq(Seq(Valid)) /\ Len(lists') = n /\ lists'[bound] = new
      /\ \A k \in 1 .. n : k # bound => lists'[k] = lists[k]
  BY <1>1, <1>3, <1>4
<1>7. ASSUME NEW k \in 1 .. n PROVE \E v \in 1 .. MaxVersions : lists'[k] \in Seq(ValidOf(v))
  BY <1>1, <1>4, <1>6 DEF ListInv
<1>8. ASSUME NEW k \in 1 .. n
      PROVE  Len(lists[k]) <= Len(lists'[k]) /\ \A i \in 1 .. Len(lists[k]) : lists'[k][i] = lists[k][i]
  <2>1. lists[k] \in Seq(Valid) /\ Len(lists[k]) \in Nat
    BY <1>1
  <2>2. CASE k = bound
    BY <2>2, <1>5, <1>6
  <2>3. CASE k # bound
    BY <2>1, <2>3, <1>6
  <2> QED
    BY <2>2, <2>3
<1>9. lists'[bound'] = Built(version', next' - 1)
  <2>1. next' - 1 = next
    BY <1>1, <1>2
  <2> QED
    BY <2>1, <1>2, <1>6 DEF new
<1>10. n <= Len(lists') /\ bound' \in 1 .. Len(lists') /\ next' \in 1 .. Size + 1
       /\ loop' = "compiling" /\ version' \in 1 .. MaxVersions
  BY <1>1, <1>2, <1>6
<1>11. \A k \in 1 .. Len(lists') : \E v \in 1 .. MaxVersions : lists'[k] \in Seq(ValidOf(v))
  BY <1>6, <1>7
<1>12. \A k \in 1 .. n : loop = "idle" \/ k # bound => lists'[k] = lists[k] /\ k # bound'
  BY <1>1, <1>2, <1>6
<1> QED
  BY <1>2, <1>6, <1>8, <1>9, <1>10, <1>11, <1>12, ReloadKeepsList

\* After its last pattern the list is whole.
LEMMA ReloadEndsKeepsList == ListInv /\ List!ReloadEnds => ListInv'
<1> SUFFICES ASSUME ListInv, List!ReloadEnds PROVE ListInv'
  OBVIOUS
<1>1. /\ loop = "compiling" /\ next > Size /\ loop' = "idle"
      /\ UNCHANGED <<version, next, lists, bound, listScan, since>>
  BY DEF List!ReloadEnds
<1>2. /\ lists \in Seq(Seq(Valid)) /\ Size \in Nat /\ next \in 1 .. Size + 1
      /\ version \in 1 .. MaxVersions
  BY EnginesAssumption DEF ListInv, List!ListConstants
<1>3. lists[bound] = List!Whole(version)
  <2>1. next - 1 = Size
    BY <1>1, <1>2
  <2>2. lists[bound] = Built(version, next - 1)
    BY <1>1 DEF ListInv
  <2> QED
    BY <2>1, <2>2, <1>2, BuiltGrows
<1>4. Len(lists) \in Nat
  BY <1>2
<1>5. ASSUME NEW k \in 1 .. Len(lists)
      PROVE Len(lists[k]) <= Len(lists'[k])
  <2>1. Len(lists[k]) \in Nat /\ lists'[k] = lists[k]
    BY <1>1, <1>2
  <2> QED
    BY <2>1
<1> QED
  BY <1>1, <1>3, <1>4, <1>5 DEF ListInv, Iterates, ListScanType

\* A step of the scan in thread t that leaves it within its list.
LEMMA ScanKeepsList ==
  ASSUME ListInv, NEW t \in Threads, NEW s \in ListScanType, NEW c \in 0 .. MaxVersions,
         listScan' = [listScan EXCEPT ![t] = s], since' = [since EXCEPT ![t] = c],
         Iterates(s, c, lists, bound, loop),
         UNCHANGED <<version, loop, next, lists, bound>>
  PROVE  ListInv'
<1>1. listScan' \in [Threads -> ListScanType] /\ since' \in [Threads -> 0 .. MaxVersions]
  BY DEF ListInv
<1>2. ASSUME NEW u \in Threads
      PROVE  Iterates(listScan'[u], since'[u], lists, bound, loop)
  <2>1. CASE u = t
    <3>1. listScan'[u] = s /\ since'[u] = c
      BY <2>1 DEF ListInv
    <3> QED
      BY <3>1
  <2>2. CASE u # t
    <3>1. listScan'[u] = listScan[u] /\ since'[u] = since[u]
      BY <2>2 DEF ListInv
    <3> QED
      BY <3>1 DEF ListInv
  <2> QED
    BY <2>1, <2>2
<1>3. \A u \in Threads : Iterates(listScan[u], since[u], lists, bound, loop)'
  BY <1>2 DEF Iterates
<1>4. (listScan \in [Threads -> ListScanType])'
  BY <1>1 DEF ListScanType
<1> QED
  BY <1>1, <1>3, <1>4 DEF ListInv

\* A scan begins with nothing applied of the list bound.
LEMMA ScanStartsKeepsList ==
  ASSUME ListInv, NEW t \in Threads, List!ScanStarts(t)
  PROVE  ListInv'
<1> DEFINE s == [pc |-> "iterating", list |-> bound, applied |-> <<>>]
           c == IF loop = "idle" THEN version ELSE 0
<1>1. /\ listScan' = [listScan EXCEPT ![t] = s] /\ since' = [since EXCEPT ![t] = c]
      /\ UNCHANGED <<version, loop, next, lists, bound>>
  BY DEF List!ScanStarts
<1>2. s \in ListScanType /\ c \in 0 .. MaxVersions
  BY EnginesAssumption DEF ListInv, ListScanType, List!ListConstants
<1>3. Iterates(s, c, lists, bound, loop)
  <2>1. lists[bound] \in Seq(Valid) /\ Len(lists[bound]) \in Nat
    BY DEF ListInv
  <2>2. c # 0 => loop = "idle" /\ c = version /\ lists[bound] = List!Whole(c)
    BY DEF ListInv
  <2> QED
    BY <2>1, <2>2 DEF Iterates
<1> HIDE DEF s, c
<1> QED
  BY <1>1, <1>2, <1>3, ScanKeepsList

\* It applies the next pattern, or has come to the end of its list.
LEMMA ScanGoesOnKeepsList ==
  ASSUME ListInv, NEW t \in Threads, List!ScanGoesOn(t)
  PROVE  ListInv'
<1> DEFINE r == listScan[t]
           c == since[t]
           l == lists[r.list]
           n == Len(r.applied)
           s == IF n < Len(l) THEN [r EXCEPT !.applied = Append(@, l[n + 1])]
                ELSE [r EXCEPT !.pc = "done"]
<1>1. /\ r \in ListScanType /\ c \in 0 .. MaxVersions /\ Iterates(r, c, lists, bound, loop)
      /\ r.pc = "iterating" /\ l \in Seq(Valid) /\ n \in Nat /\ Len(l) \in Nat
  <2>1. r \in ListScanType /\ c \in 0 .. MaxVersions /\ Iterates(r, c, lists, bound, loop)
    BY DEF ListInv
  <2>2. r.pc = "iterating"
    BY DEF List!ScanGoesOn
  <2>3. l \in Seq(Valid) /\ r.applied \in Seq(Valid)
    BY <2>1 DEF ListInv, ListScanType
  <2> QED
    BY <2>1, <2>2, <2>3
<1>2. /\ listScan' = [listScan EXCEPT ![t] = s]
      /\ UNCHANGED <<version, loop, next, lists, bound, since>>
  <2>1. listScan \in [Threads -> ListScanType]
    BY DEF ListInv
  <2>2. /\ listScan' = IF n < Len(l)
                       THEN [listScan EXCEPT ![t].applied = Append(@, l[n + 1])]
                       ELSE [listScan EXCEPT ![t].pc = "done"]
        /\ UNCHANGED <<version, loop, next, lists, bound, since>>
    BY DEF List!ScanGoesOn
  <2>3. [listScan EXCEPT ![t].applied = Append(@, l[n + 1])]
          = [listScan EXCEPT ![t] = [r EXCEPT !.applied = Append(@, l[n + 1])]]
    BY <2>1
  <2>4. [listScan EXCEPT ![t].pc = "done"] = [listScan EXCEPT ![t] = [r EXCEPT !.pc = "done"]]
    BY <2>1
  <2> QED
    BY <2>2, <2>3, <2>4
<1>3. s \in ListScanType /\ Iterates(s, c, lists, bound, loop)
  <2>1. CASE n < Len(l)
    <3> DEFINE a == Append(r.applied, l[n + 1])
    <3>1. l[n + 1] \in Valid /\ n + 1 \in 1 .. Len(l)
      <4>1. n + 1 \in 1 .. Len(l)
        <5> HIDE DEF n, l
        <5> QED
          BY <1>1, <2>1
      <4> HIDE DEF n, l
      <4> QED
        BY <4>1, <1>1
    <3>2. /\ a \in Seq(Valid) /\ Len(a) = n + 1 /\ a[n + 1] = l[n + 1]
          /\ \A i \in 1 .. n : a[i] = r.applied[i]
      BY <1>1, <3>1, AppendProperties DEF ListScanType
    <3>3. s = [r EXCEPT !.applied = a]
      BY <2>1
    <3>4. \A i \in 1 .. n : r.applied[i] = l[i]
      BY <1>1 DEF Iterates
    <3> HIDE DEF a, s
    <3>5. \A i \in 1 .. n + 1 : a[i] = l[i]
      <4>1. ASSUME NEW i \in 1 .. n + 1 PROVE a[i] = l[i]
        <5>1. i = n + 1 \/ i \in 1 .. n
          BY <1>1
        <5> QED
          BY <5>1, <3>2, <3>4
      <4> QED
        BY <4>1
    <3>6. s \in ListScanType /\ s.applied = a /\ s.pc = "iterating" /\ s.list = r.list
      BY <1>1, <3>2, <3>3 DEF ListScanType
    <3>7. n + 1 <= Len(l)
      BY <1>1, <2>1
    <3> QED
      BY <1>1, <3>2, <3>5, <3>6, <3>7 DEF Iterates
  <2>2. CASE ~(n < Len(l))
    <3>1. s = [r EXCEPT !.pc = "done"]
      BY <2>2
    <3>2. n = Len(l)
      BY <1>1, <2>2 DEF Iterates
    <3> HIDE DEF s
    <3>3. /\ s \in ListScanType /\ s.applied = r.applied /\ s.list = r.list
      BY <1>1, <3>1 DEF ListScanType
    <3> QED
      BY <1>1, <3>2, <3>3 DEF Iterates
  <2> QED
    BY <2>1, <2>2
<1>4. since' = [since EXCEPT ![t] = c]
  BY <1>2 DEF ListInv
<1> HIDE DEF s, c
<1> QED
  BY <1>1, <1>2, <1>3, <1>4, ScanKeepsList

\* It forgets its list.
LEMMA ScanReturnsKeepsList ==
  ASSUME ListInv, NEW t \in Threads, List!ScanReturns(t)
  PROVE  ListInv'
<1> DEFINE s == [pc |-> "ready", list |-> 1, applied |-> <<>>]
<1>1. /\ listScan' = [listScan EXCEPT ![t] = s] /\ since' = [since EXCEPT ![t] = 0]
      /\ UNCHANGED <<version, loop, next, lists, bound>>
  BY DEF List!ScanReturns, List!Ready
<1>2. 1 \in 1 .. Len(lists) /\ lists \in Seq(Seq(Valid))
  BY DEF ListInv
<1>3. Len(lists[1]) \in Nat
  BY <1>2
<1>4. s \in ListScanType /\ Iterates(s, 0, lists, bound, loop)
  BY <1>2, <1>3 DEF ListScanType, Iterates
<1>5. 0 \in 0 .. MaxVersions
  BY EnginesAssumption DEF List!ListConstants
<1> HIDE DEF s
<1> QED
  BY <1>1, <1>4, <1>5, ScanKeepsList

\* A reload binds a new list, which is empty.
LEMMA ReloadStartsKeepsList == ListInv /\ List!ReloadStarts => ListInv'
<1> SUFFICES ASSUME ListInv, List!ReloadStarts PROVE ListInv'
  OBVIOUS
<1>1. List!Rebind /\ loop' = "cleared" /\ UNCHANGED <<listScan, since>>
  BY DEF List!ReloadStarts
<1>2. version' \in 1 .. MaxVersions /\ next' = 1
  BY EnginesAssumption DEF ListInv, List!ListConstants, List!ReloadStarts
<1> QED
  BY <1>1, <1>2, RebindKeepsList

\* And another one to compile into.
LEMMA CompileStartsKeepsList == ListInv /\ List!CompileStarts => ListInv'
<1> SUFFICES ASSUME ListInv, List!CompileStarts PROVE ListInv'
  OBVIOUS
<1>1. List!Rebind /\ loop' = "compiling" /\ UNCHANGED <<listScan, since>>
  BY DEF List!CompileStarts
<1>2. version' \in 1 .. MaxVersions /\ next' = 1
  BY DEF ListInv, List!CompileStarts
<1> QED
  BY <1>1, <1>2, RebindKeepsList

\* What the invariant says of a scan.
LEMMA ListScans ==
  ASSUME ListInv
  PROVE  List!TypeOK /\ List!NoMixedVersions /\ List!SettledScansAreWhole
<1>1. lists \in Seq(Seq(Valid)) /\ DOMAIN lists = 1 .. Len(lists)
  BY DEF ListInv
<1>2. List!TypeOK
  BY <1>1 DEF ListInv, ListScanType, List!TypeOK, Valid
<1>3. List!NoMixedVersions
  <2> SUFFICES ASSUME NEW t \in Threads,
                      NEW i \in DOMAIN listScan[t].applied, NEW j \in DOMAIN listScan[t].applied
               PROVE  listScan[t].applied[i].version = listScan[t].applied[j].version
    BY DEF List!NoMixedVersions
  <2> DEFINE s == listScan[t]
             n == Len(s.applied)
             l == lists[s.list]
  <2>1. s \in ListScanType /\ n \in Nat /\ i \in 1 .. n /\ j \in 1 .. n
    <3>1. s \in ListScanType
      BY DEF ListInv
    <3>2. s.applied \in Seq(Valid)
      BY <3>1 DEF ListScanType
    <3>3. n \in Nat /\ DOMAIN s.applied = 1 .. n
      BY <3>2
    <3> QED
      BY <3>1, <3>3
  <2>2. n <= Len(l) /\ s.applied[i] = l[i] /\ s.applied[j] = l[j]
    BY <2>1 DEF ListInv, Iterates
  <2>3. PICK v \in 1 .. MaxVersions : l \in Seq(ValidOf(v))
    BY <2>1 DEF ListInv, ListScanType
  <2>4. i \in 1 .. Len(l) /\ j \in 1 .. Len(l)
    BY <2>1, <2>2, <2>3
  <2>5. l[i] \in ValidOf(v) /\ l[j] \in ValidOf(v)
    BY <2>3, <2>4
  <2> QED
    BY <2>2, <2>5 DEF ValidOf
<1>4. List!SettledScansAreWhole
  <2> SUFFICES ASSUME NEW t \in Threads, listScan[t].pc = "done", since[t] # 0
               PROVE  listScan[t].applied = List!Whole(since[t])
    BY DEF List!SettledScansAreWhole
  <2> DEFINE s == listScan[t]
             a == s.applied
             l == lists[s.list]
  <2>1. a \in Seq(Valid) /\ l \in Seq(Valid)
    BY <1>1 DEF ListInv, ListScanType
  <2>2. /\ \A i \in 1 .. Len(a) : a[i] = l[i]
        /\ l = List!Whole(since[t]) /\ Len(a) = Len(l)
    BY DEF ListInv, Iterates
  <2> HIDE DEF a, l
  <2>3. a = l
    BY <2>1, <2>2, SeqEqual
  <2> QED
    BY <2>2, <2>3 DEF a
<1> QED
  BY <1>2, <1>3, <1>4

----------------------------------------------------------------------------
(* Hyperscan's engine.                                                     *)

HyperScanType ==
  [pc : {"ready", "scratch", "identify", "allocate", "match", "fallback", "done"},
   db : Hyper!Versions \cup {None},
   map : Hyper!Versions,
   id : Hyper!Versions \cup {None},
   outcome : {"none", "matched", "skipped", "raised"}]

\* The map of a scan s is that of its database.
Scans(s) == s.pc # "ready" /\ s.db # None => s.map = s.db

\* A scratch space z kept under the id i of the database now, d, is for it, unless
\* that address was given away (r) since it was kept.
Owned(z, o, d, i, r) == d # None /\ z # None /\ o = i => z = d \/ r

\* A scan s that no reload has overlapped (c) is of the database now and has a
\* scratch space for it when it needs one, with the same exception.
Undisturbed(s, c, z, d, lp, r) ==
  c /\ s.pc # "ready" =>
    /\ lp = "idle" /\ s.db = d
    /\ s.db = None => s.pc \in {"fallback", "done"} /\ s.outcome = "none"
    /\ s.db # None =>
         /\ s.pc = "match" => z = d \/ r
         /\ s.pc \in {"fallback", "done"} =>
              \/ s.outcome = "matched" /\ z = d
              \/ s.outcome \in {"matched", "skipped"} /\ r

\* The database is that of the map, except before a reload has got to it.
HyperInv ==
  /\ version \in Hyper!Versions
  /\ loop \in {"idle", "mapped", "compiling"}
  /\ db \in Hyper!Versions \cup {None}
  /\ db # None => db <= version
  /\ compiled \in BOOLEAN
  /\ loop = "idle" /\ db # None => compiled /\ db = version
  /\ loop = "compiling" => db = version
  /\ map = version
  /\ addr \in [Hyper!Versions -> Hyper!Versions]
  /\ scratch \in [Threads -> Hyper!Versions \cup {None}]
  /\ owner \in [Threads -> Hyper!Versions \cup {None}]
  /\ hyperScan \in [Threads -> HyperScanType]
  /\ calm \in [Threads -> BOOLEAN]
  /\ recycled \subseteq Threads
  /\ \A t \in Threads : Scans(hyperScan[t])
  /\ \A t \in Threads : Owned(scratch[t], owner[t], db, Hyper!Id, t \in recycled)
  /\ \A t \in Threads :
       Undisturbed(hyperScan[t], calm[t], scratch[t], db, loop, t \in recycled)

\* The versions are numbers, and None is not.
LEMMA HyperConstants ==
  /\ MaxVersions \in Nat /\ 1 \in Hyper!Versions /\ None \notin Nat
  /\ Hyper!Versions \subseteq Nat /\ None \notin Hyper!Versions
  BY EnginesAssumption DEF Hyper!HyperscanConstants, Hyper!Versions

\* The database of the boot set is compiled.
LEMMA InitHyper == Hyper!Init => HyperInv
<1> SUFFICES ASSUME Hyper!Init PROVE HyperInv
  OBVIOUS
<1> USE DEF Hyper!Init, Hyper!Ready
<1>1. ASSUME NEW t \in Threads
      PROVE  /\ hyperScan[t] \in HyperScanType
             /\ Scans(hyperScan[t])
             /\ Owned(scratch[t], owner[t], db, Hyper!Id, t \in recycled)
             /\ Undisturbed(hyperScan[t], calm[t], scratch[t], db, loop, t \in recycled)
  <2>1. /\ hyperScan[t] = [pc |-> "ready", db |-> None, map |-> 1, id |-> None,
                           outcome |-> "none"]
        /\ scratch[t] = None
    OBVIOUS
  <2> QED
    BY <2>1, HyperConstants DEF HyperScanType, Scans, Owned, Undisturbed
<1>2. hyperScan \in [Threads -> HyperScanType]
  BY <1>1
<1>3. /\ scratch \in [Threads -> Hyper!Versions \cup {None}]
      /\ owner \in [Threads -> Hyper!Versions \cup {None}] /\ calm \in [Threads -> BOOLEAN]
      /\ addr \in [Hyper!Versions -> Hyper!Versions] /\ recycled \subseteq Threads
  OBVIOUS
<1>4. /\ version \in Hyper!Versions /\ db \in Hyper!Versions \cup {None} /\ db <= version
      /\ compiled \in BOOLEAN /\ db = version /\ map = version /\ loop = "idle"
  BY HyperConstants
<1> QED
  BY <1>1, <1>2, <1>3, <1>4 DEF HyperInv

\* A step of the reload.
LEMMA ReloadKeepsHyper ==
  ASSUME HyperInv, Hyper!Reload
  PROVE  HyperInv'
<1> USE HyperConstants
<1>1. /\ UNCHANGED <<scratch, owner, hyperScan>> /\ calm' = [t \in Threads |-> FALSE]
      /\ version' \in Hyper!Versions /\ map' = version'
      /\ loop' \in {"idle", "mapped", "compiling"}
      /\ db' \in Hyper!Versions \cup {None} /\ compiled' \in BOOLEAN
      /\ db' # None => db' <= version'
      /\ loop' = "idle" /\ db' # None => compiled' /\ db' = version'
      /\ loop' = "compiling" => db' = version'
  <2>1. CASE Hyper!ReloadStarts
    <3>1. version' = version + 1 /\ version + 1 \in Hyper!Versions
      BY <2>1 DEF Hyper!ReloadStarts, Hyper!Versions, HyperInv
    <3>2. version \in Nat /\ version <= version'
      BY <3>1 DEF HyperInv
    <3>3. db' = db /\ db \in Hyper!Versions \cup {None} /\ (db # None => db <= version)
          /\ loop' = "mapped" /\ map' = version' /\ compiled' = compiled /\ compiled \in BOOLEAN
          /\ UNCHANGED <<scratch, owner, hyperScan>> /\ calm' = [t \in Threads |-> FALSE]
      BY <2>1 DEF Hyper!ReloadStarts, Hyper!Disturb, HyperInv
    <3>4. db' # None => db' <= version'
      BY <3>1, <3>2, <3>3
    <3> QED
      BY <3>1, <3>3, <3>4
  <2>2. CASE Hyper!Rebinds \/ Hyper!Compiles
    <3>1. /\ version' = version /\ version \in Hyper!Versions /\ version <= version
          /\ map' = map /\ map = version
          /\ UNCHANGED <<scratch, owner, hyperScan>> /\ calm' = [t \in Threads |-> FALSE]
      BY <2>2 DEF Hyper!Rebinds, Hyper!Compiles, Hyper!Disturb, HyperInv
    <3>2. /\ loop' \in {"idle", "compiling"} /\ compiled' \in BOOLEAN
          /\ db' = None \/ db' = version
          /\ loop' = "idle" /\ db' # None => compiled'
          /\ loop' = "compiling" => db' = version'
      BY <2>2 DEF Hyper!Rebinds, Hyper!Compiles, HyperInv
    <3> QED
      BY <3>1, <3>2
  <2> QED
    BY <2>1, <2>2 DEF Hyper!Reload
<1>2. /\ addr' \in [Hyper!Versions -> Hyper!Versions] /\ recycled' \subseteq Threads
      /\ \A t \in Threads : Owned(scratch[t], owner[t], db', Hyper!Id', t \in recycled')
  <2>1. CASE Hyper!ReloadStarts \/ Hyper!Compiles
    <3>1. UNCHANGED <<addr, recycled>> /\ db' \in {db, None}
      BY <2>1 DEF Hyper!ReloadStarts, Hyper!Compiles
    <3> QED
      BY <3>1 DEF HyperInv, Owned, Hyper!Id
  <2>2. CASE Hyper!Rebinds /\ version \in Bare
    <3>1. UNCHANGED <<addr, recycled>> /\ db' = None
      BY <2>2 DEF Hyper!Rebinds
    <3> QED
      BY <3>1 DEF HyperInv, Owned
  <2>3. CASE Hyper!Rebinds /\ version \notin Bare
    <3>1. PICK a \in Hyper!Free(version) :
            /\ addr' = [addr EXCEPT ![version] = a] /\ db' = version
            /\ recycled' = recycled \cup {t \in Threads : owner[t] = a}
      BY <2>3 DEF Hyper!Rebinds
    <3>2. addr \in [Hyper!Versions -> Hyper!Versions] /\ version \in Hyper!Versions
      BY DEF HyperInv
    <3>3. a \in Hyper!Versions
      <4>1. \A w \in 1 .. version - 1 : w \in Hyper!Versions
        BY <3>2 DEF Hyper!Versions
      <4> QED
        BY <3>1, <3>2, <4>1 DEF Hyper!Free
    <3>4. Hyper!Id' = a
      BY <3>1, <3>2 DEF Hyper!Id
    <3>5. \A t \in Threads : owner[t] = a => t \in recycled'
      BY <3>1
    <3> QED
      BY <3>1, <3>2, <3>3, <3>4, <3>5 DEF HyperInv, Owned
  <2> QED
    BY <2>1, <2>2, <2>3 DEF Hyper!Reload
<1>3. \A t \in Threads : Scans(hyperScan[t])'
  BY <1>1 DEF HyperInv, Scans
<1>4. \A t \in Threads : Owned(scratch[t], owner[t], db, Hyper!Id, t \in recycled)'
  BY <1>1, <1>2 DEF Owned
<1>5. \A t \in Threads :
        Undisturbed(hyperScan[t], calm[t], scratch[t], db, loop, t \in recycled)'
  BY <1>1 DEF Undisturbed
<1>6. /\ (hyperScan \in [Threads -> HyperScanType])'
      /\ (scratch \in [Threads -> Hyper!Versions \cup {None}])'
      /\ (owner \in [Threads -> Hyper!Versions \cup {None}])'
      /\ (calm \in [Threads -> BOOLEAN])'
  BY <1>1 DEF HyperInv, HyperScanType, Hyper!Versions
<1>7. (version \in Hyper!Versions /\ db \in Hyper!Versions \cup {None}
       /\ addr \in [Hyper!Versions -> Hyper!Versions] /\ recycled \subseteq Threads)'
  BY <1>1, <1>2 DEF Hyper!Versions
<1> QED
  BY <1>1, <1>3, <1>4, <1>5, <1>6, <1>7 DEF HyperInv

\* A step of the scan in thread t.
LEMMA ScanKeepsHyper ==
  ASSUME HyperInv, NEW t \in Threads, NEW s \in HyperScanType, NEW c \in BOOLEAN,
         NEW z \in Hyper!Versions \cup {None}, NEW o \in Hyper!Versions \cup {None},
         NEW r \in BOOLEAN, recycled' = IF r THEN recycled ELSE recycled \ {t},
         t \in recycled' => r,
         hyperScan' = [hyperScan EXCEPT ![t] = s], calm' = [calm EXCEPT ![t] = c],
         scratch' = [scratch EXCEPT ![t] = z], owner' = [owner EXCEPT ![t] = o],
         Scans(s), Owned(z, o, db, Hyper!Id, t \in recycled'),
         Undisturbed(s, c, z, db, loop, t \in recycled'), Hyper!Shared
  PROVE  HyperInv'
<1>1. UNCHANGED <<version, loop, db, compiled, addr, map>> /\ Hyper!Id' = Hyper!Id
  BY DEF Hyper!Shared, Hyper!Id
<1>2. /\ hyperScan' \in [Threads -> HyperScanType] /\ calm' \in [Threads -> BOOLEAN]
      /\ scratch' \in [Threads -> Hyper!Versions \cup {None}]
      /\ owner' \in [Threads -> Hyper!Versions \cup {None}]
      /\ recycled' \subseteq Threads
  BY DEF HyperInv
<1>3. ASSUME NEW u \in Threads
      PROVE  /\ Scans(hyperScan'[u])
             /\ Owned(scratch'[u], owner'[u], db, Hyper!Id, u \in recycled')
             /\ Undisturbed(hyperScan'[u], calm'[u], scratch'[u], db, loop, u \in recycled')
  <2>1. CASE u = t
    <3>1. hyperScan'[u] = s /\ calm'[u] = c /\ scratch'[u] = z /\ owner'[u] = o
      BY <2>1 DEF HyperInv
    <3> QED
      BY <2>1, <3>1
  <2>2. CASE u # t
    <3>1. /\ hyperScan'[u] = hyperScan[u] /\ calm'[u] = calm[u]
          /\ scratch'[u] = scratch[u] /\ owner'[u] = owner[u]
          /\ (u \in recycled') = (u \in recycled)
      BY <2>2 DEF HyperInv
    <3> QED
      BY <3>1 DEF HyperInv
  <2> QED
    BY <2>1, <2>2
<1>4. /\ \A u \in Threads : Scans(hyperScan[u])'
      /\ \A u \in Threads : Owned(scratch[u], owner[u], db, Hyper!Id, u \in recycled)'
      /\ \A u \in Threads :
           Undisturbed(hyperScan[u], calm[u], scratch[u], db, loop, u \in recycled)'
  BY <1>1, <1>3 DEF Scans, Owned, Undisturbed
<1>5. /\ (hyperScan \in [Threads -> HyperScanType])' /\ (calm \in [Threads -> BOOLEAN])'
      /\ (scratch \in [Threads -> Hyper!Versions \cup {None}])'
      /\ (owner \in [Threads -> Hyper!Versions \cup {None}])'
  BY <1>2 DEF HyperScanType, Hyper!Versions
<1>6. (version \in Hyper!Versions /\ db \in Hyper!Versions \cup {None}
       /\ addr \in [Hyper!Versions -> Hyper!Versions] /\ recycled \subseteq Threads)'
  BY <1>1, <1>2 DEF HyperInv, Hyper!Versions
<1> QED
  BY <1>1, <1>4, <1>5, <1>6 DEF HyperInv

\* The same for a step that leaves the scratch space alone.
LEMMA PlainScanKeepsHyper ==
  ASSUME HyperInv, NEW t \in Threads, NEW s \in HyperScanType, NEW c \in BOOLEAN,
         UNCHANGED <<scratch, owner, recycled>>, Hyper!Shared,
         hyperScan' = [hyperScan EXCEPT ![t] = s], calm' = [calm EXCEPT ![t] = c],
         Scans(s), Undisturbed(s, c, scratch[t], db, loop, t \in recycled)
  PROVE  HyperInv'
<1> DEFINE z == scratch[t]
           o == owner[t]
           r == TRUE
<1>1. /\ z \in Hyper!Versions \cup {None} /\ o \in Hyper!Versions \cup {None}
      /\ scratch' = [scratch EXCEPT ![t] = z] /\ owner' = [owner EXCEPT ![t] = o]
      /\ Owned(z, o, db, Hyper!Id, t \in recycled)
  BY DEF HyperInv
<1>2. r \in BOOLEAN /\ recycled' = (IF r THEN recycled ELSE recycled \ {t})
      /\ (t \in recycled' => r)
  OBVIOUS
<1>3. /\ Owned(z, o, db, Hyper!Id, t \in recycled')
      /\ Undisturbed(s, c, z, db, loop, t \in recycled')
  BY <1>1
<1> HIDE DEF z, o, r
<1> QED
  BY <1>1, <1>2, <1>3, ScanKeepsHyper, ZenonT(60)

\* A snapshot is of the database now.
LEMMA SnapshotsKeepsHyper ==
  ASSUME HyperInv, NEW t \in Threads, Hyper!Snapshots(t)
  PROVE  HyperInv'
<1> DEFINE s == [Hyper!Ready EXCEPT !.db = db, !.map = map,
                                     !.pc = IF db = None THEN "fallback" ELSE "scratch"]
           c == TRUE
<1>1. /\ hyperScan' = [hyperScan EXCEPT ![t] = s] /\ calm' = [calm EXCEPT ![t] = c]
      /\ UNCHANGED <<scratch, owner, recycled>> /\ Hyper!Shared /\ loop = "idle"
  BY DEF Hyper!Snapshots, Hyper!Goes
<1>2. s \in HyperScanType /\ s.id = None /\ s.db = db /\ s.map = map /\ s.outcome = "none"
      /\ s.pc = IF db = None THEN "fallback" ELSE "scratch"
  BY DEF HyperInv, HyperScanType, Hyper!Ready
<1>3. db # None => map = db
  BY <1>1 DEF HyperInv
<1> HIDE DEF s
<1>4. Scans(s)
  BY <1>2, <1>3 DEF Scans
<1>5. Undisturbed(s, c, scratch[t], db, loop, t \in recycled)
  BY <1>1, <1>2 DEF Undisturbed
<1>6. c \in BOOLEAN
  OBVIOUS
<1> HIDE DEF c
<1> QED
  BY <1>1, <1>2, <1>4, <1>5, <1>6, PlainScanKeepsHyper

\* The steps between the snapshot and the return.
LEMMA GoesOnKeepsHyper ==
  ASSUME HyperInv, NEW t \in Threads, Hyper!GoesOn(t)
  PROVE  HyperInv'
<1> DEFINE r == hyperScan[t]
           c == calm[t]
           z == scratch[t]
           o == owner[t]
           q == t \in recycled
<1>1. /\ r \in HyperScanType /\ c \in BOOLEAN
      /\ z \in Hyper!Versions \cup {None} /\ o \in Hyper!Versions \cup {None}
      /\ Scans(r) /\ Owned(z, o, db, Hyper!Id, q) /\ Undisturbed(r, c, z, db, loop, q)
  BY DEF HyperInv
<1>2. /\ db \in Hyper!Versions \cup {None}
      /\ (loop = "idle" /\ db # None => compiled)
      /\ Hyper!Id \in Hyper!Versions \cup {None}
      /\ hyperScan \in [Threads -> HyperScanType]
  BY DEF HyperInv, Hyper!Id
<1>3. UNCHANGED calm => calm' = [calm EXCEPT ![t] = c]
  BY DEF HyperInv
<1>4. ASSUME NEW s \in HyperScanType, hyperScan' = [hyperScan EXCEPT ![t] = s],
             Hyper!Shared, UNCHANGED <<scratch, owner, calm, recycled>>,
             Scans(s), Undisturbed(s, c, z, db, loop, q)
      PROVE  HyperInv'
  <2>1. calm' = [calm EXCEPT ![t] = c]
    BY <1>3, <1>4
  <2> HIDE DEF c
  <2> QED
    BY <1>1, <1>4, <2>1, PlainScanKeepsHyper DEF z, q
<1> HIDE DEF c, z, o, q
<1>5. CASE Hyper!LooksAtDb(t)
  <2> DEFINE s == IF db = None THEN [r EXCEPT !.pc = "fallback", !.outcome = "skipped"]
                  ELSE [r EXCEPT !.pc = "identify"]
  <2>1. /\ r.pc = "scratch" /\ hyperScan' = [hyperScan EXCEPT ![t] = s]
        /\ Hyper!Shared /\ UNCHANGED <<scratch, owner, calm, recycled>>
    BY <1>5 DEF Hyper!LooksAtDb, Hyper!Goes
  <2>2. /\ s \in HyperScanType /\ s.db = r.db /\ s.map = r.map
        /\ s.pc = (IF db = None THEN "fallback" ELSE "identify")
    BY <1>1 DEF HyperScanType
  <2> HIDE DEF s, r
  <2>3. Scans(s)
    BY <1>1, <2>1, <2>2 DEF Scans
  <2>4. Undisturbed(s, c, z, db, loop, q)
    BY <1>1, <2>1, <2>2 DEF Undisturbed
  <2> QED
    BY <1>4, <2>1, <2>2, <2>3, <2>4
<1>6. CASE Hyper!Identifies(t)
  <2> DEFINE i == Hyper!Id
             s == [r EXCEPT !.id = i,
                     !.pc = IF z = None \/ o # i THEN "allocate" ELSE "match"]
  <2>1. /\ r.pc = "identify" /\ hyperScan' = [hyperScan EXCEPT ![t] = s]
        /\ Hyper!Shared /\ UNCHANGED <<scratch, owner, calm, recycled>>
    BY <1>6 DEF Hyper!Identifies, Hyper!Goes, z, o
  <2>2. i \in Hyper!Versions \cup {None} /\ Owned(z, o, db, i, q)
    BY <1>1, <1>2
  <2> HIDE DEF i
  <2>3. /\ s \in HyperScanType /\ s.db = r.db /\ s.map = r.map
        /\ s.pc = (IF z = None \/ o # i THEN "allocate" ELSE "match")
    BY <1>1, <2>2 DEF HyperScanType
  <2> HIDE DEF s, r
  <2>4. Scans(s)
    BY <1>1, <2>1, <2>3 DEF Scans
  <2>5. Undisturbed(s, c, z, db, loop, q)
    <3>1. c => loop = "idle" /\ r.db = db /\ db # None
      BY <1>1, <2>1 DEF Undisturbed
    <3> QED
      BY <2>2, <2>3, <3>1 DEF Undisturbed, Owned
  <2> QED
    BY <1>4, <2>1, <2>3, <2>4, <2>5
<1>7. CASE Hyper!Allocates(t) /\ db # None /\ compiled
  <2> DEFINE s == [r EXCEPT !.pc = "match"]
             d == r.id
             e == FALSE
  <2>1. /\ r.pc = "allocate" /\ hyperScan' = [hyperScan EXCEPT ![t] = s]
        /\ scratch' = [scratch EXCEPT ![t] = db] /\ owner' = [owner EXCEPT ![t] = d]
        /\ recycled' = recycled \ {t} /\ Hyper!Shared /\ UNCHANGED calm
    BY <1>7 DEF Hyper!Allocates, Hyper!Goes
  <2>2. /\ s \in HyperScanType /\ s.db = r.db /\ s.map = r.map
        /\ s.pc = "match" /\ d \in Hyper!Versions \cup {None}
    BY <1>1 DEF HyperScanType
  <2> HIDE DEF s, d
  <2>3. Scans(s) /\ Owned(db, d, db, Hyper!Id, t \in recycled')
    BY <1>1, <2>1, <2>2 DEF Scans, Owned
  <2>4. Undisturbed(s, c, db, db, loop, t \in recycled')
    BY <1>1, <1>7, <2>1, <2>2 DEF Undisturbed
  <2>5. /\ calm' = [calm EXCEPT ![t] = c] /\ db \in Hyper!Versions \cup {None}
        /\ e \in BOOLEAN /\ recycled' = (IF e THEN recycled ELSE recycled \ {t})
        /\ (t \in recycled' => e)
    BY <1>2, <1>3, <2>1
  <2> HIDE DEF e, r
  <2> QED
    BY <1>1, <2>1, <2>2, <2>3, <2>4, <2>5, ScanKeepsHyper
<1>8. CASE Hyper!Allocates(t) /\ ~(db # None /\ compiled)
  <2> DEFINE f == [r EXCEPT !.pc = "fallback", !.outcome = "skipped"]
             e == [r EXCEPT !.pc = "done", !.outcome = "raised"]
  <2>1. /\ r.pc = "allocate" /\ Hyper!Shared /\ UNCHANGED <<calm, scratch, owner, recycled>>
        /\ hyperScan' = [hyperScan EXCEPT ![t] = f] \/ hyperScan' = [hyperScan EXCEPT ![t] = e]
    BY <1>8 DEF Hyper!Allocates, Hyper!Goes
  <2>2. /\ f \in HyperScanType /\ f.db = r.db /\ f.map = r.map /\ f.pc = "fallback"
        /\ e \in HyperScanType /\ e.db = r.db /\ e.map = r.map /\ e.pc = "done"
    BY <1>1 DEF HyperScanType
  <2>3. ~c
    BY <1>1, <1>2, <1>8, <2>1 DEF Undisturbed
  <2> HIDE DEF f, e, r
  <2>4. ASSUME NEW s \in {e, f} PROVE Scans(s) /\ Undisturbed(s, c, z, db, loop, q)
    BY <1>1, <2>1, <2>2, <2>3 DEF Scans, Undisturbed
  <2> QED
    BY <1>4, <2>1, <2>2, <2>4
<1>9. CASE Hyper!Matches(t)
  <2> DEFINE f == [r EXCEPT !.pc = "fallback", !.outcome = "matched"]
             e == [r EXCEPT !.pc = "fallback", !.outcome = "skipped"]
  <2>1. /\ r.pc = "match" /\ Hyper!Shared /\ UNCHANGED <<calm, scratch, owner, recycled>>
        /\ \/ hyperScan' = [hyperScan EXCEPT ![t] = f]
           \/ z # r.db /\ hyperScan' = [hyperScan EXCEPT ![t] = e]
    BY <1>9 DEF Hyper!Matches, Hyper!Goes, z
  <2>2. /\ f \in HyperScanType /\ f.db = r.db /\ f.map = r.map
        /\ f.pc = "fallback" /\ f.outcome = "matched"
        /\ e \in HyperScanType /\ e.db = r.db /\ e.map = r.map
        /\ e.pc = "fallback" /\ e.outcome = "skipped"
    BY <1>1 DEF HyperScanType
  <2>3. c => (z = r.db \/ q) /\ r.db # None /\ r.db = db /\ loop = "idle"
    BY <1>1, <2>1 DEF Undisturbed
  <2> HIDE DEF f, e, r
  <2>4. Scans(f) /\ Scans(e)
    BY <1>1, <2>1, <2>2 DEF Scans
  <2>5. Undisturbed(f, c, z, db, loop, q) /\ (z # r.db => Undisturbed(e, c, z, db, loop, q))
    BY <2>2, <2>3 DEF Undisturbed
  <2> QED
    BY <1>4, <2>1, <2>2, <2>4, <2>5
<1>10. CASE Hyper!ScansFallback(t)
  <2> DEFINE s == [r EXCEPT !.pc = "done"]
  <2>1. /\ r.pc = "fallback" /\ hyperScan' = [hyperScan EXCEPT ![t] = s]
        /\ Hyper!Shared /\ UNCHANGED <<scratch, owner, calm, recycled>>
    BY <1>10 DEF Hyper!ScansFallback, Hyper!Goes
  <2>2. /\ s \in HyperScanType /\ s.db = r.db /\ s.map = r.map
        /\ s.pc = "done" /\ s.outcome = r.outcome
    BY <1>1 DEF HyperScanType
  <2> HIDE DEF s, r
  <2>3. Scans(s)
    BY <1>1, <2>1, <2>2 DEF Scans
  <2>4. Undisturbed(s, c, z, db, loop, q)
    BY <1>1, <2>1, <2>2 DEF Undisturbed
  <2> QED
    BY <1>4, <2>1, <2>2, <2>3, <2>4
<1> QED
  BY <1>5, <1>6, <1>7, <1>8, <1>9, <1>10 DEF Hyper!GoesOn

\* A scan that returns forgets its snapshot.
LEMMA ReturnsKeepsHyper ==
  ASSUME HyperInv, NEW t \in Threads, Hyper!Returns(t)
  PROVE  HyperInv'
<1> DEFINE s == Hyper!Ready
           c == TRUE
<1>1. /\ hyperScan' = [hyperScan EXCEPT ![t] = s] /\ calm' = [calm EXCEPT ![t] = c]
      /\ UNCHANGED <<scratch, owner, recycled>> /\ Hyper!Shared
  BY DEF Hyper!Returns, Hyper!Goes
<1>2. s \in HyperScanType /\ s.pc = "ready" /\ c \in BOOLEAN
  BY HyperConstants DEF Hyper!Ready, HyperScanType
<1> HIDE DEF s, c
<1>3. Scans(s) /\ Undisturbed(s, c, scratch[t], db, loop, t \in recycled)
  BY <1>2 DEF Scans, Undisturbed
<1> QED
  BY <1>1, <1>2, <1>3, PlainScanKeepsHyper

\* What the invariant says of a scan.
LEMMA HyperScans ==
  ASSUME HyperInv
  PROVE  Hyper!TypeOK /\ Hyper!SnapshotsAgree /\ Hyper!CalmScansAreWhole
<1>1. Hyper!TypeOK
  BY DEF HyperInv, HyperScanType, Hyper!TypeOK
<1>2. Hyper!SnapshotsAgree
  BY DEF HyperInv, Scans, Hyper!SnapshotsAgree
<1>3. Hyper!CalmScansAreWhole
  BY DEF HyperInv, Undisturbed, Hyper!CalmScansAreWhole
<1> QED
  BY <1>1, <1>2, <1>3

----------------------------------------------------------------------------
(* Either engine.                                                          *)

\* The engine that was not chosen, or is never used, is as it was at boot.
ListAsleep == \A t \in Threads : listScan[t] = List!Ready
HyperAsleep == \A t \in Threads : hyperScan[t] = Hyper!Ready

RegexInv ==
  /\ engine \in Engines
  /\ IF ByHyperscan THEN HyperInv /\ ListAsleep ELSE ListInv /\ HyperAsleep

\* Either engine starts right.
LEMMA InitRegex == EngineCreated => RegexInv
<1> SUFFICES ASSUME EngineCreated PROVE RegexInv
  OBVIOUS
<1>1. ListInv /\ HyperInv /\ engine \in Engines
  BY InitList, InitHyper DEF EngineCreated
<1>2. ListAsleep /\ HyperAsleep
  BY DEF EngineCreated, List!Init, Hyper!Init, ListAsleep, HyperAsleep
<1> QED
  BY <1>1, <1>2 DEF RegexInv

\* A step of the engine chosen keeps its invariant; the other does not move.
LEMMA EitherKeeps ==
  ASSUME RegexInv, engine' = engine,
         ByHyperscan => HyperInv' /\ UNCHANGED listVars,
         ~ByHyperscan => ListInv' /\ UNCHANGED hyperVars
  PROVE  RegexInv'
<1>1. ByHyperscan' = ByHyperscan
  BY DEF ByHyperscan
<1>2. ByHyperscan => ListAsleep'
  BY DEF RegexInv, ListAsleep, listVars, List!Ready
<1>3. ~ByHyperscan => HyperAsleep'
  BY DEF RegexInv, HyperAsleep, hyperVars, Hyper!Ready
<1> QED
  BY <1>1, <1>2, <1>3 DEF RegexInv

\* A step of a reload keeps the invariant of the engine.
LEMMA RegexReloadKeeps ==
  ASSUME RegexInv, RegexReloadStarts \/ RegexReloadGoesOn
  PROVE  RegexInv'
<1>1. CASE ByHyperscan
  <2>1. HyperInv /\ Hyper!Reload /\ engine' = engine /\ UNCHANGED listVars
    BY <1>1 DEF RegexInv, RegexReloadStarts, RegexReloadGoesOn, Either, Hyper!Reload
  <2>2. HyperInv'
    BY <2>1, ReloadKeepsHyper
  <2> QED
    BY <1>1, <2>1, <2>2, EitherKeeps
<1>2. CASE ~ByHyperscan
  <2>1. /\ ListInv /\ engine' = engine /\ UNCHANGED hyperVars
        /\ List!ReloadStarts \/ List!CompileStarts \/ List!Compiles \/ List!ReloadEnds
    BY <1>2 DEF RegexInv, RegexReloadStarts, RegexReloadGoesOn, Either
  <2>2. ListInv'
    BY <2>1, ReloadStartsKeepsList, CompileStartsKeepsList, CompilesKeepsList,
       ReloadEndsKeepsList
  <2> QED
    BY <1>2, <2>1, <2>2, EitherKeeps
<1> QED
  BY <1>1, <1>2

\* So does a step of a scan.
LEMMA RegexScanKeeps ==
  ASSUME RegexInv, NEW t \in Threads,
         RegexScanStarts(t) \/ RegexScanGoesOn(t) \/ RegexScanReturns(t)
  PROVE  RegexInv'
<1>1. CASE ByHyperscan
  <2>1. /\ HyperInv /\ engine' = engine /\ UNCHANGED listVars
        /\ Hyper!Snapshots(t) \/ Hyper!GoesOn(t) \/ Hyper!Returns(t)
    BY <1>1 DEF RegexInv, RegexScanStarts, RegexScanGoesOn, RegexScanReturns, Either
  <2>2. HyperInv'
    BY <2>1, SnapshotsKeepsHyper, GoesOnKeepsHyper, ReturnsKeepsHyper
  <2> QED
    BY <1>1, <2>1, <2>2, EitherKeeps
<1>2. CASE ~ByHyperscan
  <2>1. /\ ListInv /\ engine' = engine /\ UNCHANGED hyperVars
        /\ List!ScanStarts(t) \/ List!ScanGoesOn(t) \/ List!ScanReturns(t)
    BY <1>2 DEF RegexInv, RegexScanStarts, RegexScanGoesOn, RegexScanReturns, Either
  <2>2. ListInv'
    BY <2>1, ScanStartsKeepsList, ScanGoesOnKeepsList, ScanReturnsKeepsList
  <2> QED
    BY <1>2, <2>1, <2>2, EitherKeeps
<1> QED
  BY <1>1, <1>2

\* An engine that is asleep has no scan to ask about.
LEMMA AsleepIsFine ==
  /\ ListAsleep => List!NoMixedVersions /\ List!SettledScansAreWhole
  /\ HyperAsleep => Hyper!SnapshotsAgree /\ Hyper!CalmScansAreWhole
<1>1. ASSUME ListAsleep, NEW t \in Threads
      PROVE  listScan[t].pc = "ready" /\ DOMAIN listScan[t].applied = {}
  BY <1>1 DEF ListAsleep, List!Ready
<1>2. ASSUME HyperAsleep, NEW t \in Threads
      PROVE  hyperScan[t].pc = "ready"
  BY <1>2 DEF HyperAsleep, Hyper!Ready
<1> QED
  BY <1>1, <1>2 DEF List!NoMixedVersions, List!SettledScansAreWhole,
                    Hyper!SnapshotsAgree, Hyper!CalmScansAreWhole

----------------------------------------------------------------------------
(* The best of the findings.                                               *)

\* b may be the best of the findings D.
BestIn(b, D) == b \in IF D = {} THEN {None} ELSE Strongest(D)

\* The actions are ordered.
LEMMA Priorities == \A a \in Actions : Priority[a] \in Nat
  BY DEF Actions, Priority

\* One more finding is compared with the best so far.
LEMMA BestStep ==
  ASSUME NEW D \in SUBSET Findings, NEW b, NEW f \in Findings, BestIn(b, D)
  PROVE  BestIn(Best(b, f), D \cup {f}) /\ Best(b, f) \in Findings
<1>1. None \notin Findings
  BY ScannerAssumption
<1>2. \A g \in Findings : Priority[g.action] \in Int /\ g.confidence \in Int
  BY Priorities DEF Findings, Percent
<1>3. CASE D = {}
  <2>1. b = None
    BY <1>3 DEF BestIn
  <2>2. Best(b, f) = f
    BY <2>1 DEF Best, Beats
  <2>3. f \in Strongest(D \cup {f})
    BY <1>2, <1>3 DEF Strongest
  <2> QED
    BY <2>2, <2>3 DEF BestIn
<1>4. CASE D # {}
  <2>1. b \in Strongest(D)
    BY <1>4 DEF BestIn
  <2>2. b \in D /\ b \in Findings /\ b # None
    BY <2>1, <1>1 DEF Strongest
  <2>3. \A g \in D : \/ Priority[g.action] < Priority[b.action]
                     \/ Priority[g.action] = Priority[b.action] /\ g.confidence <= b.confidence
    BY <2>1 DEF Strongest
  <2> DEFINE pr(g) == Priority[g.action]
             cf(g) == g.confidence
  <2>4. \A g \in Findings : pr(g) \in Int /\ cf(g) \in Int
    BY <1>2
  <2>5. \A g \in D : g \in Findings /\ (pr(g) < pr(b) \/ (pr(g) = pr(b) /\ cf(g) <= cf(b)))
    BY <2>3
  <2>6. Beats(f, b) <=> pr(f) > pr(b) \/ (pr(f) = pr(b) /\ cf(f) > cf(b))
    BY <2>2 DEF Beats
  <2>7. ASSUME NEW h, h \in D \cup {f},
               \A g \in D \cup {f} : pr(g) < pr(h) \/ (pr(g) = pr(h) /\ cf(g) <= cf(h))
        PROVE  BestIn(h, D \cup {f})
    BY <2>7 DEF BestIn, Strongest
  <2> HIDE DEF pr, cf
  <2>8. CASE Beats(f, b)
    <3>1. \A g \in D \cup {f} : pr(g) < pr(f) \/ (pr(g) = pr(f) /\ cf(g) <= cf(f))
      BY <2>2, <2>4, <2>5, <2>6, <2>8
    <3>2. BestIn(f, D \cup {f})
      BY <3>1, <2>7
    <3> QED
      BY <3>2, <2>8 DEF Best
  <2>9. CASE ~Beats(f, b)
    <3>1. \A g \in D \cup {f} : pr(g) < pr(b) \/ (pr(g) = pr(b) /\ cf(g) <= cf(b))
      BY <2>2, <2>4, <2>5, <2>6, <2>9
    <3>2. BestIn(b, D \cup {f})
      BY <3>1, <2>2, <2>7
    <3> QED
      BY <3>2, <2>2, <2>9 DEF Best
  <2> QED
    BY <2>8, <2>9
<1> QED
  BY <1>3, <1>4

\* What BestOf defines, up to n.
Bests(f, start, s, n) ==
  f = [i \in 0 .. n |-> IF i = 0 THEN start ELSE Best(f[i - 1], s[i])]

\* The recursion has a solution.
LEMMA BestsExists ==
  ASSUME NEW start, NEW s, NEW m \in Nat
  PROVE  \E f : Bests(f, start, s, m)
<1> DEFINE Bad == {n \in Nat : ~ \E f : Bests(f, start, s, n)}
<1>1. SUFFICES ASSUME Bad # {} PROVE FALSE
  OBVIOUS
<1>2. PICK n \in Bad : \A j \in Bad : n <= j
  BY <1>1, LeastPosition
<1>3. CASE n = 0
  <2>1. Bests([i \in 0 .. 0 |-> start], start, s, 0)
    BY DEF Bests
  <2> QED
    BY <1>2, <1>3, <2>1
<1>4. CASE n # 0
  <2>1. n - 1 \in Nat /\ n - 1 \notin Bad /\ n \in Nat
    BY <1>2, <1>4
  <2>2. PICK f : Bests(f, start, s, n - 1)
    BY <2>1
  <2> DEFINE g == [i \in 0 .. n |-> IF i = n THEN Best(f[n - 1], s[n]) ELSE f[i]]
             h == [i \in 0 .. n |-> IF i = 0 THEN start ELSE Best(g[i - 1], s[i])]
  <2>3. ASSUME NEW i \in 0 .. n PROVE g[i] = h[i]
    <3>1. CASE i = n
      <4>1. g[n - 1] = f[n - 1]
        BY <2>1
      <4> QED
        BY <4>1, <3>1, <1>4
    <3>2. CASE i # n
      <4>1. i \in 0 .. n - 1
        BY <3>2, <2>1
      <4>2. g[i] = f[i]
        BY <3>2
      <4>3. f[i] = IF i = 0 THEN start ELSE Best(f[i - 1], s[i])
        BY <2>2, <4>1 DEF Bests
      <4>4. i # 0 => g[i - 1] = f[i - 1]
        BY <4>1, <2>1
      <4> QED
        BY <4>2, <4>3, <4>4
    <3> QED
      BY <3>1, <3>2
  <2>4. g = h
    BY <2>3
  <2>5. Bests(g, start, s, n)
    BY <2>4 DEF Bests
  <2> QED
    BY <2>5, <1>2
<1> QED
  BY <1>3, <1>4

\* After a stage the best so far is a best of all the findings so far.
LEMMA BestOfAll ==
  ASSUME NEW D \in SUBSET Findings, NEW b, BestIn(b, D), NEW s \in Seq(Findings)
  PROVE  BestIn(BestOf(b, s), D \cup Range(s))
<1>1. Len(s) \in Nat /\ Range(s) = {s[i] : i \in 1 .. Len(s)}
  BY DEF Range
<1>2. PICK f : Bests(f, b, s, Len(s)) /\ BestOf(b, s) = f[Len(s)]
  <2>1. \E f : Bests(f, b, s, Len(s))
    BY <1>1, BestsExists
  <2>2. BestOf(b, s) = (CHOOSE f : Bests(f, b, s, Len(s)))[Len(s)]
    BY Zenon DEF BestOf, Bests
  <2> QED
    BY <2>1, <2>2, Zenon
<1>3. \A i \in 0 .. Len(s) : f[i] = IF i = 0 THEN b ELSE Best(f[i - 1], s[i])
  BY <1>2, Zenon DEF Bests
<1> DEFINE So(n) == D \cup {s[i] : i \in 1 .. n}
           Bad == {n \in 0 .. Len(s) : ~BestIn(f[n], So(n))}
<1>4. ASSUME Bad # {} PROVE FALSE
  <2>1. Bad \in SUBSET Nat
    BY <1>1
  <2>2. PICK n \in Bad : \A j \in Bad : n <= j
    <3> HIDE DEF Bad
    <3> QED
      BY <1>4, <2>1, LeastPosition
  <2>3. n \in 0 .. Len(s) /\ ~BestIn(f[n], So(n))
    BY <2>2
  <2>4. n # 0
    <3>1. So(0) = D
      OBVIOUS
    <3>2. f[0] = b
      BY <1>1, <1>3
    <3> QED
      BY <3>1, <3>2, <2>3
  <2>5. n \in 1 .. Len(s) /\ n - 1 \in 0 .. Len(s) /\ ~(n <= n - 1)
    BY <1>1, <2>3, <2>4
  <2>6. BestIn(f[n - 1], So(n - 1))
    BY <2>2, <2>5
  <2>7. f[n] = Best(f[n - 1], s[n]) /\ s[n] \in Findings
    BY <1>3, <2>3, <2>4, <2>5
  <2>8. So(n - 1) \in SUBSET Findings /\ So(n) = So(n - 1) \cup {s[n]}
    <3>1. \A i \in 1 .. n : i = n \/ i \in 1 .. n - 1
      BY <2>5
    <3>2. \A i \in 1 .. n - 1 : i \in 1 .. n /\ i \in 1 .. Len(s)
      BY <1>1, <2>5
    <3>3. n \in 1 .. n
      BY <2>5
    <3>4. \A i \in 1 .. Len(s) : s[i] \in Findings
      OBVIOUS
    <3> QED
      BY <3>1, <3>2, <3>3, <3>4
  <2> DEFINE a == f[n - 1]
             e == s[n]
             K == So(n - 1)
  <2>9. a = f[n - 1] /\ e = s[n] /\ K = So(n - 1)
    OBVIOUS
  <2> HIDE DEF a, e, K, So
  <2>10. BestIn(Best(a, e), K \cup {e})
    BY <2>6, <2>7, <2>8, <2>9, BestStep
  <2> QED
    BY <2>3, <2>7, <2>8, <2>9, <2>10
<1>5. BestIn(f[Len(s)], So(Len(s)))
  <2>1. Len(s) \in 0 .. Len(s)
    BY <1>1
  <2> HIDE DEF So
  <2> QED
    BY <1>4, <2>1
<1> QED
  BY <1>1, <1>2, <1>5

\* Whatever it started from, it is one of them, or what it started from.
LEMMA BestOfTyped ==
  ASSUME NEW b \in Findings \cup {None}, NEW s \in Seq(Findings)
  PROVE  BestOf(b, s) \in Findings \cup {None}
<1> DEFINE D == IF b = None THEN {} ELSE {b}
<1>1. D \in SUBSET Findings /\ BestIn(b, D)
  <2>1. \A g \in Findings : g.confidence \in Percent
    BY DEF Findings
  <2>2. \A n \in Percent : n <= n
    BY DEF Percent
  <2>3. b # None => b \in Strongest({b})
    BY <2>1, <2>2 DEF Strongest
  <2> QED
    BY <2>3 DEF BestIn
<1> HIDE DEF D
<1>2. BestIn(BestOf(b, s), D \cup Range(s))
  BY <1>1, BestOfAll
<1>3. Range(s) \subseteq Findings
  BY DEF Range
<1> QED
  BY <1>1, <1>2, <1>3 DEF BestIn, Strongest

\* The signature matches are findings.
LEMMA RegexFinds ==
  ASSUME RequestType(request), NEW ps \in Seq(List!Patterns)
  PROVE  RegexFindings(ps) \in Seq(Findings)
<1> DEFINE ActionOf(p) == request.signatures[p.version][p.index]
           K == {p \in List!Patterns : ActionOf(p) # None}
           ms == Select(ps, K)
<1>1. ms \in Seq(List!Patterns) /\ \E h : Embeds(h, ms, ps, K, Len(ps))
  <2> HIDE DEF K
  <2> QED
    BY SelectEmbeds
<1>2. RegexFindings(ps) =
        [i \in DOMAIN ms |-> Finding(ActionOf(ms[i]), "injection", 90, ms[i].version)]
  BY Zenon DEF RegexFindings
<1>3. \A i \in 1 .. Len(ms) : ms[i] \in K
  <2> HIDE DEF K, ms
  <2> QED
    BY <1>1 DEF Embeds
<1>4. ASSUME NEW p \in K PROVE ActionOf(p) \in Actions /\ p.version \in 1 .. MaxVersions
  <2>1. p.version \in 1 .. MaxVersions /\ p.index \in 1 .. Size
    BY DEF List!Patterns
  <2>2. ActionOf(p) \in Actions \cup {None}
    BY <2>1 DEF RequestType
  <2> QED
    BY <2>1, <2>2
<1> HIDE DEF ActionOf, K, ms
<1>5. \A a \in Actions, v \in 1 .. MaxVersions : Finding(a, "injection", 90, v) \in Findings
  <2>1. MaxVersions \in Nat
    BY EnginesAssumption DEF List!ListConstants
  <2> QED
    BY <2>1 DEF Finding, Findings, Percent
<1>6. DOMAIN ms = 1 .. Len(ms) /\ Len(ms) \in Nat
  BY <1>1
<1>7. \A i \in DOMAIN ms : Finding(ActionOf(ms[i]), "injection", 90, ms[i].version) \in Findings
  BY <1>3, <1>4, <1>5, <1>6
<1> QED
  BY <1>2, <1>6, <1>7

\* So are those of the heuristics.
LEMMA HeuristicsFind ==
  ASSUME RequestType(request)
  PROVE  HeuristicFindings \in Seq(Findings)
<1> DEFINE h == request.heuristics
<1>1. h \in Seq(Percent) /\ DOMAIN h = 1 .. Len(h) /\ Len(h) \in Nat
  BY DEF RequestType
<1> HIDE DEF h
<1>2. \A c \in Percent : Finding("warn", "encoding-bypass", c, 0) \in Findings
  <2>1. MaxVersions \in Nat
    BY EnginesAssumption DEF List!ListConstants
  <2> QED
    BY <2>1 DEF Finding, Findings, Actions, Priority
<1>3. \A i \in 1 .. Len(h) : h[i] \in Percent
  BY <1>1
<1> QED
  BY <1>1, <1>2, <1>3 DEF HeuristicFindings, h

\* Without patterns there are none.
LEMMA RegexFindsNothing == \A i \in DOMAIN RegexFindings(<<>>) : FALSE
<1> DEFINE ms == Select(<<>>, {p \in List!Patterns :
                               request.signatures[p.version][p.index] # None})
<1>1. ms = <<>>
  <2> DEFINE K == {p \in List!Patterns : request.signatures[p.version][p.index] # None}
             e == <<>>
  <2>1. e \in Seq({}) /\ Len(e) = 0
    OBVIOUS
  <2> HIDE DEF K, e
  <2>2. Selected(e, K)[0] = <<>>
    <3> DEFINE S == {}
    <3>1. e \in Seq(S)
      BY <2>1
    <3> HIDE DEF S
    <3> QED
      BY <3>1, SelectedStep
  <2>3. Select(e, K) = <<>>
    BY <2>1, <2>2 DEF Select
  <2> QED
    BY <2>3 DEF K, e
<1>2. RegexFindings(<<>>) =
        [i \in DOMAIN ms |-> Finding(request.signatures[ms[i].version][ms[i].index],
                                     "injection", 90, ms[i].version)]
  BY Zenon DEF RegexFindings
<1> HIDE DEF ms
<1>3. DOMAIN ms = {}
  BY <1>1
<1> QED
  BY <1>2, <1>3

\* And what the classifier reports.
LEMMA ThreatsFound ==
  ASSUME NEW a \in Actions, NEW m \in ModelMatches
  PROVE  Finding(a, m.category, m.confidence, m.source) \in Findings
  BY DEF Finding, Findings, ModelMatches

\* The elements of a sequence are its head and those of its tail; and an element
\* appended is one more.
LEMMA RangeSteps ==
  ASSUME NEW S, NEW s \in Seq(S)
  PROVE  /\ s # <<>> => /\ Range(s) = {Head(s)} \cup Range(Tail(s))
                        /\ Head(s) \in S /\ Tail(s) \in Seq(S)
         /\ \A e \in S : Append(s, e) \in Seq(S) /\ Range(Append(s, e)) = Range(s) \cup {e}
<1>1. ASSUME NEW u \in Seq(S) PROVE Range(u) = {u[i] : i \in 1 .. Len(u)} /\ Len(u) \in Nat
  BY DEF Range
<1>2. ASSUME s # <<>>
      PROVE  Range(s) = {Head(s)} \cup Range(Tail(s)) /\ Head(s) \in S /\ Tail(s) \in Seq(S)
  <2> DEFINE t == Tail(s)
  <2>1. /\ t \in Seq(S) /\ Head(s) \in S /\ Len(t) = Len(s) - 1 /\ Head(s) = s[1]
        /\ Len(s) \in Nat /\ Len(s) >= 1 /\ \A i \in 1 .. Len(t) : t[i] = s[i + 1]
    BY <1>2
  <2> HIDE DEF t
  <2>2. Range(s) = {s[i] : i \in 1 .. Len(s)} /\ Range(t) = {t[i] : i \in 1 .. Len(t)}
    BY <1>1, <2>1
  <2>3. \A i \in 1 .. Len(t) : i + 1 \in 1 .. Len(s)
    BY <2>1
  <2>4. \A i \in 1 .. Len(s) : i = 1 \/ (i - 1 \in 1 .. Len(t) /\ s[i] = t[i - 1])
    BY <2>1
  <2>5. 1 \in 1 .. Len(s)
    BY <2>1
  <2>6. Range(s) \subseteq {s[1]} \cup Range(t)
    BY <2>2, <2>4
  <2>7. {s[1]} \cup Range(t) \subseteq Range(s)
    BY <2>1, <2>2, <2>3, <2>5
  <2> QED
    BY <2>1, <2>6, <2>7 DEF t
<1>3. ASSUME NEW e \in S
      PROVE  Append(s, e) \in Seq(S) /\ Range(Append(s, e)) = Range(s) \cup {e}
  <2> DEFINE t == Append(s, e)
  <2>1. /\ t \in Seq(S) /\ Len(t) = Len(s) + 1 /\ t[Len(s) + 1] = e /\ Len(s) \in Nat
        /\ \A i \in 1 .. Len(s) : t[i] = s[i]
    BY AppendProperties
  <2> HIDE DEF t
  <2>2. Range(s) = {s[i] : i \in 1 .. Len(s)} /\ Range(t) = {t[i] : i \in 1 .. Len(t)}
    BY <1>1, <2>1
  <2>3. \A i \in 1 .. Len(t) : i = Len(s) + 1 \/ i \in 1 .. Len(s)
    BY <2>1
  <2>4. \A i \in 1 .. Len(s) : i \in 1 .. Len(t)
    BY <2>1
  <2>5. Len(s) + 1 \in 1 .. Len(t)
    BY <2>1
  <2>6. Range(t) \subseteq Range(s) \cup {e}
    BY <2>1, <2>2, <2>3
  <2>7. Range(s) \cup {e} \subseteq Range(t)
    BY <2>1, <2>2, <2>4, <2>5
  <2> QED
    BY <2>1, <2>6, <2>7 DEF t
<1> QED
  BY <1>2, <1>3

----------------------------------------------------------------------------
(* A call on its course, while nothing is reloaded, loaded or pushed.      *)

\* All that the answer depends on, when the regex stage has the matches R to find.
InForce(R) ==
  [check |-> request.check,
   names |-> names,
   enabled |-> config.enabled,
   regex |-> R,
   heuristics |-> IF "heuristics" \in stages THEN Range(HeuristicFindings) ELSE {},
   backend |-> backend,
   says |-> IF backend = None THEN <<>> ELSE request.predictions[backend],
   threshold |-> config.threshold,
   action |-> config.action]

\* What may be in force for thread t.
Courses(t) == {InForce(R) : R \in DueOfRegex(t)}

ForceType ==
  [check : BOOLEAN, names : Int, enabled : BOOLEAN,
   regex : SUBSET Findings, heuristics : SUBSET Findings,
   backend : Models \cup {None}, says : Seq(Predictions),
   threshold : Percent, action : Actions]

\* The matches of the predictions P, the findings of the matches M, and all that
\* is due.
Matched(P, F) ==
  {[category |-> p.category, confidence |-> p.confidence, source |-> F.backend] :
     p \in {q \in P : q.confidence >= F.threshold}}
Threats(M, F) ==
  {Finding(F.action, m.category, m.confidence, m.source) :
     m \in {n \in M : n.category \notin Harmless}}
Due(F) ==
  IF ~F.enabled THEN {}
  ELSE F.regex \cup F.heuristics \cup Threats(Matched(Range(F.says), F), F)

\* At each point of its scan the call c has the best of what it has seen, and what
\* it has yet to see is the rest of what is due.
OnCourse(c, F) ==
  /\ F.check => c.names = F.names
  /\ c.outcome # "failed"
  /\ c.pc \notin {"idle", "raised"}
  /\ c.pc \in {"called", "regex", "scanning"} => c.best = None
  /\ c.pc \notin {"called", "done", "answered"} => F.enabled
  /\ c.pc = "heuristics" => BestIn(c.best, F.regex)
  /\ c.pc \in {"ml", "predict", "bind", "attribute"} =>
       BestIn(c.best, F.regex \cup F.heuristics)
  /\ c.pc \notin {"attribute", "combine", "done", "answered"} => c.found = <<>>
  /\ c.pc \in {"predict", "bind", "attribute"} => F.backend # None
  /\ c.pc = "attribute" =>
       Matched(Range(F.says), F) = Range(c.found) \cup Matched(Range(c.left), F)
  /\ c.pc = "combine" => \E D \in SUBSET Findings :
       BestIn(c.best, D) /\ Due(F) = D \cup Threats(Range(c.found), F)
  /\ c.pc \in {"done", "answered"} => BestIn(c.best, Due(F))

\* The steps of the scan keep to it.
LEMMA EntersOnCourse ==
  ASSUME NEW F \in ForceType, NEW c \in CallType, OnCourse(c, F), c.pc = "called"
  PROVE  OnCourse([c EXCEPT !.pc = IF F.enabled THEN "regex" ELSE "done"], F)
<1> DEFINE d == [c EXCEPT !.pc = IF F.enabled THEN "regex" ELSE "done"]
<1>1. /\ d.pc = (IF F.enabled THEN "regex" ELSE "done") /\ d.best = c.best
      /\ d.names = c.names /\ d.outcome = c.outcome /\ d.found = c.found
  BY DEF CallType
<1>2. ~F.enabled => BestIn(None, Due(F))
  BY DEF BestIn, Due
<1> HIDE DEF d
<1>3. OnCourse(d, F)
  BY <1>1, <1>2 DEF OnCourse
<1> QED
  BY <1>3 DEF d

\* The regex stage begins, or is left out when it is off.
LEMMA SkipsOnCourse ==
  ASSUME NEW F \in ForceType, NEW c \in CallType, OnCourse(c, F), c.pc = "regex"
  PROVE  /\ OnCourse([c EXCEPT !.pc = "scanning"], F)
         /\ F.regex = {} => OnCourse([c EXCEPT !.pc = "heuristics"], F)
<1> DEFINE d == [c EXCEPT !.pc = "scanning"]
           e == [c EXCEPT !.pc = "heuristics"]
<1>1. /\ d.pc = "scanning" /\ d.best = c.best /\ d.names = c.names /\ d.outcome = c.outcome
      /\ d.found = c.found
      /\ e.pc = "heuristics" /\ e.best = c.best /\ e.names = c.names /\ e.outcome = c.outcome
      /\ e.found = c.found
  BY DEF CallType
<1> HIDE DEF d, e
<1>2. OnCourse(d, F)
  BY <1>1 DEF OnCourse
<1>3. F.regex = {} => OnCourse(e, F)
  BY <1>1 DEF OnCourse, BestIn
<1> QED
  BY <1>2, <1>3 DEF d, e

\* It has found what is due of it.
LEMMA ScansOnCourse ==
  ASSUME NEW F \in ForceType, NEW c \in CallType, OnCourse(c, F), c.pc = "scanning",
         NEW s \in Seq(Findings), Range(s) = F.regex
  PROVE  OnCourse([c EXCEPT !.pc = "heuristics", !.best = BestOf(@, s)], F)
<1> DEFINE d == [c EXCEPT !.pc = "heuristics", !.best = BestOf(@, s)]
<1>1. d.pc = "heuristics" /\ d.best = BestOf(c.best, s) /\ d.names = c.names
      /\ d.outcome = c.outcome /\ d.found = c.found
  BY DEF CallType
<1>2. BestIn(c.best, {}) /\ {} \in SUBSET Findings
  BY DEF OnCourse, BestIn
<1>3. BestIn(d.best, {} \cup Range(s))
  BY <1>1, <1>2, BestOfAll
<1> HIDE DEF d
<1>4. OnCourse(d, F)
  BY <1>1, <1>3 DEF OnCourse
<1> QED
  BY <1>4 DEF d

\* The heuristics have.
LEMMA HeuristicsOnCourse ==
  ASSUME NEW F \in ForceType, NEW c \in CallType, OnCourse(c, F), c.pc = "heuristics",
         NEW b, BestIn(b, F.regex \cup F.heuristics)
  PROVE  OnCourse([c EXCEPT !.pc = "ml", !.best = b], F)
<1> DEFINE d == [c EXCEPT !.pc = "ml", !.best = b]
<1>1. d.pc = "ml" /\ d.best = b /\ d.names = c.names /\ d.outcome = c.outcome
      /\ d.found = c.found
  BY DEF CallType
<1> HIDE DEF d
<1>2. OnCourse(d, F)
  BY <1>1 DEF OnCourse
<1> QED
  BY <1>2 DEF d

\* There is a model to ask, or nothing more is due.
LEMMA AsksOnCourse ==
  ASSUME NEW F \in ForceType, NEW c \in CallType, OnCourse(c, F), c.pc \in {"ml", "predict"},
         F.backend = None => F.says = <<>>,
         NEW next_pc \in {"predict", "bind"}
  PROVE  OnCourse([c EXCEPT !.pc = IF F.backend # None THEN next_pc ELSE "done"], F)
<1> DEFINE d == [c EXCEPT !.pc = IF F.backend # None THEN next_pc ELSE "done"]
<1>1. d.pc = (IF F.backend # None THEN next_pc ELSE "done") /\ d.best = c.best
      /\ d.names = c.names /\ d.outcome = c.outcome /\ d.found = c.found
  BY DEF CallType
<1> HIDE DEF d
<1>2. CASE F.backend # None
  BY <1>1, <1>2 DEF OnCourse
<1>3. CASE F.backend = None
  <2>1. Matched(Range(F.says), F) = {}
    BY <1>3 DEF Matched, Range
  <2>2. Due(F) = F.regex \cup F.heuristics
    <3>1. Threats({}, F) = {} /\ F.enabled
      BY DEF Threats, OnCourse
    <3> QED
      BY <2>1, <3>1 DEF Due
  <2> QED
    BY <1>1, <1>3, <2>2 DEF OnCourse
<1> QED
  BY <1>2, <1>3 DEF d

\* What the model says is what has yet to be matched.
LEMMA PredictsOnCourse ==
  ASSUME NEW F \in ForceType, NEW c \in CallType, OnCourse(c, F), c.pc = "bind"
  PROVE  OnCourse([c EXCEPT !.pc = "attribute", !.left = F.says], F)
<1> DEFINE d == [c EXCEPT !.pc = "attribute", !.left = F.says]
<1>1. d.pc = "attribute" /\ d.best = c.best /\ d.left = F.says
      /\ d.names = c.names /\ d.outcome = c.outcome /\ d.found = c.found
  BY DEF CallType
<1>2. c.found = <<>>
  BY DEF OnCourse
<1>3. Range(d.found) = {}
  BY <1>1, <1>2 DEF Range
<1> HIDE DEF d
<1>4. OnCourse(d, F)
  BY <1>1, <1>3 DEF OnCourse
<1> QED
  BY <1>4 DEF d

\* One more prediction.
LEMMA AttributesOnCourse ==
  ASSUME NEW F \in ForceType, NEW c \in CallType, OnCourse(c, F), c.pc = "attribute"
  PROVE  /\ c.left = <<>> => OnCourse([c EXCEPT !.pc = "combine"], F)
         /\ c.left # <<>> /\ Head(c.left).confidence < F.threshold =>
              OnCourse([c EXCEPT !.left = Tail(@)], F)
         /\ c.left # <<>> /\ ~(Head(c.left).confidence < F.threshold) =>
              LET p == Head(c.left)
                  match == [category |-> p.category, confidence |-> p.confidence,
                            source |-> F.backend]
              IN  /\ match \in ModelMatches
                  /\ OnCourse([c EXCEPT !.left = Tail(@), !.found = Append(@, match)], F)
<1>1. /\ F.enabled /\ F.backend # None /\ BestIn(c.best, F.regex \cup F.heuristics)
      /\ Matched(Range(F.says), F) = Range(c.found) \cup Matched(Range(c.left), F)
  BY DEF OnCourse
<1>2. c.left \in Seq(Predictions) /\ c.found \in Seq(ModelMatches) /\ F.threshold \in Int
      /\ F.backend \in Models /\ F.regex \in SUBSET Findings /\ F.heuristics \in SUBSET Findings
  <2>1. c.left \in Seq(Predictions) /\ c.found \in Seq(ModelMatches)
    BY DEF CallType
  <2>2. F.threshold \in Percent /\ F.backend \in Models \cup {None}
        /\ F.regex \in SUBSET Findings /\ F.heuristics \in SUBSET Findings
    BY DEF ForceType
  <2>3. Percent \subseteq Int
    BY DEF Percent
  <2> QED
    BY <1>1, <2>1, <2>2, <2>3
<1>3. ASSUME c.left = <<>> PROVE OnCourse([c EXCEPT !.pc = "combine"], F)
  <2> DEFINE d == [c EXCEPT !.pc = "combine"]
             D == F.regex \cup F.heuristics
  <2>1. d.pc = "combine" /\ d.best = c.best /\ d.names = c.names /\ d.outcome = c.outcome
        /\ d.found = c.found
    BY DEF CallType
  <2>2. Matched(Range(F.says), F) = Range(c.found)
    BY <1>1, <1>3 DEF Matched, Range
  <2>3. Due(F) = D \cup Threats(Range(c.found), F)
    BY <1>1, <2>2 DEF Due
  <2>4. D \in SUBSET Findings /\ BestIn(c.best, D)
    BY <1>1, <1>2
  <2> HIDE DEF d, D
  <2>5. OnCourse(d, F)
    BY <1>1, <2>1, <2>3, <2>4 DEF OnCourse
  <2> QED
    BY <2>5 DEF d
<1>4. ASSUME c.left # <<>>
      PROVE  /\ Head(c.left).confidence < F.threshold =>
                  OnCourse([c EXCEPT !.left = Tail(@)], F)
             /\ ~(Head(c.left).confidence < F.threshold) =>
                  LET p == Head(c.left)
                      match == [category |-> p.category, confidence |-> p.confidence,
                                source |-> F.backend]
                  IN  /\ match \in ModelMatches
                      /\ OnCourse([c EXCEPT !.left = Tail(@), !.found = Append(@, match)], F)
  <2> DEFINE p == Head(c.left)
             t == Tail(c.left)
             match == [category |-> p.category, confidence |-> p.confidence,
                       source |-> F.backend]
             d == [c EXCEPT !.left = t]
             e == [c EXCEPT !.left = t, !.found = Append(@, match)]
  <2>1. Range(c.left) = {p} \cup Range(t) /\ p \in Predictions /\ t \in Seq(Predictions)
    BY <1>2, <1>4, RangeSteps
  <2>2. match \in ModelMatches /\ p.confidence \in Int
    <3>1. p.category \in Categories /\ p.confidence \in Percent
      <4> HIDE DEF p
      <4> QED
        BY <2>1 DEF Predictions
    <3>2. Percent \subseteq Int
      BY DEF Percent
    <3> HIDE DEF p
    <3> QED
      BY <1>2, <3>1, <3>2 DEF ModelMatches
  <2>3. Range(Append(c.found, match)) = Range(c.found) \cup {match}
    <3> HIDE DEF match
    <3> QED
      BY <1>2, <2>2, RangeSteps
  <2>4. d.pc = "attribute" /\ d.best = c.best /\ d.names = c.names /\ d.outcome = c.outcome
        /\ d.found = c.found /\ d.left = t
    BY DEF CallType
  <2>5. e.pc = "attribute" /\ e.best = c.best /\ e.names = c.names /\ e.outcome = c.outcome
        /\ e.found = Append(c.found, match) /\ e.left = t
    BY DEF CallType
  <2>6. p.confidence < F.threshold => Matched(Range(c.left), F) = Matched(Range(t), F)
    <3> HIDE DEF p, t
    <3>1. p.confidence < F.threshold => ~(p.confidence >= F.threshold)
      BY <1>2, <2>2
    <3> QED
      BY <2>1, <3>1 DEF Matched
  <2>7. ~(p.confidence < F.threshold) =>
          Matched(Range(c.left), F) = {match} \cup Matched(Range(t), F)
    <3>1. ~(p.confidence < F.threshold) => p.confidence >= F.threshold
      BY <1>2, <2>2
    <3> HIDE DEF p, t
    <3> QED
      BY <2>1, <3>1 DEF Matched
  <2> HIDE DEF d, e, match
  <2>8. p.confidence < F.threshold => OnCourse(d, F)
    BY <1>1, <2>4, <2>6 DEF OnCourse
  <2>9. ASSUME ~(p.confidence < F.threshold) PROVE OnCourse(e, F)
    <3>1. Matched(Range(F.says), F) = Range(e.found) \cup Matched(Range(e.left), F)
      BY <1>1, <2>3, <2>5, <2>7, <2>9
    <3> QED
      BY <1>1, <2>5, <3>1 DEF OnCourse
  <2> QED
    BY <2>2, <2>8, <2>9 DEF d, e, match
<1> QED
  BY <1>3, <1>4

\* One more match.
LEMMA CombinesOnCourse ==
  ASSUME NEW F \in ForceType, NEW c \in CallType, OnCourse(c, F), c.pc = "combine"
  PROVE  /\ c.found = <<>> => OnCourse([c EXCEPT !.pc = "done"], F)
         /\ c.found # <<>> /\ Head(c.found).category \in Harmless =>
              OnCourse([c EXCEPT !.found = Tail(@)], F)
         /\ c.found # <<>> /\ Head(c.found).category \notin Harmless =>
              LET f == Head(c.found)
                  finding == Finding(F.action, f.category, f.confidence, f.source)
              IN  OnCourse([c EXCEPT !.found = Tail(@), !.best = Best(@, finding)], F)
<1>1. F.enabled /\ c.found \in Seq(ModelMatches) /\ F.action \in Actions
  BY DEF OnCourse, CallType, ForceType
<1>2. PICK D \in SUBSET Findings :
        BestIn(c.best, D) /\ Due(F) = D \cup Threats(Range(c.found), F)
  BY DEF OnCourse
<1>3. ASSUME c.found = <<>> PROVE OnCourse([c EXCEPT !.pc = "done"], F)
  <2> DEFINE d == [c EXCEPT !.pc = "done"]
  <2>1. d.pc = "done" /\ d.best = c.best /\ d.names = c.names /\ d.outcome = c.outcome
    BY DEF CallType
  <2>2. Due(F) = D
    BY <1>2, <1>3 DEF Threats, Range
  <2> HIDE DEF d
  <2>3. OnCourse(d, F)
    BY <1>1, <1>2, <2>1, <2>2 DEF OnCourse
  <2> QED
    BY <2>3 DEF d
<1>4. ASSUME c.found # <<>>
      PROVE  /\ Head(c.found).category \in Harmless => OnCourse([c EXCEPT !.found = Tail(@)], F)
             /\ Head(c.found).category \notin Harmless =>
                  LET f == Head(c.found)
                      finding == Finding(F.action, f.category, f.confidence, f.source)
                  IN  OnCourse([c EXCEPT !.found = Tail(@), !.best = Best(@, finding)], F)
  <2> DEFINE f == Head(c.found)
             t == Tail(c.found)
             finding == Finding(F.action, f.category, f.confidence, f.source)
             d == [c EXCEPT !.found = t]
             e == [c EXCEPT !.found = t, !.best = Best(@, finding)]
  <2>1. Range(c.found) = {f} \cup Range(t) /\ f \in ModelMatches
    BY <1>1, <1>4, RangeSteps
  <2>2. finding \in Findings
    <3> HIDE DEF f
    <3> QED
      BY <1>1, <2>1, ThreatsFound
  <2>3. d.pc = "combine" /\ d.best = c.best /\ d.names = c.names /\ d.outcome = c.outcome
        /\ d.found = t
    BY DEF CallType
  <2>4. e.pc = "combine" /\ e.best = Best(c.best, finding) /\ e.names = c.names
        /\ e.outcome = c.outcome /\ e.found = t
    BY DEF CallType
  <2>5. f.category \in Harmless => Threats(Range(c.found), F) = Threats(Range(t), F)
    <3> HIDE DEF f, t
    <3> QED
      BY <2>1 DEF Threats
  <2>6. f.category \notin Harmless =>
          Threats(Range(c.found), F) = {finding} \cup Threats(Range(t), F)
    <3> HIDE DEF f, t
    <3> QED
      BY <2>1 DEF Threats
  <2> HIDE DEF d, e, finding
  <2>7. f.category \in Harmless => OnCourse(d, F)
    BY <1>1, <1>2, <2>3, <2>5 DEF OnCourse
  <2>8. ASSUME f.category \notin Harmless PROVE OnCourse(e, F)
    <3> DEFINE E == D \cup {finding}
    <3>1. BestIn(e.best, E) /\ E \in SUBSET Findings
      BY <1>2, <2>2, <2>4, BestStep
    <3>2. Due(F) = E \cup Threats(Range(e.found), F)
      BY <1>2, <2>4, <2>6, <2>8
    <3> HIDE DEF E
    <3> QED
      BY <1>1, <2>4, <3>1, <3>2 DEF OnCourse
  <2> QED
    BY <2>7, <2>8 DEF d, e, finding
<1> QED
  BY <1>3, <1>4

----------------------------------------------------------------------------
(* The whole scanner.                                                      *)

Typed ==
  /\ request \in Requests
  /\ config \in ConfigType
  /\ stages \subseteq Stages
  /\ backend \in Models \cup {None}
  /\ tierRank \in -1 .. 2
  /\ sync \in {"idle", "models", "reload"}
  /\ todo \subseteq Models
  /\ names \in 1 .. MaxVersions
  /\ pushes \in 0 .. MaxPushes
  /\ loaded \subseteq Models
  /\ broken \in BOOLEAN

\* Without the regex stage no engine ever moves.
EngineInv ==
  IF "regex" \in stages THEN RegexInv
  ELSE EnginesTypeOK /\ ListAsleep /\ HyperAsleep /\ loop = "idle"

\* The loop reloads within a sync pass, which has a set to reload to, and the
\* names are those of the set in force except while it does.
InStep ==
  /\ loop # "idle" => sync = "reload"
  /\ sync = "models" => version < MaxVersions
  /\ sync # "reload" => names = version

\* The active tier is the highest the pass has come to, and that of the model.
Tiered ==
  "ml_classifier" \in stages /\ ~broken /\ (\A m \in loaded : Rank[m] # None) =>
    IF loaded = {} THEN tierRank = -1
    ELSE /\ backend \in loaded /\ tierRank = Rank[backend]
         /\ \A m \in loaded : Rank[m] <= tierRank

\* The scan of thread t began with the set in force, and no reload since.
Following(t) ==
  IF ByHyperscan THEN calm[t] /\ hyperScan[t].pc # "ready"
  ELSE since[t] = version /\ listScan[t].pc # "ready"

Called ==
  /\ call \in [Threads -> CallType]
  /\ steady \in [Threads -> BOOLEAN]
  /\ \A t \in Threads : call[t].pc = "scanning" => "regex" \in stages

Steadily ==
  \A t \in Threads : steady[t] =>
    /\ sync # "reload"
    /\ \E F \in Courses(t) : OnCourse(call[t], F)
    /\ call[t].pc = "scanning" => Following(t)

ScannerInv == Typed /\ EngineInv /\ InStep /\ Tiered /\ Called /\ Steadily

\* What is in force has its type.
LEMMA ForceTyped ==
  ASSUME Typed, EngineInv
  PROVE  /\ RequestType(request) /\ version \in 1 .. MaxVersions
         /\ ("regex" \in stages => WholeSet \in Seq(List!Patterns)
                                   /\ RegexFindings(WholeSet) \in Seq(Findings))
         /\ HeuristicFindings \in Seq(Findings)
         /\ \A R \in SUBSET Findings : InForce(R) \in ForceType
         /\ \A t \in Threads : DueOfRegex(t) \subseteq SUBSET Findings
<1>1. RequestType(request) /\ MaxVersions \in Nat /\ Size \in Nat
  BY ScannerAssumption, EnginesAssumption DEF Typed, List!ListConstants
<1>2. version \in 1 .. MaxVersions
  BY DEF EngineInv, RegexInv, HyperInv, ListInv, EnginesTypeOK, Hyper!TypeOK, List!TypeOK,
         Hyper!Versions
<1>3. ASSUME "regex" \in stages PROVE WholeSet \in Seq(List!Patterns)
  <2>1. CASE ~ByHyperscan
    <3>1. List!Whole(version) = Built(version, Size) /\ Built(version, Size) \in Seq(ValidOf(version))
      <4>1. Size \in 0 .. Size
        BY <1>1
      <4> QED
        BY <1>2, <4>1, BuiltGrows
    <3>2. ValidOf(version) \subseteq List!Patterns
      BY DEF ValidOf, Valid
    <3> QED
      BY <2>1, <3>1, <3>2 DEF WholeSet
  <2>2. CASE ByHyperscan
    <3>1. \A i \in 1 .. Size : [version |-> version, index |-> i] \in List!Patterns
      BY <1>2 DEF List!Patterns
    <3>2. [i \in 1 .. Size |-> [version |-> version, index |-> i]] \in Seq(List!Patterns)
      BY <1>1, <3>1
    <3> QED
      BY <2>2, <3>2 DEF WholeSet
  <2> QED
    BY <2>1, <2>2
<1>4. "regex" \in stages => RegexFindings(WholeSet) \in Seq(Findings)
  BY <1>1, <1>3, RegexFinds
<1>5. HeuristicFindings \in Seq(Findings)
  BY <1>1, HeuristicsFind
<1>6. \A s \in Seq(Findings) : Range(s) \in SUBSET Findings
  BY DEF Range
<1> DEFINE W == IF "regex" \in stages THEN Range(RegexFindings(WholeSet)) ELSE {}
           H == IF "heuristics" \in stages THEN Range(HeuristicFindings) ELSE {}
           P == IF backend = None THEN <<>> ELSE request.predictions[backend]
<1>7. W \in SUBSET Findings /\ H \in SUBSET Findings
  BY <1>4, <1>5, <1>6
<1>8. P \in Seq(Predictions)
  BY <1>1 DEF RequestType, Typed
<1>9. \A R : InForce(R) =
          [check |-> request.check, names |-> names, enabled |-> config.enabled,
           regex |-> R, heuristics |-> H, backend |-> backend, says |-> P,
           threshold |-> config.threshold, action |-> config.action]
  BY DEF InForce
<1>10. request.check \in BOOLEAN /\ names \in Int /\ backend \in Models \cup {None}
  BY <1>1 DEF RequestType, Typed
<1>11. config.enabled \in BOOLEAN /\ config.threshold \in Percent /\ config.action \in Actions
  BY DEF Typed, ConfigType
<1>12. \A t : DueOfRegex(t) \subseteq {W, {}}
  BY DEF DueOfRegex
<1> HIDE DEF W, H, P
<1>13. \A R \in SUBSET Findings : InForce(R) \in ForceType
  BY <1>7, <1>8, <1>9, <1>10, <1>11 DEF ForceType
<1>14. {W, {}} \subseteq SUBSET Findings
  BY <1>7
<1>15. \A t \in Threads : DueOfRegex(t) \subseteq SUBSET Findings
  BY <1>12, <1>14
<1> QED
  BY <1>1, <1>2, <1>3, <1>4, <1>5, <1>13, <1>15

\* What is due is what CalmCallsAreExact expects.
LEMMA DueIsExpected == ASSUME NEW R PROVE Due(InForce(R)) = Expected(R)
<1> DEFINE P == IF backend = None THEN <<>> ELSE request.predictions[backend]
           D == {Finding(config.action, p.category, p.confidence, backend) :
                  p \in {q \in Range(P) :
                          q.confidence >= config.threshold /\ q.category \notin Harmless}}
           F == InForce(R)
<1>1. F.enabled = config.enabled /\ F.threshold = config.threshold /\ F.action = config.action
      /\ F.backend = backend /\ F.says = P
      /\ F.regex = R
      /\ F.heuristics = (IF "heuristics" \in stages THEN Range(HeuristicFindings) ELSE {})
  BY DEF InForce
<1> HIDE DEF F, P
<1>2. Threats(Matched(Range(P), F), F) = D
  <2> DEFINE M == {[category |-> p.category, confidence |-> p.confidence, source |-> backend] :
                     p \in {q \in Range(P) : q.confidence >= config.threshold}}
  <2>1. Matched(Range(P), F) = M
    BY <1>1 DEF Matched
  <2>2. Threats(M, F) = {Finding(config.action, m.category, m.confidence, m.source) :
                           m \in {n \in M : n.category \notin Harmless}}
    BY <1>1 DEF Threats
  <2>3. ASSUME NEW p \in Range(P), p.confidence >= config.threshold, p.category \notin Harmless
        PROVE  Finding(config.action, p.category, p.confidence, backend) \in Threats(M, F)
    <3> DEFINE m == [category |-> p.category, confidence |-> p.confidence, source |-> backend]
    <3>1. m \in M /\ m.category = p.category /\ m.confidence = p.confidence /\ m.source = backend
      BY <2>3
    <3> HIDE DEF m, M
    <3>2. Finding(config.action, m.category, m.confidence, m.source) \in Threats(M, F)
      BY <2>2, <2>3, <3>1
    <3> QED
      BY <3>1, <3>2
  <2>4. ASSUME NEW x \in Threats(M, F) PROVE x \in D
    <3>1. PICK m \in M : m.category \notin Harmless
                         /\ x = Finding(config.action, m.category, m.confidence, m.source)
      BY <2>2
    <3>2. PICK p \in Range(P) : p.confidence >= config.threshold
            /\ m = [category |-> p.category, confidence |-> p.confidence, source |-> backend]
      BY <3>1
    <3> QED
      BY <3>1, <3>2
  <2>5. D \subseteq Threats(M, F)
    <3> HIDE DEF M
    <3> QED
      BY <2>3
  <2>6. Threats(M, F) \subseteq D
    <3> HIDE DEF M, D
    <3> QED
      BY <2>4
  <2> QED
    BY <2>1, <2>5, <2>6
<1>3. backend = None => D = {}
  BY DEF P, Range
<1>4. backend # None => P = request.predictions[backend]
  BY DEF P
<1> QED
  BY <1>1, <1>2, <1>3, <1>4 DEF Due, Expected, F

\* The invariant is about the engine and the stages alone.
LEMMA EngineStays == EngineInv /\ UNCHANGED <<regexVars, stages>> => EngineInv'
<1> SUFFICES ASSUME EngineInv, UNCHANGED <<regexVars, stages>> PROVE EngineInv'
  OBVIOUS
<1> USE DEF regexVars, listVars, hyperVars
<1>1. ByHyperscan' = ByHyperscan
  BY DEF ByHyperscan
<1>2. (ListInv => ListInv') /\ (HyperInv => HyperInv')
  BY DEF ListInv, ListScanType, Iterates, HyperInv, HyperScanType, Scans, Owned, Undisturbed,
         Hyper!Id
<1>3. (ListAsleep => ListAsleep') /\ (HyperAsleep => HyperAsleep')
  BY DEF ListAsleep, HyperAsleep
<1>4. EnginesTypeOK => EnginesTypeOK'
  BY <1>1 DEF EnginesTypeOK, Hyper!TypeOK, List!TypeOK
<1> QED
  BY <1>1, <1>2, <1>3, <1>4 DEF EngineInv, RegexInv

\* A thread without a call.
LEMMA IdleTyped ==
  Idle \in CallType /\ Idle.best = None /\ Idle.found = <<>> /\ Idle.outcome = "none"
  BY EnginesAssumption DEF Idle, CallType, List!ListConstants

\* The scanner starts right.
LEMMA InitScanner == Init => ScannerInv
<1> SUFFICES ASSUME Init PROVE ScannerInv
  OBVIOUS
<1>1. RegexInv /\ ListAsleep /\ HyperAsleep /\ loop = "idle" /\ version = 1
  BY InitRegex DEF Init, EngineCreated, List!Init, Hyper!Init, ListAsleep, HyperAsleep
<1>2. EnginesTypeOK
  BY <1>1, HyperScans, ListScans DEF RegexInv, EnginesTypeOK
<1>3. EngineInv
  BY <1>1, <1>2 DEF EngineInv
<1>4. Typed
  <2>1. config \in ConfigType /\ stages \subseteq Stages
    BY ScannerAssumption DEF Init, ConfigType
  <2>2. 1 \in 1 .. MaxVersions /\ 0 \in 0 .. MaxPushes
    BY EnginesAssumption, ScannerAssumption DEF List!ListConstants
  <2>3. backend \in Models \cup {None}
    BY ScannerAssumption DEF Init
  <2>4. tierRank \in -1 .. 2 /\ names \in 1 .. MaxVersions /\ pushes \in 0 .. MaxPushes
    BY <2>2 DEF Init
  <2> QED
    BY <2>1, <2>3, <2>4 DEF Init, Typed
<1>5. InStep
  BY <1>1 DEF Init, InStep
<1>6. Tiered
  BY DEF Init, Tiered
<1>7. Called /\ Steadily
  <2>1. Idle \in CallType
    BY IdleTyped
  <2> QED
    BY <2>1 DEF Init, Called, Steadily, Idle
<1> QED
  BY <1>3, <1>4, <1>5, <1>6, <1>7 DEF ScannerInv

\* What is in force is the same while the signatures, the model and the configuration
\* are, except that a thread may get a scratch space of its own.
LEMMA CoursesStay ==
  ASSUME UNCHANGED <<fixed, loopVars>>, UNCHANGED <<engine, version, db>>
  PROVE  /\ \A t : (Recycled(t)' <=> Recycled(t)) => Courses(t)' = Courses(t)
         /\ \A R : InForce(R)' = InForce(R)
<1> USE DEF fixed, loopVars
<1>1. ByHyperscan' = ByHyperscan
  BY DEF ByHyperscan
<1>2. WholeSet' = WholeSet
  BY <1>1 DEF WholeSet
<1>3. RegexFindings(WholeSet)' = RegexFindings(WholeSet) /\ HeuristicFindings' = HeuristicFindings
  BY <1>2 DEF RegexFindings, HeuristicFindings
<1>4. \A t : (Recycled(t)' <=> Recycled(t)) => DueOfRegex(t)' = DueOfRegex(t)
  BY <1>3 DEF DueOfRegex
<1>5. \A R : InForce(R)' = InForce(R)
  BY <1>3 DEF InForce
<1> QED
  BY <1>4, <1>5 DEF Courses

\* A step of thread t: whether its call is steady is s afterwards.
LEMMA ThreadKeeps ==
  ASSUME ScannerInv, NEW t \in Threads, NEW c \in CallType, NEW s \in BOOLEAN,
         call' = [call EXCEPT ![t] = c], steady' = [steady EXCEPT ![t] = s],
         UNCHANGED <<fixed, loopVars>>, UNCHANGED <<engine, version, loop, db>>, EngineInv',
         c.pc = "scanning" => "regex" \in stages,
         s => /\ sync # "reload" /\ \E F \in Courses(t)' : OnCourse(c, F)
              /\ c.pc = "scanning" => Following(t)',
         \A u \in Threads : u # t =>
           (Following(u) => Following(u)') /\ (Recycled(u)' <=> Recycled(u))
  PROVE  ScannerInv'
<1> USE DEF fixed, loopVars
<1>1. Typed' /\ InStep' /\ Tiered'
  BY DEF ScannerInv, Typed, InStep, Tiered
<1>2. \A u \in Threads : u # t => Courses(u)' = Courses(u)
  BY CoursesStay
<1>3. Called'
  <2>1. call' \in [Threads -> CallType] /\ steady' \in [Threads -> BOOLEAN]
    BY DEF ScannerInv, Called
  <2>2. ASSUME NEW u \in Threads, call'[u].pc = "scanning" PROVE "regex" \in stages
    <3>1. call'[u] = IF u = t THEN c ELSE call[u]
      BY DEF ScannerInv, Called
    <3> QED
      BY <2>2, <3>1 DEF ScannerInv, Called
  <2> QED
    BY <2>1, <2>2 DEF Called
<1>4. ASSUME NEW u \in Threads, steady'[u]
      PROVE  /\ sync' # "reload"
             /\ \E F \in Courses(u)' : OnCourse(call'[u], F)
             /\ call'[u].pc = "scanning" => Following(u)'
  <2>1. CASE u = t
    <3>1. call'[u] = c /\ s
      BY <1>4, <2>1 DEF ScannerInv, Called
    <3> QED
      BY <2>1, <3>1
  <2>2. CASE u # t
    <3>1. call'[u] = call[u] /\ steady[u]
      BY <1>4, <2>2 DEF ScannerInv, Called
    <3>2. /\ sync # "reload" /\ \E F \in Courses(u) : OnCourse(call[u], F)
          /\ call[u].pc = "scanning" => Following(u)
      BY <3>1 DEF ScannerInv, Steadily
    <3> QED
      BY <1>2, <2>2, <3>1, <3>2
  <2> QED
    BY <2>1, <2>2
<1>5. Steadily'
  BY <1>4 DEF Steadily
<1> QED
  BY <1>1, <1>3, <1>5 DEF ScannerInv

\* A step of the loop that disturbs every call.
LEMMA LoopKeeps ==
  ASSUME ScannerInv, Disturb, UNCHANGED <<call, stages>>, Typed', EngineInv', InStep', Tiered'
  PROVE  ScannerInv'
<1>1. Called' /\ Steadily'
  BY DEF ScannerInv, Called, Steadily, Disturb
<1> QED
  BY <1>1 DEF ScannerInv

\* A step of scan() that does not touch the engine.
LEMMA ScanKeeps ==
  ASSUME ScannerInv, NEW t \in Threads, NEW c \in CallType, Goes(t, c), InThread,
         UNCHANGED regexVars, c.pc # "scanning",
         \A F \in Courses(t) : steady[t] /\ OnCourse(call[t], F) => OnCourse(c, F)
  PROVE  ScannerInv'
<1>1. steady' = [steady EXCEPT ![t] = steady[t]] /\ call' = [call EXCEPT ![t] = c]
      /\ UNCHANGED <<fixed, loopVars>> /\ steady[t] \in BOOLEAN
  BY DEF ScannerInv, Called, InThread, Goes
<1>2. UNCHANGED <<engine, version, loop, db>>
  BY DEF regexVars, hyperVars
<1>3. EngineInv'
  BY <1>1, EngineStays DEF ScannerInv, fixed
<1>4. ASSUME NEW u \in Threads
      PROVE  (Following(u) => Following(u)') /\ (Recycled(u)' <=> Recycled(u))
  BY DEF Following, Recycled, ByHyperscan, regexVars, listVars, hyperVars
<1>5. Courses(t)' = Courses(t)
  BY <1>1, <1>2, <1>4, CoursesStay
<1>6. steady[t] => sync # "reload" /\ \E F \in Courses(t) : OnCourse(c, F)
  BY DEF ScannerInv, Steadily
<1> DEFINE b == steady[t]
<1>7. b \in BOOLEAN /\ steady' = [steady EXCEPT ![t] = b]
      /\ (b => /\ sync # "reload" /\ \E F \in Courses(t)' : OnCourse(c, F)
               /\ c.pc = "scanning" => Following(t)')
  BY <1>1, <1>5, <1>6
<1> HIDE DEF b
<1> QED
  BY <1>1, <1>2, <1>3, <1>4, <1>7, ThreadKeeps

\* What the invariant says of the call in thread t.
LEMMA CallNow ==
  ASSUME ScannerInv, NEW t \in Threads
  PROVE  /\ call[t] \in CallType /\ steady[t] \in BOOLEAN
         /\ steady[t] => sync # "reload" /\ \E F \in Courses(t) : OnCourse(call[t], F)
         /\ \A F \in Courses(t) :
              /\ F \in ForceType /\ F.enabled = config.enabled /\ F.backend = backend
              /\ F.threshold = config.threshold /\ F.action = config.action
              /\ F.says = (IF backend = None THEN <<>> ELSE request.predictions[backend])
              /\ F.heuristics = (IF "heuristics" \in stages THEN Range(HeuristicFindings) ELSE {})
         /\ config \in ConfigType /\ backend \in Models \cup {None} /\ RequestType(request)
<1>1. RequestType(request)
  BY ForceTyped DEF ScannerInv
<1>2. ASSUME NEW F \in Courses(t)
      PROVE  /\ F \in ForceType /\ F.enabled = config.enabled /\ F.backend = backend
             /\ F.threshold = config.threshold /\ F.action = config.action
             /\ F.says = (IF backend = None THEN <<>> ELSE request.predictions[backend])
             /\ F.heuristics = (IF "heuristics" \in stages THEN Range(HeuristicFindings) ELSE {})
  <2>1. PICK R \in DueOfRegex(t) : F = InForce(R)
    BY DEF Courses
  <2>2. F \in ForceType
    BY <2>1, ForceTyped DEF ScannerInv
  <2> QED
    BY <2>1, <2>2 DEF InForce
<1> QED
  BY <1>1, <1>2 DEF ScannerInv, Called, Steadily, Typed

\* The steps of a scan before and after the regex stage.
LEMMA EntersKeeps == ASSUME ScannerInv, NEW t \in Threads, Enters(t) PROVE ScannerInv'
<1> DEFINE r == call[t]
           c == [r EXCEPT !.pc = IF config.enabled THEN "regex" ELSE "done"]
<1>1. r \in CallType /\ r.pc = "called" /\ Goes(t, c) /\ InThread /\ UNCHANGED regexVars
  BY CallNow DEF Enters
<1>2. c \in CallType /\ c.pc # "scanning"
  BY <1>1 DEF CallType
<1>3. ASSUME NEW F \in Courses(t), OnCourse(r, F) PROVE OnCourse(c, F)
  BY <1>1, <1>3, CallNow, EntersOnCourse
<1> HIDE DEF c
<1> QED
  BY <1>1, <1>2, <1>3, ScanKeeps

\* The heuristics.
LEMMA HeuristicsKeeps ==
  ASSUME ScannerInv, NEW t \in Threads, RunsHeuristics(t) PROVE ScannerInv'
<1> DEFINE r == call[t]
           b == IF "heuristics" \in stages THEN BestOf(r.best, HeuristicFindings) ELSE r.best
           c == [r EXCEPT !.pc = "ml", !.best = b]
<1>1. r \in CallType /\ r.pc = "heuristics" /\ InThread /\ UNCHANGED regexVars
  BY CallNow DEF RunsHeuristics
<1>2. Goes(t, c)
  BY DEF RunsHeuristics
<1>3. HeuristicFindings \in Seq(Findings)
  BY ForceTyped DEF ScannerInv
<1>4. b \in Findings \cup {None}
  BY <1>1, <1>3, BestOfTyped DEF CallType
<1>5. ASSUME NEW F \in Courses(t), OnCourse(r, F) PROVE BestIn(b, F.regex \cup F.heuristics)
  <2> DEFINE R == F.regex
  <2>1. BestIn(r.best, R) /\ R \in SUBSET Findings
    <3>1. F \in ForceType
      BY CallNow
    <3> HIDE DEF r
    <3> QED
      BY <1>1, <1>5, <3>1 DEF OnCourse, ForceType
  <2>2. F.heuristics = IF "heuristics" \in stages THEN Range(HeuristicFindings) ELSE {}
    BY CallNow
  <2> HIDE DEF R, r
  <2>3. BestIn(BestOf(r.best, HeuristicFindings), R \cup Range(HeuristicFindings))
    BY <1>3, <2>1, BestOfAll
  <2>4. R \cup {} = R
    OBVIOUS
  <2> QED
    BY <2>1, <2>2, <2>3, <2>4 DEF R
<1> HIDE DEF b
<1>6. c \in CallType /\ c.pc # "scanning"
  BY <1>1, <1>4 DEF CallType
<1>7. ASSUME NEW F \in Courses(t), OnCourse(r, F) PROVE OnCourse(c, F)
  BY <1>1, <1>5, <1>7, CallNow, HeuristicsOnCourse
<1> HIDE DEF c
<1> QED
  BY <1>1, <1>2, <1>6, <1>7, ScanKeeps

\* The classifier looks for a backend, twice.
LEMMA AsksKeeps ==
  ASSUME ScannerInv, NEW t \in Threads, AsksForModel(t) \/ PredictStarts(t) PROVE ScannerInv'
<1> DEFINE r == call[t]
<1>1. r \in CallType /\ r.pc \in {"ml", "predict"} /\ InThread /\ UNCHANGED regexVars
  BY CallNow DEF AsksForModel, PredictStarts
<1>2. PICK goal \in {"predict", "bind"} :
        Goes(t, [r EXCEPT !.pc = IF backend # None THEN goal ELSE "done"])
  BY DEF AsksForModel, PredictStarts
<1> DEFINE c == [r EXCEPT !.pc = IF backend # None THEN goal ELSE "done"]
<1>3. c \in CallType /\ c.pc # "scanning"
  BY <1>1 DEF CallType
<1>4. ASSUME NEW F \in Courses(t), OnCourse(r, F) PROVE OnCourse(c, F)
  <2>1. F \in ForceType /\ F.backend = backend /\ (F.backend = None => F.says = <<>>)
    BY CallNow
  <2>2. c = [r EXCEPT !.pc = IF F.backend # None THEN goal ELSE "done"]
    BY <2>1
  <2> HIDE DEF c, r
  <2> QED
    BY <1>1, <1>4, <2>1, <2>2, AsksOnCourse
<1>5. Goes(t, c)
  BY <1>2
<1> HIDE DEF c
<1> QED
  BY <1>1, <1>3, <1>4, <1>5, ScanKeeps

\* A call that is steady still has the backend it saw.
LEMMA PredictsKeeps ==
  ASSUME ScannerInv, NEW t \in Threads, Predicts(t) PROVE ScannerInv'
<1> DEFINE r == call[t]
<1>1. r \in CallType /\ r.pc = "bind" /\ InThread /\ UNCHANGED regexVars
  BY CallNow DEF Predicts
<1>2. CASE backend # None
  <2> DEFINE says == request.predictions[backend]
             c == [r EXCEPT !.pc = "attribute", !.left = says]
  <2>1. Goes(t, c)
    BY <1>2 DEF Predicts
  <2>2. says \in Seq(Predictions) /\ \A F \in Courses(t) : F.says = says
    BY <1>2, CallNow DEF RequestType
  <2> HIDE DEF says
  <2>3. c \in CallType /\ c.pc # "scanning"
    BY <1>1, <2>2 DEF CallType
  <2>4. ASSUME NEW F \in Courses(t), OnCourse(r, F) PROVE OnCourse(c, F)
    BY <1>1, <2>2, <2>4, CallNow, PredictsOnCourse
  <2> HIDE DEF c
  <2> QED
    BY <1>1, <2>1, <2>3, <2>4, ScanKeeps
<1>3. CASE backend = None
  <2>1. PICK pc \in {"raised", "done"} : Goes(t, [r EXCEPT !.pc = pc])
    BY <1>3 DEF Predicts
  <2> DEFINE c == [r EXCEPT !.pc = pc]
  <2>2. c \in CallType /\ c.pc # "scanning"
    BY <1>1 DEF CallType
  <2>3. ~steady[t]
    <3>1. steady[t] => \E F \in Courses(t) : OnCourse(r, F) /\ F.backend = None
      BY <1>3, CallNow
    <3> QED
      BY <1>1, <3>1 DEF OnCourse
  <2>4. Goes(t, c)
    BY <2>1
  <2> HIDE DEF c
  <2> QED
    BY <1>1, <2>2, <2>3, <2>4, ScanKeeps
<1> QED
  BY <1>2, <1>3

\* A prediction above the threshold is a match of the model in force.
LEMMA AttributesKeeps ==
  ASSUME ScannerInv, NEW t \in Threads, Attributes(t) PROVE ScannerInv'
<1> DEFINE r == call[t]
           p == Head(r.left)
           match == [category |-> p.category, confidence |-> p.confidence, source |-> backend]
           c1 == [r EXCEPT !.pc = "combine"]
           c2 == [r EXCEPT !.left = Tail(@)]
           c3 == [r EXCEPT !.pc = "done", !.found = <<>>, !.left = <<>>]
           c4 == [r EXCEPT !.left = Tail(@), !.found = Append(@, match)]
<1>1. /\ r \in CallType /\ r.pc = "attribute" /\ InThread /\ UNCHANGED regexVars
      /\ \A F \in Courses(t) :
           F \in ForceType /\ F.backend = backend /\ F.threshold = config.threshold
      /\ backend \in Models \cup {None}
  BY CallNow DEF Attributes
<1>2. Goes(t, IF r.left = <<>> THEN c1
              ELSE IF p.confidence < config.threshold THEN c2
              ELSE IF backend = None THEN c3 ELSE c4)
  BY DEF Attributes
<1>3. c1 \in CallType /\ c3 \in CallType /\ c1.pc # "scanning" /\ c3.pc # "scanning"
  <2>1. c1 \in CallType /\ c1.pc = "combine"
    BY <1>1 DEF CallType
  <2>2. <<>> \in Seq(ModelMatches) /\ <<>> \in Seq(Predictions)
    OBVIOUS
  <2> DEFINE e == <<>>
             c == [r EXCEPT !.pc = "done", !.found = e, !.left = e]
  <2> HIDE DEF e
  <2>3. c \in CallType /\ c.pc = "done"
    BY <1>1, <2>2 DEF CallType, e
  <2> QED
    BY <2>1, <2>3 DEF e
<1>4. r.left # <<>> => c2 \in CallType /\ c2.pc # "scanning"
  <2>1. r.left \in Seq(Predictions)
    BY <1>1 DEF CallType
  <2>2. r.left # <<>> => Tail(r.left) \in Seq(Predictions)
    BY <2>1
  <2> QED
    BY <1>1, <2>2 DEF CallType
<1>5. ASSUME r.left # <<>>, ~(p.confidence < config.threshold), backend # None
      PROVE  c4 \in CallType /\ c4.pc # "scanning"
  <2>1. r.left \in Seq(Predictions) /\ r.found \in Seq(ModelMatches)
    BY <1>1 DEF CallType
  <2>2. Tail(r.left) \in Seq(Predictions) /\ p \in Predictions
    BY <1>5, <2>1
  <2>3. match \in ModelMatches
    BY <1>1, <1>5, <2>2 DEF ModelMatches, Predictions
  <2>4. Append(r.found, match) \in Seq(ModelMatches)
    <3> HIDE DEF match
    <3> QED
      BY <2>1, <2>3
  <2> HIDE DEF match
  <2> QED
    BY <1>1, <2>2, <2>4 DEF CallType
<1>6. ASSUME NEW F \in Courses(t), OnCourse(r, F)
      PROVE  /\ r.left = <<>> => OnCourse(c1, F)
             /\ r.left # <<>> /\ p.confidence < config.threshold => OnCourse(c2, F)
             /\ r.left # <<>> /\ ~(p.confidence < config.threshold) =>
                  backend # None /\ OnCourse(c4, F)
  <2>1. backend # None
    BY <1>1, <1>6 DEF OnCourse
  <2>2. F \in ForceType /\ OnCourse(r, F) /\ F.backend = backend /\ F.threshold = config.threshold
    BY <1>1, <1>6
  <2> HIDE DEF r
  <2>3. r.left = <<>> => OnCourse([r EXCEPT !.pc = "combine"], F)
    BY <1>1, <2>2, AttributesOnCourse
  <2>4. r.left # <<>> /\ Head(r.left).confidence < F.threshold =>
          OnCourse([r EXCEPT !.left = Tail(@)], F)
    BY <1>1, <2>2, AttributesOnCourse
  <2>5. r.left # <<>> /\ ~(Head(r.left).confidence < F.threshold) =>
          OnCourse([r EXCEPT !.left = Tail(@),
                             !.found = Append(@, [category |-> Head(r.left).category,
                                                  confidence |-> Head(r.left).confidence,
                                                  source |-> F.backend])], F)
    BY <1>1, <2>2, AttributesOnCourse
  <2> QED
    BY <2>1, <2>2, <2>3, <2>4, <2>5
<1> HIDE DEF c1, c2, c3, c4, p, match
<1>7. PICK c : /\ c \in CallType /\ c.pc # "scanning" /\ Goes(t, c)
               /\ \A F \in Courses(t) : OnCourse(r, F) => OnCourse(c, F)
  BY <1>2, <1>3, <1>4, <1>5, <1>6
<1> QED
  BY <1>1, <1>7, ScanKeeps

\* A match that is a threat is compared with the best.
LEMMA CombinesKeeps ==
  ASSUME ScannerInv, NEW t \in Threads, Combines(t) PROVE ScannerInv'
<1> DEFINE r == call[t]
           f == Head(r.found)
           finding == Finding(config.action, f.category, f.confidence, f.source)
           c1 == [r EXCEPT !.pc = "done"]
           c2 == [r EXCEPT !.found = Tail(@)]
           c3 == [r EXCEPT !.found = Tail(@), !.best = Best(@, finding)]
<1>1. /\ r \in CallType /\ r.pc = "combine" /\ InThread /\ UNCHANGED regexVars
      /\ \A F \in Courses(t) : F \in ForceType /\ F.action = config.action
      /\ config.action \in Actions
  BY CallNow DEF Combines, ConfigType
<1>2. Goes(t, IF r.found = <<>> THEN c1 ELSE IF f.category \in Harmless THEN c2 ELSE c3)
  BY DEF Combines
<1>3. c1 \in CallType /\ c1.pc # "scanning"
  BY <1>1 DEF CallType
<1>4. ASSUME r.found # <<>>
      PROVE  c2 \in CallType /\ c2.pc # "scanning" /\ c3 \in CallType /\ c3.pc # "scanning"
  <2>1. r.found \in Seq(ModelMatches) /\ r.best \in Findings \cup {None}
    BY <1>1 DEF CallType
  <2>2. Tail(r.found) \in Seq(ModelMatches) /\ f \in ModelMatches
    BY <1>4, <2>1
  <2>3. finding \in Findings
    <3> HIDE DEF f
    <3> QED
      BY <1>1, <2>2, ThreatsFound
  <2> HIDE DEF finding
  <2>4. Best(r.best, finding) \in Findings \cup {None}
    BY <2>1, <2>3 DEF Best
  <2> QED
    BY <1>1, <2>2, <2>4 DEF CallType
<1>5. ASSUME NEW F \in Courses(t), OnCourse(r, F)
      PROVE  /\ r.found = <<>> => OnCourse(c1, F)
             /\ r.found # <<>> /\ f.category \in Harmless => OnCourse(c2, F)
             /\ r.found # <<>> /\ f.category \notin Harmless => OnCourse(c3, F)
  <2>1. F \in ForceType /\ OnCourse(r, F) /\ F.action = config.action
    BY <1>1, <1>5
  <2> HIDE DEF r
  <2>2. /\ r.found = <<>> => OnCourse([r EXCEPT !.pc = "done"], F)
        /\ r.found # <<>> /\ Head(r.found).category \in Harmless =>
             OnCourse([r EXCEPT !.found = Tail(@)], F)
    BY <1>1, <2>1, CombinesOnCourse
  <2>3. r.found # <<>> /\ Head(r.found).category \notin Harmless =>
          OnCourse([r EXCEPT !.found = Tail(@),
                             !.best = Best(@, Finding(F.action, Head(r.found).category,
                                                      Head(r.found).confidence,
                                                      Head(r.found).source))], F)
    BY <1>1, <2>1, CombinesOnCourse
  <2> QED
    BY <2>1, <2>2, <2>3
<1> HIDE DEF c1, c2, c3, f, finding
<1>6. PICK c : /\ c \in CallType /\ c.pc # "scanning" /\ Goes(t, c)
               /\ \A F \in Courses(t) : OnCourse(r, F) => OnCourse(c, F)
  BY <1>2, <1>3, <1>4, <1>5
<1> QED
  BY <1>1, <1>6, ScanKeeps

\* A scan in thread t leaves the set in force and the other threads alone.
LEMMA ScanAside ==
  ASSUME RegexInv, NEW t \in Threads,
         RegexScanStarts(t) \/ RegexScanGoesOn(t) \/ RegexScanReturns(t)
  PROVE  /\ UNCHANGED <<engine, version, loop, db>>
         /\ \A u \in Threads : u # t =>
              (Following(u) => Following(u)') /\ (Recycled(u)' <=> Recycled(u))
         /\ ~RegexScanGoesOn(t) => (Recycled(t)' <=> Recycled(t))
<1>1. CASE ByHyperscan
  <2>1. /\ engine' = engine /\ UNCHANGED listVars
        /\ Hyper!Snapshots(t) \/ Hyper!GoesOn(t) \/ Hyper!Returns(t)
    BY <1>1 DEF RegexScanStarts, RegexScanGoesOn, RegexScanReturns, Either
  <2>2. /\ UNCHANGED <<version, loop, db>>
        /\ \E s : hyperScan' = [hyperScan EXCEPT ![t] = s]
        /\ \E c : calm' = [calm EXCEPT ![t] = c]
        /\ recycled' \in {recycled, recycled \ {t}}
        /\ ~RegexScanGoesOn(t) => recycled' = recycled
    <3>1. calm = [calm EXCEPT ![t] = calm[t]]
      BY <1>1 DEF RegexInv, HyperInv
    <3>2. CASE Hyper!Snapshots(t) \/ Hyper!Returns(t)
      <4>1. Hyper!Shared /\ UNCHANGED recycled
        BY <3>2 DEF Hyper!Snapshots, Hyper!Returns
      <4>2. /\ \E s : hyperScan' = [hyperScan EXCEPT ![t] = s]
            /\ \E c : calm' = [calm EXCEPT ![t] = c]
        BY <3>2 DEF Hyper!Snapshots, Hyper!Returns, Hyper!Goes
      <4> QED
        BY <4>1, <4>2 DEF Hyper!Shared
    <3>3. CASE Hyper!GoesOn(t)
      <4>1. UNCHANGED calm /\ Hyper!Shared
        BY <3>3 DEF Hyper!GoesOn, Hyper!LooksAtDb, Hyper!Identifies, Hyper!Allocates,
                    Hyper!Matches, Hyper!ScansFallback
      <4>2. \E s : hyperScan' = [hyperScan EXCEPT ![t] = s]
        <5>1. CASE Hyper!LooksAtDb(t)
          BY <5>1 DEF Hyper!LooksAtDb, Hyper!Goes
        <5>2. CASE Hyper!Identifies(t)
          BY <5>2 DEF Hyper!Identifies, Hyper!Goes
        <5>3. CASE Hyper!Allocates(t)
          BY <5>3 DEF Hyper!Allocates, Hyper!Goes
        <5>4. CASE Hyper!Matches(t)
          BY <5>4 DEF Hyper!Matches, Hyper!Goes
        <5>5. CASE Hyper!ScansFallback(t)
          BY <5>5 DEF Hyper!ScansFallback, Hyper!Goes
        <5> QED
          BY <3>3, <5>1, <5>2, <5>3, <5>4, <5>5 DEF Hyper!GoesOn
      <4>3. recycled' \in {recycled, recycled \ {t}}
        BY <3>3 DEF Hyper!GoesOn, Hyper!LooksAtDb, Hyper!Identifies, Hyper!Allocates,
                    Hyper!Matches, Hyper!ScansFallback
      <4>4. RegexScanGoesOn(t)
        BY <1>1, <2>1, <3>3 DEF RegexScanGoesOn, Either
      <4> QED
        BY <3>1, <4>1, <4>2, <4>3, <4>4 DEF Hyper!Shared
    <3> QED
      BY <2>1, <3>2, <3>3
  <2>3. \A u \in Threads : u # t => hyperScan'[u] = hyperScan[u] /\ calm'[u] = calm[u]
    BY <1>1, <2>2 DEF RegexInv, HyperInv
  <2>4. \A u \in Threads : u # t => (u \in recycled' <=> u \in recycled)
    BY <2>2
  <2> QED
    BY <1>1, <2>1, <2>2, <2>3, <2>4 DEF Following, Recycled, ByHyperscan
<1>2. CASE ~ByHyperscan
  <2>1. /\ engine' = engine /\ UNCHANGED hyperVars
        /\ List!ScanStarts(t) \/ List!ScanGoesOn(t) \/ List!ScanReturns(t)
    BY <1>2 DEF RegexScanStarts, RegexScanGoesOn, RegexScanReturns, Either
  <2>2. UNCHANGED <<version, loop, db>>
    BY <2>1 DEF hyperVars, List!ScanStarts, List!ScanGoesOn, List!ScanReturns
  <2>3. listScan \in [Threads -> ListScanType] /\ since \in [Threads -> 0 .. MaxVersions]
    BY <1>2 DEF RegexInv, ListInv
  <2>4. \A u \in Threads : u # t => listScan'[u] = listScan[u] /\ since'[u] = since[u]
    <3>1. CASE List!ScanStarts(t)
      BY <2>3, <3>1 DEF List!ScanStarts
    <3>2. CASE List!ScanGoesOn(t)
      BY <2>3, <3>2 DEF List!ScanGoesOn
    <3>3. CASE List!ScanReturns(t)
      BY <2>3, <3>3 DEF List!ScanReturns
    <3> QED
      BY <2>1, <3>1, <3>2, <3>3
  <2> QED
    BY <1>2, <2>1, <2>2, <2>4 DEF Following, Recycled, ByHyperscan
<1> QED
  BY <1>1, <1>2

\* A scan that starts between reloads follows the set in force, and goes on to.
LEMMA ScanFollows ==
  ASSUME RegexInv, NEW t \in Threads
  PROVE  /\ RegexScanStarts(t) /\ loop = "idle" => Following(t)'
         /\ RegexScanGoesOn(t) /\ Following(t) => Following(t)'
<1>1. ByHyperscan => hyperScan \in [Threads -> HyperScanType] /\ calm \in [Threads -> BOOLEAN]
  BY DEF RegexInv, HyperInv
<1>2. ~ByHyperscan => /\ listScan \in [Threads -> ListScanType]
                      /\ since \in [Threads -> 0 .. MaxVersions]
  BY DEF RegexInv, ListInv
<1>3. ASSUME RegexScanStarts(t), loop = "idle" PROVE Following(t)'
  <2>1. CASE ByHyperscan
    <3>1. Hyper!Snapshots(t) /\ engine' = engine
      BY <1>3, <2>1 DEF RegexScanStarts, Either
    <3>2. calm'[t] /\ hyperScan'[t].pc # "ready"
      <4> DEFINE s == [Hyper!Ready EXCEPT !.db = db, !.map = map,
                                           !.pc = IF db = None THEN "fallback" ELSE "scratch"]
      <4>1. hyperScan' = [hyperScan EXCEPT ![t] = s] /\ calm' = [calm EXCEPT ![t] = TRUE]
        BY <3>1 DEF Hyper!Snapshots, Hyper!Goes
      <4>2. s.pc # "ready"
        BY DEF Hyper!Ready
      <4> HIDE DEF s
      <4> QED
        BY <1>1, <2>1, <4>1, <4>2
    <3> QED
      BY <2>1, <3>1, <3>2 DEF Following, ByHyperscan
  <2>2. CASE ~ByHyperscan
    <3>1. List!ScanStarts(t) /\ engine' = engine
      BY <1>3, <2>2 DEF RegexScanStarts, Either
    <3>2. since'[t] = version' /\ listScan'[t].pc # "ready"
      BY <1>2, <1>3, <2>2, <3>1 DEF List!ScanStarts
    <3> QED
      BY <2>2, <3>1, <3>2 DEF Following, ByHyperscan
  <2> QED
    BY <2>1, <2>2
<1>4. ASSUME RegexScanGoesOn(t), Following(t) PROVE Following(t)'
  <2>1. CASE ByHyperscan
    <3>1. Hyper!GoesOn(t) /\ engine' = engine
      BY <1>4, <2>1 DEF RegexScanGoesOn, Either
    <3>2. UNCHANGED calm
      BY <3>1 DEF Hyper!GoesOn, Hyper!LooksAtDb, Hyper!Identifies, Hyper!Allocates,
                  Hyper!Matches, Hyper!ScansFallback
    <3>3. hyperScan'[t].pc # "ready"
      <4> DEFINE r == hyperScan[t]
      <4>1. r \in HyperScanType
        BY <1>1, <2>1
      <4>2. PICK s : hyperScan' = [hyperScan EXCEPT ![t] = s] /\ s.pc # "ready"
        <5>1. CASE Hyper!LooksAtDb(t)
          <6> DEFINE s == IF db = None THEN [r EXCEPT !.pc = "fallback", !.outcome = "skipped"]
                          ELSE [r EXCEPT !.pc = "identify"]
          <6>1. hyperScan' = [hyperScan EXCEPT ![t] = s]
            BY <5>1 DEF Hyper!LooksAtDb, Hyper!Goes
          <6>2. s.pc # "ready"
            BY <4>1 DEF HyperScanType
          <6> QED
            BY <6>1, <6>2
        <5>2. CASE Hyper!Identifies(t)
          <6> DEFINE s == [r EXCEPT !.id = Hyper!Id,
                             !.pc = IF scratch[t] = None \/ owner[t] # Hyper!Id
                                    THEN "allocate" ELSE "match"]
          <6>1. hyperScan' = [hyperScan EXCEPT ![t] = s]
            BY <5>2 DEF Hyper!Identifies, Hyper!Goes
          <6>2. s.pc # "ready"
            BY <4>1 DEF HyperScanType
          <6> QED
            BY <6>1, <6>2
        <5>3. CASE Hyper!Allocates(t)
          <6> DEFINE S == {[r EXCEPT !.pc = "match"],
                           [r EXCEPT !.pc = "fallback", !.outcome = "skipped"],
                           [r EXCEPT !.pc = "done", !.outcome = "raised"]}
          <6>1. \E s \in S : hyperScan' = [hyperScan EXCEPT ![t] = s]
            BY <5>3 DEF Hyper!Allocates, Hyper!Goes
          <6>2. \A s \in S : s.pc # "ready"
            BY <4>1 DEF HyperScanType
          <6> QED
            BY <6>1, <6>2
        <5>4. CASE Hyper!Matches(t)
          <6> DEFINE S == {[r EXCEPT !.pc = "fallback", !.outcome = "matched"],
                           [r EXCEPT !.pc = "fallback", !.outcome = "skipped"]}
          <6>1. \E s \in S : hyperScan' = [hyperScan EXCEPT ![t] = s]
            BY <5>4 DEF Hyper!Matches, Hyper!Goes
          <6>2. \A s \in S : s.pc # "ready"
            BY <4>1 DEF HyperScanType
          <6> QED
            BY <6>1, <6>2
        <5>5. CASE Hyper!ScansFallback(t)
          <6>1. hyperScan' = [hyperScan EXCEPT ![t] = [r EXCEPT !.pc = "done"]]
            BY <5>5 DEF Hyper!ScansFallback, Hyper!Goes
          <6>2. [r EXCEPT !.pc = "done"].pc # "ready"
            BY <4>1 DEF HyperScanType
          <6> QED
            BY <6>1, <6>2
        <5> QED
          BY <3>1, <5>1, <5>2, <5>3, <5>4, <5>5 DEF Hyper!GoesOn
      <4> QED
        BY <1>1, <2>1, <4>2
    <3> QED
      BY <1>4, <2>1, <3>1, <3>2, <3>3 DEF Following, ByHyperscan
  <2>2. CASE ~ByHyperscan
    <3>1. List!ScanGoesOn(t) /\ engine' = engine
      BY <1>4, <2>2 DEF RegexScanGoesOn, Either
    <3>2. UNCHANGED <<since, version>> /\ listScan'[t].pc # "ready"
      <4>1. listScan[t].pc = "iterating" /\ listScan[t] \in ListScanType
        BY <1>2, <2>2, <3>1 DEF List!ScanGoesOn
      <4>2. listScan'[t].pc \in {"iterating", "done"}
        BY <1>2, <2>2, <3>1, <4>1 DEF List!ScanGoesOn, ListScanType
      <4> QED
        BY <3>1, <4>2 DEF List!ScanGoesOn
    <3> QED
      BY <1>4, <2>2, <3>1, <3>2 DEF Following, ByHyperscan
  <2> QED
    BY <2>1, <2>2
<1> QED
  BY <1>3, <1>4

\* A scan that has followed it to the end reports the whole set, or nothing where a
\* scratch space may pass for the database's.
LEMMA FollowedIsWhole ==
  ASSUME RegexInv, version # 0, NEW t \in Threads, Following(t),
         IF ByHyperscan THEN hyperScan[t].pc = "done" ELSE listScan[t].pc = "done"
  PROVE  ~RegexRaised(t) /\ (Reported(t) = WholeSet \/ (Recycled(t) /\ Reported(t) = <<>>))
<1>1. CASE ByHyperscan
  <2> DEFINE r == hyperScan[t]
  <2>1. HyperInv /\ calm[t]
    BY <1>1 DEF RegexInv, Following
  <2>2. r.pc = "done" /\ r.pc # "ready"
    BY <1>1
  <2>3. /\ Undisturbed(r, calm[t], scratch[t], db, loop, t \in recycled)
        /\ Scans(r) /\ r \in HyperScanType
    BY <2>1 DEF HyperInv
  <2>4. loop = "idle"
    BY <2>1, <2>2, <2>3 DEF Undisturbed
  <2>5. db # None => db = version
    BY <2>1, <2>4 DEF HyperInv
  <2> HIDE DEF r
  <2>6. /\ r.db = db
        /\ db = None => r.outcome = "none"
        /\ db # None => /\ r.outcome \in {"matched", "skipped"} /\ r.map = db
                        /\ r.outcome = "matched" \/ t \in recycled
    BY <2>1, <2>2, <2>3 DEF Scans, Undisturbed
  <2>7. /\ RegexRaised(t) <=> r.outcome = "raised"
        /\ Recycled(t) <=> t \in recycled
        /\ Reported(t) = IF r.outcome # "matched" THEN <<>>
                         ELSE [i \in 1 .. Size |-> [version |-> r.map, index |-> i]]
        /\ WholeSet = IF db = None THEN <<>>
                      ELSE [i \in 1 .. Size |-> [version |-> version, index |-> i]]
    BY <1>1 DEF RegexRaised, Reported, WholeSet, Recycled, r
  <2> QED
    BY <2>5, <2>6, <2>7
<1>2. CASE ~ByHyperscan
  <2>1. List!SettledScansAreWhole
    BY <1>2, ListScans DEF RegexInv
  <2>2. listScan[t].applied = List!Whole(version)
    BY <1>2, <2>1 DEF List!SettledScansAreWhole, Following
  <2> QED
    BY <1>2, <2>2 DEF RegexRaised, Reported, WholeSet
<1> QED
  BY <1>1, <1>2

\* The regex stage.
LEMMA StartsRegexKeeps ==
  ASSUME ScannerInv, NEW t \in Threads, StartsRegex(t) PROVE ScannerInv'
<1> DEFINE r == call[t]
<1>1. r \in CallType /\ r.pc = "regex" /\ InThread
  BY CallNow DEF StartsRegex
<1>2. CASE "regex" \in stages
  <2> DEFINE c == [r EXCEPT !.pc = "scanning"]
             b == steady[t]
  <2>1. RegexScanStarts(t) /\ Goes(t, c) /\ RegexInv
    BY <1>2 DEF StartsRegex, ScannerInv, EngineInv
  <2>2. c \in CallType
    BY <1>1 DEF CallType
  <2>3. EngineInv'
    BY <1>1, <1>2, <2>1, RegexScanKeeps DEF EngineInv, InThread, fixed
  <2>4. /\ UNCHANGED <<engine, version, loop, db>>
        /\ \A u \in Threads : u # t =>
             (Following(u) => Following(u)') /\ (Recycled(u)' <=> Recycled(u))
    BY <2>1, ScanAside
  <2>5. b => sync # "reload" /\ (\E F \in Courses(t)' : OnCourse(c, F)) /\ Following(t)'
    <3>1. b => sync # "reload" /\ loop = "idle"
      BY CallNow DEF ScannerInv, InStep
    <3>2. ASSUME NEW F \in Courses(t), OnCourse(r, F) PROVE OnCourse(c, F)
      BY <1>1, <3>2, CallNow, SkipsOnCourse
    <3>3. Courses(t)' = Courses(t)
      <4>1. ~RegexScanGoesOn(t)
        BY <2>1 DEF RegexInv, RegexScanStarts, RegexScanGoesOn, Either, Hyper!Snapshots,
                    Hyper!GoesOn, Hyper!LooksAtDb, Hyper!Identifies, Hyper!Allocates,
                    Hyper!Matches, Hyper!ScansFallback, List!ScanStarts, List!ScanGoesOn
      <4>2. Recycled(t)' <=> Recycled(t)
        BY <2>1, <4>1, ScanAside
      <4> QED
        BY <1>1, <2>4, <4>2, CoursesStay DEF InThread
    <3>4. b => \E F \in Courses(t) : OnCourse(r, F)
      BY CallNow
    <3> HIDE DEF c, b, r
    <3>5. b => \E F \in Courses(t)' : OnCourse(c, F)
      BY <3>2, <3>3, <3>4
    <3> QED
      BY <2>1, <3>1, <3>5, ScanFollows
  <2>6. /\ call' = [call EXCEPT ![t] = c] /\ steady' = [steady EXCEPT ![t] = b]
        /\ UNCHANGED <<fixed, loopVars>> /\ b \in BOOLEAN
    BY <1>1, <2>1 DEF Goes, InThread, ScannerInv, Called
  <2> HIDE DEF b, c
  <2> QED
    BY <1>2, <2>2, <2>3, <2>4, <2>5, <2>6, ThreadKeeps
<1>3. CASE "regex" \notin stages
  <2> DEFINE c == [r EXCEPT !.pc = "heuristics"]
  <2>1. UNCHANGED regexVars /\ Goes(t, c)
    BY <1>3 DEF StartsRegex
  <2>2. c \in CallType /\ c.pc # "scanning"
    BY <1>1 DEF CallType
  <2>3. ASSUME NEW F \in Courses(t), OnCourse(r, F) PROVE OnCourse(c, F)
    <3>1. DueOfRegex(t) = {{}}
      BY <1>3 DEF DueOfRegex
    <3>2. F.regex = {}
      BY <3>1 DEF Courses, InForce
    <3> QED
      BY <1>1, <2>3, <3>2, CallNow, SkipsOnCourse
  <2> HIDE DEF c
  <2> QED
    BY <1>1, <2>1, <2>2, <2>3, ScanKeeps
<1> QED
  BY <1>2, <1>3

\* A step of the engine.
LEMMA RunsRegexKeeps ==
  ASSUME ScannerInv, NEW t \in Threads, RunsRegex(t) PROVE ScannerInv'
<1> DEFINE c == call[t]
           b == steady[t]
<1>1. c \in CallType /\ c.pc = "scanning" /\ InThread /\ UNCHANGED call /\ RegexScanGoesOn(t)
  BY CallNow DEF RunsRegex
<1>2. "regex" \in stages /\ RegexInv
  BY <1>1 DEF ScannerInv, Called, EngineInv
<1>3. EngineInv'
  BY <1>1, <1>2, RegexScanKeeps DEF EngineInv, InThread, fixed
<1>4. /\ UNCHANGED <<engine, version, loop, db>>
      /\ \A u \in Threads : u # t =>
           (Following(u) => Following(u)') /\ (Recycled(u)' <=> Recycled(u))
  BY <1>1, <1>2, ScanAside
<1>5. b => sync # "reload" /\ (\E F \in Courses(t)' : OnCourse(c, F)) /\ Following(t)'
  <2> SUFFICES ASSUME b
               PROVE  sync # "reload" /\ (\E F \in Courses(t)' : OnCourse(c, F)) /\ Following(t)'
    OBVIOUS
  <2>1. sync # "reload" /\ (\E F \in Courses(t) : OnCourse(c, F)) /\ Following(t)
    BY <1>1 DEF ScannerInv, Steadily
  <2>2. Following(t)'
    BY <1>1, <1>2, <2>1, ScanFollows
  <2>3. PICK R \in DueOfRegex(t) : OnCourse(c, InForce(R))
    BY <2>1 DEF Courses
  <2>4. PICK S : S \in DueOfRegex(t)'
    BY DEF DueOfRegex
  <2>5. OnCourse(c, InForce(S))
    <3>1. /\ InForce(S).check = InForce(R).check /\ InForce(S).names = InForce(R).names
          /\ InForce(S).enabled = InForce(R).enabled
      BY DEF InForce
    <3> HIDE DEF c
    <3> QED
      BY <1>1, <2>3, <3>1 DEF OnCourse
  <2>6. InForce(S)' = InForce(S)
    BY <1>1, <1>4, CoursesStay DEF InThread
  <2>7. InForce(S)' \in Courses(t)'
    BY <2>4 DEF Courses
  <2> QED
    BY <2>1, <2>2, <2>5, <2>6, <2>7
<1>6. /\ call' = [call EXCEPT ![t] = c] /\ steady' = [steady EXCEPT ![t] = b]
      /\ UNCHANGED <<fixed, loopVars>> /\ b \in BOOLEAN
  BY <1>1 DEF InThread, ScannerInv, Called
<1> HIDE DEF b, c
<1> QED
  BY <1>1, <1>2, <1>3, <1>4, <1>5, <1>6, ThreadKeeps

\* A steady scan comes back with the whole set.
LEMMA EndsRegexKeeps ==
  ASSUME ScannerInv, NEW t \in Threads, EndsRegex(t) PROVE ScannerInv'
<1> DEFINE r == call[t]
           ps == Reported(t)
           fs == RegexFindings(ps)
           raised == RegexRaised(t)
           c1 == [r EXCEPT !.pc = "raised"]
           c2 == [r EXCEPT !.pc = "heuristics", !.best = BestOf(@, fs)]
           c == IF raised THEN c1 ELSE c2
           b == steady[t]
<1>1. r \in CallType /\ r.pc = "scanning" /\ InThread /\ RegexScanReturns(t) /\ Goes(t, c)
  BY CallNow DEF EndsRegex
<1>2. "regex" \in stages /\ RegexInv
  BY <1>1 DEF ScannerInv, Called, EngineInv
<1>3. EngineInv'
  BY <1>1, <1>2, RegexScanKeeps DEF EngineInv, InThread, fixed
<1>4. ps \in Seq(List!Patterns)
  <2>1. CASE ~ByHyperscan
    <3>1. listScan[t].applied \in Seq(Valid)
      BY <1>2, <2>1 DEF RegexInv, ListInv, ListScanType
    <3>2. Valid \subseteq List!Patterns
      BY DEF Valid
    <3> QED
      BY <2>1, <3>1, <3>2 DEF Reported
  <2>2. CASE ByHyperscan
    <3> DEFINE m == hyperScan[t].map
    <3>1. m \in 1 .. MaxVersions /\ Size \in Nat
      BY <1>2, <2>2, EnginesAssumption
         DEF RegexInv, HyperInv, HyperScanType, Hyper!Versions, List!ListConstants
    <3> HIDE DEF m
    <3>2. \A i \in 1 .. Size : [version |-> m, index |-> i] \in List!Patterns
      BY <3>1 DEF List!Patterns
    <3>3. [i \in 1 .. Size |-> [version |-> m, index |-> i]] \in Seq(List!Patterns)
      BY <3>1, <3>2
    <3>4. <<>> \in Seq(List!Patterns)
      OBVIOUS
    <3> QED
      BY <2>2, <3>3, <3>4 DEF Reported, m
  <2> QED
    BY <2>1, <2>2
<1>5. fs \in Seq(Findings)
  <2> HIDE DEF ps
  <2> QED
    BY <1>4, RegexFinds, CallNow
<1>6. c1 \in CallType /\ c2 \in CallType /\ c1.pc = "raised" /\ c2.pc = "heuristics"
  <2>1. BestOf(r.best, fs) \in Findings \cup {None}
    <3>1. r.best \in Findings \cup {None}
      BY <1>1 DEF CallType
    <3> HIDE DEF fs, r
    <3> QED
      BY <1>5, <3>1, BestOfTyped
  <2> HIDE DEF fs
  <2> QED
    BY <1>1, <2>1 DEF CallType
<1>7. b => sync # "reload" /\ \E F \in Courses(t) : OnCourse(c, F)
  <2> SUFFICES ASSUME b PROVE sync # "reload" /\ \E F \in Courses(t) : OnCourse(c, F)
    OBVIOUS
  <2>1. sync # "reload" /\ (\E F \in Courses(t) : OnCourse(r, F)) /\ Following(t)
    BY <1>1 DEF ScannerInv, Steadily
  <2>2. IF ByHyperscan THEN hyperScan[t].pc = "done" ELSE listScan[t].pc = "done"
    BY <1>1 DEF RegexScanReturns, Either, Hyper!Returns, List!ScanReturns
  <2>3. version # 0
    BY ForceTyped DEF ScannerInv
  <2>4. ~raised /\ (ps = WholeSet \/ (Recycled(t) /\ ps = <<>>))
    BY <1>2, <2>1, <2>2, <2>3, FollowedIsWhole
  <2> DEFINE R == Range(fs)
             F == InForce(R)
  <2>5. R \in DueOfRegex(t)
    <3>1. ps = <<>> => R = {}
      <4> SUFFICES ASSUME ps = <<>> PROVE R = {}
        OBVIOUS
      <4>1. \A i \in DOMAIN fs : FALSE
        BY RegexFindsNothing
      <4> HIDE DEF fs
      <4> QED
        BY <4>1 DEF Range
    <3>2. ps = WholeSet => R \in DueOfRegex(t)
      BY <1>2 DEF DueOfRegex
    <3> HIDE DEF R, ps
    <3> QED
      BY <2>4, <3>1, <3>2 DEF DueOfRegex
  <2>6. F \in Courses(t) /\ F.regex = R
    BY <2>5 DEF Courses, InForce
  <2>7. OnCourse(r, F)
    <3>1. PICK S \in DueOfRegex(t) : OnCourse(r, InForce(S))
      BY <2>1 DEF Courses
    <3>2. /\ InForce(S).check = F.check /\ InForce(S).names = F.names
          /\ InForce(S).enabled = F.enabled
      BY DEF InForce
    <3> HIDE DEF r, F
    <3> QED
      BY <1>1, <3>1, <3>2 DEF OnCourse
  <2>8. OnCourse(c2, F)
    <3>1. F \in ForceType
      BY <2>6, CallNow
    <3> HIDE DEF fs, r, F
    <3> QED
      BY <1>1, <1>5, <2>6, <2>7, <3>1, ScansOnCourse
  <2> QED
    BY <2>1, <2>4, <2>6, <2>8
<1>8. /\ UNCHANGED <<engine, version, loop, db>>
      /\ \A u \in Threads : u # t =>
           (Following(u) => Following(u)') /\ (Recycled(u)' <=> Recycled(u))
  BY <1>1, <1>2, ScanAside
<1>9. /\ call' = [call EXCEPT ![t] = c] /\ steady' = [steady EXCEPT ![t] = b]
      /\ UNCHANGED <<fixed, loopVars>> /\ b \in BOOLEAN
  BY <1>1 DEF Goes, InThread, ScannerInv, Called
<1>10. c \in CallType /\ c.pc # "scanning"
  <2> HIDE DEF c1, c2
  <2> QED
    BY <1>6
<1>11. Courses(t)' = Courses(t)
  <2>1. ~RegexScanGoesOn(t)
    BY <1>1 DEF RegexScanReturns, RegexScanGoesOn, Either, Hyper!Returns,
                Hyper!GoesOn, Hyper!LooksAtDb, Hyper!Identifies, Hyper!Allocates,
                Hyper!Matches, Hyper!ScansFallback, List!ScanReturns, List!ScanGoesOn
  <2>2. Recycled(t)' <=> Recycled(t)
    BY <1>1, <1>2, <2>1, ScanAside
  <2> QED
    BY <1>1, <1>8, <2>2, CoursesStay DEF InThread
<1> HIDE DEF b, c
<1> QED
  BY <1>3, <1>7, <1>8, <1>9, <1>10, <1>11, ThreadKeeps

\* A call and its answer.
LEMMA CallsKeeps ==
  ASSUME ScannerInv, NEW t \in Threads, Calls(t) PROVE ScannerInv'
<1> DEFINE n == IF request.check THEN names ELSE 0
           c == [Idle EXCEPT !.pc = "called", !.names = n]
<1>1. /\ call' = [call EXCEPT ![t] = c] /\ steady' = [steady EXCEPT ![t] = TRUE]
      /\ UNCHANGED <<fixed, loopVars>> /\ UNCHANGED regexVars /\ sync # "reload"
  BY DEF Calls, Goes, Busy
<1>2. n \in 0 .. MaxVersions
  BY EnginesAssumption DEF ScannerInv, Typed, List!ListConstants
<1>3. /\ c \in CallType /\ c.pc = "called" /\ c.names = n /\ c.best = None /\ c.found = <<>>
      /\ c.outcome = "none"
  <2> HIDE DEF n
  <2> QED
    BY <1>2, IdleTyped DEF CallType
<1>4. PICK R : R \in DueOfRegex(t)
  BY DEF DueOfRegex
<1> DEFINE F == InForce(R)
<1>5. F \in Courses(t) /\ F.check = request.check /\ F.names = names
  BY <1>4 DEF Courses, InForce
<1> HIDE DEF c, F
<1>6. OnCourse(c, F)
  <2>1. F.check => c.names = F.names
    BY <1>3, <1>5
  <2> HIDE DEF n
  <2> QED
    BY <1>3, <2>1 DEF OnCourse
<1>7. EngineInv' /\ UNCHANGED <<engine, version, loop, db>>
  BY <1>1, EngineStays DEF ScannerInv, fixed, regexVars, hyperVars
<1>8. \A u \in Threads : (Following(u) => Following(u)') /\ (Recycled(u)' <=> Recycled(u))
  BY <1>1 DEF Following, Recycled, ByHyperscan, regexVars, listVars, hyperVars
<1>9. Courses(t)' = Courses(t)
  BY <1>1, <1>7, <1>8, CoursesStay
<1> QED
  BY <1>1, <1>3, <1>5, <1>6, <1>7, <1>8, <1>9, ThreadKeeps

\* The answer keeps what the scan found.
LEMMA AnswersKeeps ==
  ASSUME ScannerInv, NEW t \in Threads, Answers(t) PROVE ScannerInv'
<1> DEFINE r == call[t]
           b == steady[t]
<1>1. /\ r \in CallType /\ r.pc \in {"done", "raised"} /\ sync # "reload" /\ b \in BOOLEAN
      /\ UNCHANGED <<fixed, loopVars>> /\ UNCHANGED <<regexVars, steady>>
  BY CallNow DEF Answers, Busy
<1>2. PICK p \in Policies :
        LET outcome == IF r.pc = "raised" THEN "failed"
                       ELSE IF ~request.check THEN Resolve(p, r.best)
                       ELSE IF r.best = None THEN "allow" ELSE r.best.action
        IN Goes(t, [Idle EXCEPT !.pc = "answered", !.best = r.best, !.names = r.names,
                                !.outcome = outcome])
  BY DEF Answers
<1> DEFINE o == IF r.pc = "raised" THEN "failed"
                ELSE IF ~request.check THEN Resolve(p, r.best)
                ELSE IF r.best = None THEN "allow" ELSE r.best.action
           c == [Idle EXCEPT !.pc = "answered", !.best = r.best, !.names = r.names, !.outcome = o]
<1>3. Goes(t, c)
  BY <1>2
<1>4. r.best \in Findings \cup {None} /\ r.names \in 0 .. MaxVersions
  BY <1>1 DEF CallType
<1>5. o \in Actions \cup {"failed"} /\ (r.pc # "raised" => o # "failed")
  <2>1. "allow" \in Actions /\ "failed" \notin Actions
    BY DEF Actions, Priority
  <2>2. r.best # None => r.best.action \in Actions
    <3> HIDE DEF r
    <3> QED
      BY <1>4 DEF Findings
  <2>3. Resolve(p, r.best) \in Actions
    <3>1. PolicyType(p)
      BY ScannerAssumption
    <3> HIDE DEF r
    <3> QED
      BY <2>1, <3>1 DEF Resolve, PolicyType
  <2> HIDE DEF r
  <2> QED
    BY <2>1, <2>2, <2>3
<1>6. /\ c \in CallType /\ c.pc = "answered" /\ c.best = r.best /\ c.names = r.names
      /\ c.outcome = o
  <2> DEFINE x == r.best
             y == r.names
  <2>1. x \in Findings \cup {None} /\ y \in 0 .. MaxVersions
    BY <1>4
  <2> HIDE DEF o, x, y
  <2>2. [Idle EXCEPT !.pc = "answered", !.best = x, !.names = y, !.outcome = o] \in CallType
    BY <1>5, <2>1, IdleTyped DEF CallType
  <2>3. c = [Idle EXCEPT !.pc = "answered", !.best = x, !.names = y, !.outcome = o]
    BY DEF x, y
  <2> HIDE DEF c
  <2>4. c.pc = "answered" /\ c.best = x /\ c.names = y /\ c.outcome = o
    BY <2>3, IdleTyped DEF CallType
  <2> QED
    BY <2>2, <2>3, <2>4 DEF x, y
<1>7. b => \E F \in Courses(t) : OnCourse(c, F)
  <2>1. b => \E F \in Courses(t) : OnCourse(r, F)
    BY CallNow
  <2>2. ASSUME NEW F, OnCourse(r, F) PROVE OnCourse(c, F)
    <3> HIDE DEF c, o, r
    <3> QED
      BY <1>1, <1>5, <1>6, <2>2 DEF OnCourse
  <2> HIDE DEF c, o, r, b
  <2> QED
    BY <2>1, <2>2
<1>8. EngineInv' /\ UNCHANGED <<engine, version, loop, db>>
  BY <1>1, EngineStays DEF ScannerInv, fixed, regexVars, hyperVars
<1>9. \A u \in Threads : (Following(u) => Following(u)') /\ (Recycled(u)' <=> Recycled(u))
  BY <1>1 DEF Following, Recycled, ByHyperscan, regexVars, listVars, hyperVars
<1>10. Courses(t)' = Courses(t)
  BY <1>1, <1>8, <1>9, CoursesStay
<1>11. call' = [call EXCEPT ![t] = c] /\ steady' = [steady EXCEPT ![t] = b]
       /\ UNCHANGED <<fixed, loopVars>>
  BY <1>1, <1>3 DEF Goes, ScannerInv, Called
<1> HIDE DEF b, c
<1> QED
  BY <1>1, <1>6, <1>7, <1>8, <1>9, <1>10, <1>11, ThreadKeeps

\* Sync passes.
LEMMA PassBeginsKeeps ==
  ASSUME ScannerInv, NEW S \in SUBSET Models, PassBegins(S) PROVE ScannerInv'
<1> USE DEF fixed
<1>1. /\ sync = "idle" /\ version < MaxVersions /\ sync' = "models" /\ todo' = S
      /\ tierRank' = -1 /\ loaded' = {} /\ broken' = FALSE /\ Disturb
      /\ UNCHANGED <<regexVars, request, stages, config, backend, names, call, pushes>>
  BY DEF PassBegins
<1>2. EngineInv'
  BY <1>1, EngineStays DEF ScannerInv
<1>3. Typed'
  <2>1. tierRank' \in -1 .. 2
    BY <1>1
  <2> QED
    BY <1>1, <2>1 DEF ScannerInv, Typed
<1>4. InStep'
  BY <1>1 DEF ScannerInv, InStep, regexVars
<1>5. Tiered'
  BY <1>1 DEF Tiered
<1> QED
  BY <1>1, <1>2, <1>3, <1>4, <1>5, LoopKeeps

\* A model is skipped only for one of a higher tier, and replaces any other.
LEMMA LoadsModelKeeps ==
  ASSUME ScannerInv, NEW m \in Models, LoadsModel(m) PROVE ScannerInv'
<1> USE DEF fixed
<1>1. /\ sync = "models" /\ m \in todo /\ todo' = todo \ {m} /\ Disturb
      /\ UNCHANGED <<regexVars, request, stages, config, sync, names, call, pushes>>
  BY DEF LoadsModel
<1>2. /\ Skipped(m) => loaded' = loaded \cup {m} /\ UNCHANGED <<backend, tierRank, broken>>
      /\ ~Skipped(m) =>
           \/ /\ backend' = m
              /\ tierRank' = IF Rank[m] = None THEN tierRank ELSE Larger(tierRank, Rank[m])
              /\ loaded' = loaded \cup {m}
              /\ UNCHANGED broken
           \/ backend' = None /\ broken' = TRUE /\ UNCHANGED <<tierRank, loaded>>
           \/ UNCHANGED <<backend, tierRank, loaded, broken>>
  BY DEF LoadsModel
<1>3. Rank \in [Models -> -1 .. 2 \cup {None}] /\ tierRank \in -1 .. 2 /\ tierRank \in Int
  BY ScannerAssumption DEF ScannerInv, Typed
<1>4. Rank[m] # None => Rank[m] \in -1 .. 2 /\ Rank[m] \in Int
  BY <1>3
<1>5. tierRank' \in -1 .. 2
  <2>1. Rank[m] # None => Larger(tierRank, Rank[m]) \in -1 .. 2
    BY <1>3, <1>4 DEF Larger
  <2> QED
    BY <1>2, <1>3, <2>1
<1>6. EngineInv' /\ InStep'
  BY <1>1, EngineStays DEF ScannerInv, InStep, regexVars
<1>7. Typed'
  <2>1. backend' \in Models \cup {None} /\ loaded' \subseteq Models /\ broken' \in BOOLEAN
    BY <1>2 DEF ScannerInv, Typed
  <2> QED
    BY <1>1, <1>5, <2>1 DEF ScannerInv, Typed
<1>8. ASSUME "ml_classifier" \in stages, ~broken', \A k \in loaded' : Rank[k] # None
      PROVE  IF loaded' = {} THEN tierRank' = -1
             ELSE /\ backend' \in loaded' /\ tierRank' = Rank[backend']
                  /\ \A k \in loaded' : Rank[k] <= tierRank'
  <2>1. ~broken /\ loaded \subseteq loaded' /\ \A k \in loaded : Rank[k] # None
    BY <1>2, <1>8 DEF ScannerInv, Typed
  <2>2. IF loaded = {} THEN tierRank = -1
        ELSE /\ backend \in loaded /\ tierRank = Rank[backend]
             /\ \A k \in loaded : Rank[k] <= tierRank
    BY <1>8, <2>1 DEF ScannerInv, Tiered
  <2>3. \A k \in loaded' : Rank[k] \in Int /\ Rank[k] \in -1 .. 2
    BY <1>3, <1>7, <1>8 DEF Typed
  <2>4. CASE Skipped(m)
    <3>1. Rank[m] < tierRank /\ Rank[m] \in -1 .. 2
      BY <1>2, <1>8, <2>3, <2>4 DEF Skipped
    <3>2. loaded # {}
      BY <2>2, <3>1
    <3>3. Rank[m] <= tierRank
      BY <1>3, <3>1
    <3> QED
      BY <1>2, <2>2, <2>4, <3>2, <3>3
  <2>5. CASE ~Skipped(m) /\ UNCHANGED <<backend, tierRank, loaded, broken>>
    BY <2>2, <2>5
  <2>6. CASE ~Skipped(m) /\ m \in loaded' /\ backend' = m /\ loaded' = loaded \cup {m}
             /\ tierRank' = IF Rank[m] = None THEN tierRank ELSE Larger(tierRank, Rank[m])
    <3>1. Rank[m] \in Int /\ Rank[m] # None /\ Rank[m] \in -1 .. 2
      BY <1>8, <2>3, <2>6
    <3>2. tierRank <= Rank[m]
      <4>1. ~(Rank[m] < tierRank)
        BY <1>8, <2>6, <3>1 DEF Skipped
      <4> QED
        BY <1>3, <3>1, <4>1
    <3>3. tierRank' = Rank[m]
      <4>1. Larger(tierRank, Rank[m]) = Rank[m]
        BY <1>3, <3>1, <3>2 DEF Larger
      <4> QED
        BY <2>6, <3>1, <4>1
    <3>4. ASSUME NEW k \in loaded PROVE Rank[k] <= Rank[m]
      <4>1. Rank[k] <= tierRank /\ Rank[k] \in Int
        BY <2>1, <2>2, <2>3
      <4> QED
        BY <1>3, <3>1, <3>2, <4>1
    <3>5. Rank[m] <= Rank[m]
      BY <3>1
    <3> QED
      BY <2>6, <3>3, <3>4, <3>5
  <2> QED
    BY <1>2, <1>8, <2>4, <2>5, <2>6
<1>9. Tiered'
  BY <1>1, <1>8 DEF Tiered
<1> QED
  BY <1>1, <1>6, <1>7, <1>9, LoopKeeps

\* A reload begins; without the regex stage it is over at once.
LEMMA ReloadStartsKeeps == ASSUME ScannerInv, ReloadStarts PROVE ScannerInv'
<1> USE DEF fixed
<1>1. /\ sync = "models" /\ sync' = "reload" /\ Disturb
      /\ UNCHANGED <<request, stages, config, backend, tierRank, todo, names, call, pushes,
                     loaded, broken>>
      /\ version \in 1 .. MaxVersions /\ version < MaxVersions /\ MaxVersions \in Nat
  BY ForceTyped, EnginesAssumption
     DEF ReloadStarts, ScannerInv, InStep, List!ListConstants
<1>2. Typed' /\ Tiered' /\ InStep'
  BY <1>1 DEF ScannerInv, Typed, Tiered, InStep
<1>3. EngineInv'
  <2>1. CASE "regex" \in stages
    <3>1. RegexInv /\ RegexReloadStarts
      BY <2>1 DEF ReloadStarts, ScannerInv, EngineInv
    <3> QED
      BY <1>1, <2>1, <3>1, RegexReloadKeeps DEF EngineInv
  <2>2. CASE "regex" \notin stages
    <3>1. /\ version' = version + 1 /\ UNCHANGED <<engine, loop, listVars, hyperVars>>
          /\ EnginesTypeOK /\ ListAsleep /\ HyperAsleep /\ loop = "idle"
      BY <2>2 DEF ReloadStarts, ScannerInv, EngineInv
    <3>2. version' \in 1 .. MaxVersions
      BY <1>1, <3>1
    <3>3. (ListAsleep /\ HyperAsleep)'
      BY <3>1 DEF ListAsleep, HyperAsleep, listVars, hyperVars
    <3>4. ByHyperscan' = ByHyperscan /\ engine' \in Engines
      BY <3>1 DEF ByHyperscan, EnginesTypeOK
    <3>5. Hyper!TypeOK => Hyper!TypeOK'
      BY <3>1, <3>2 DEF Hyper!TypeOK, hyperVars, Hyper!Versions
    <3>6. List!TypeOK => List!TypeOK'
      BY <3>1, <3>2 DEF List!TypeOK, listVars
    <3> QED
      BY <1>1, <2>2, <3>1, <3>3, <3>4, <3>5, <3>6 DEF EngineInv, EnginesTypeOK
  <2> QED
    BY <2>1, <2>2
<1> QED
  BY <1>1, <1>2, <1>3, LoopKeeps

\* A piece of the reload.
LEMMA ReloadGoesOnKeeps == ASSUME ScannerInv, ReloadGoesOn PROVE ScannerInv'
<1> USE DEF fixed, loopVars
<1>1. /\ sync = "reload" /\ loop # "idle" /\ RegexReloadGoesOn /\ Disturb
      /\ UNCHANGED <<request, stages, config, backend, tierRank, sync, todo, names, call, pushes,
                     loaded, broken>>
  BY DEF ReloadGoesOn, Reloading
<1>2. "regex" \in stages /\ RegexInv
  BY <1>1 DEF ScannerInv, EngineInv
<1>3. EngineInv'
  BY <1>1, <1>2, RegexReloadKeeps DEF EngineInv
<1>4. Typed' /\ Tiered' /\ InStep'
  BY <1>1 DEF ScannerInv, Typed, Tiered, InStep
<1> QED
  BY <1>1, <1>3, <1>4, LoopKeeps

\* The names catch up with the set in force.
LEMMA ReloadEndsKeeps == ASSUME ScannerInv, ReloadEnds PROVE ScannerInv'
<1> USE DEF fixed
<1>1. /\ loop = "idle" /\ sync' = "idle" /\ names' = version /\ Disturb
      /\ UNCHANGED <<regexVars, request, stages, config, backend, tierRank, todo, call, pushes,
                     loaded, broken>>
  BY DEF ReloadEnds, Reloading
<1>2. version \in 1 .. MaxVersions
  BY ForceTyped DEF ScannerInv
<1>3. EngineInv'
  BY <1>1, EngineStays DEF ScannerInv
<1>4. Typed' /\ Tiered' /\ InStep'
  BY <1>1, <1>2 DEF ScannerInv, Typed, Tiered, InStep, regexVars
<1> QED
  BY <1>1, <1>3, <1>4, LoopKeeps

\* Pushes.
LEMMA PushKeeps ==
  ASSUME ScannerInv, PushScanner \/ PushClassifier PROVE ScannerInv'
<1> USE DEF fixed
<1>1. /\ pushes < MaxPushes /\ pushes' = pushes + 1 /\ Disturb
      /\ UNCHANGED <<regexVars, request, stages, backend, tierRank, sync, todo, names, call,
                     loaded, broken>>
  BY DEF PushScanner, PushClassifier, Push
<1>2. pushes' \in 0 .. MaxPushes
  BY <1>1, ScannerAssumption DEF ScannerInv, Typed
<1>3. config' \in ConfigType
  <2>1. config \in ConfigType
    BY DEF ScannerInv, Typed
  <2>2. CASE PushScanner
    <3>1. CASE \E on \in BOOLEAN : config' = [config EXCEPT !.enabled = on]
      BY <2>1, <3>1 DEF ConfigType
    <3>2. ASSUME NEW s \in Stages, NEW on \in BOOLEAN,
                 config' = [config EXCEPT !.stages = IF on THEN @ \cup {s} ELSE @ \ {s}]
          PROVE  config' \in ConfigType
      <4> DEFINE e == IF on THEN config.stages \cup {s} ELSE config.stages \ {s}
      <4>1. e \in SUBSET Stages
        BY <2>1 DEF ConfigType
      <4>2. config' = [config EXCEPT !.stages = e]
        BY <3>2
      <4> HIDE DEF e
      <4> QED
        BY <2>1, <4>1, <4>2 DEF ConfigType
    <3> QED
      BY <2>2, <3>1, <3>2 DEF PushScanner
  <2>3. CASE PushClassifier
    <3>1. CASE \E n \in Thresholds : config' = [config EXCEPT !.threshold = n]
      BY <2>1, <3>1, ScannerAssumption DEF ConfigType
    <3>2. CASE \E a \in Actions : config' = [config EXCEPT !.action = a]
      BY <2>1, <3>2 DEF ConfigType
    <3> QED
      BY <2>3, <3>1, <3>2 DEF PushClassifier
  <2> QED
    BY <2>2, <2>3
<1>4. EngineInv'
  BY <1>1, EngineStays DEF ScannerInv
<1>5. Typed' /\ Tiered' /\ InStep'
  BY <1>1, <1>2, <1>3 DEF ScannerInv, Typed, Tiered, InStep, regexVars
<1> QED
  BY <1>1, <1>4, <1>5, LoopKeeps

\* Nothing moves.
LEMMA StutterKeeps == ScannerInv /\ UNCHANGED vars => ScannerInv'
<1> SUFFICES ASSUME ScannerInv, UNCHANGED vars PROVE ScannerInv'
  OBVIOUS
<1> USE DEF vars, fixed, loopVars
<1>1. EngineInv'
  BY EngineStays DEF ScannerInv
<1>2. Typed' /\ Tiered' /\ InStep' /\ Called'
  BY DEF ScannerInv, Typed, Tiered, InStep, Called, regexVars
<1>3. \A t \in Threads : Courses(t)' = Courses(t) /\ (Following(t)' <=> Following(t))
  <2>1. ASSUME NEW t \in Threads
        PROVE  (Recycled(t)' <=> Recycled(t)) /\ (Following(t)' <=> Following(t))
    BY DEF Following, Recycled, ByHyperscan, regexVars, listVars, hyperVars
  <2>2. UNCHANGED <<engine, version, db>>
    BY DEF regexVars, hyperVars
  <2> QED
    BY <2>1, <2>2, CoursesStay
<1>4. Steadily'
  BY <1>3 DEF ScannerInv, Steadily
<1> QED
  BY <1>1, <1>2, <1>4 DEF ScannerInv

----------------------------------------------------------------------------
(* The theorems.                                                           *)

\* Every step keeps the invariant.
LEMMA NextKeeps == ScannerInv /\ [Next]_vars => ScannerInv'
<1> SUFFICES ASSUME ScannerInv, [Next]_vars PROVE ScannerInv'
  OBVIOUS
<1>1. CASE Loop
  BY <1>1, PassBeginsKeeps, LoadsModelKeeps, ReloadStartsKeeps, ReloadGoesOnKeeps,
     ReloadEndsKeeps, PushKeeps DEF Loop
<1>2. ASSUME NEW t \in Threads, Scan(t) PROVE ScannerInv'
  BY <1>2, EntersKeeps, StartsRegexKeeps, RunsRegexKeeps, EndsRegexKeeps, HeuristicsKeeps,
     AsksKeeps, PredictsKeeps, AttributesKeeps, CombinesKeeps DEF Scan
<1>3. ASSUME NEW t \in Threads, Calls(t) \/ Answers(t) PROVE ScannerInv'
  BY <1>3, CallsKeeps, AnswersKeeps
<1>4. CASE UNCHANGED vars
  BY <1>4, StutterKeeps
<1> QED
  BY <1>1, <1>2, <1>3, <1>4 DEF Next

\* The invariant holds: the engines' lists and databases are as far as the reload
\* is, a pass leaves its highest tier, and undisturbed calls are on their course.
THEOREM Invariance == Spec => []ScannerInv
<1>1. Init => ScannerInv
  BY InitScanner
<1>2. ScannerInv /\ [Next]_vars => ScannerInv'
  BY NextKeeps
<1> QED
  BY <1>1, <1>2, PTL DEF Spec

\* Every variable of the scanner and its engine keeps its type.
THEOREM TypeCorrect == Spec => []TypeOK
<1>1. ScannerInv => TypeOK
  <2> SUFFICES ASSUME ScannerInv PROVE TypeOK
    OBVIOUS
  <2>1. EnginesTypeOK
    BY HyperScans, ListScans DEF ScannerInv, EngineInv, RegexInv, EnginesTypeOK
  <2> QED
    BY <2>1 DEF ScannerInv, Typed, Called, TypeOK
<1> QED
  BY <1>1, Invariance, PTL

\* However reloads and scans interleave, a scan reports patterns of one signature
\* set, and under Hyperscan under the names of that set.
THEOREM OneSet == Spec => []OneSetPerScan
<1>1. ScannerInv => OneSetPerScan
  BY HyperScans, ListScans, AsleepIsFine DEF ScannerInv, EngineInv, RegexInv, OneSetPerScan
<1> QED
  BY <1>1, Invariance, PTL

\* A scan that no reload disturbs applies the whole set in force, unless the address
\* its thread keeps its scratch space under was given to a later database.
THEOREM Undisturbable == Spec => []UndisturbedScansAreWhole
<1>1. ScannerInv => UndisturbedScansAreWhole
  BY HyperScans, ListScans, AsleepIsFine
     DEF ScannerInv, EngineInv, RegexInv, UndisturbedScansAreWhole
<1> QED
  BY <1>1, Invariance, PTL

\* After a pass without a failed load, the model of the highest tier runs.
THEOREM HighestTier == Spec => []HighestTierRuns
<1>1. ScannerInv => HighestTierRuns
  BY DEF ScannerInv, Tiered, HighestTierRuns
<1> QED
  BY <1>1, Invariance, PTL

\* A call during which nothing changed is answered by a strongest of all the
\* findings due, and never fails; only those of the regex stage may be missing, all
\* of them, and only in a thread that kept its scratch space under an address that
\* was given to a later database.
THEOREM CalmExact == Spec => []CalmCallsAreExact
<1>1. ScannerInv => CalmCallsAreExact
  <2> SUFFICES ASSUME ScannerInv, NEW t \in Threads, call[t].pc = "answered", steady[t]
               PROVE  /\ call[t].outcome # "failed"
                      /\ \E R \in DueOfRegex(t) :
                           call[t].best \in IF Expected(R) = {} THEN {None}
                                            ELSE Strongest(Expected(R))
                      /\ request.check => call[t].names = version
    BY DEF CalmCallsAreExact
  <2>1. PICK R \in DueOfRegex(t) : OnCourse(call[t], InForce(R))
    BY DEF ScannerInv, Steadily, Courses
  <2>2. Due(InForce(R)) = Expected(R)
    BY DueIsExpected
  <2>3. names = version
    BY DEF ScannerInv, Steadily, InStep
  <2>4. InForce(R).check = request.check /\ InForce(R).names = names
    BY DEF InForce
  <2> QED
    BY <2>1, <2>2, <2>3, <2>4 DEF OnCourse, BestIn
<1> QED
  BY <1>1, Invariance, PTL

\* What a policy acts on, a stricter one acts on in the same way, for every number
\* the sensitivities may have.
THEOREM Monotone == Spec => []SensitivityIsMonotone
<1>1. ScannerInv => SensitivityIsMonotone
  <2> SUFFICES ASSUME ScannerInv, NEW t \in Threads, NEW p \in Policies, NEW q \in Policies,
                      Stricter(q, p), Resolve(p, call[t].best) # "allow"
               PROVE  Resolve(q, call[t].best) = Resolve(p, call[t].best)
    BY DEF SensitivityIsMonotone
  <2> DEFINE b == call[t].best
             k == b.category
             n == b.confidence
  <2>1. b \in Findings \cup {None} /\ PolicyType(p) /\ PolicyType(q)
    BY ScannerAssumption DEF ScannerInv, Called, CallType
  <2> HIDE DEF b
  <2>2. /\ b # None /\ b.action # "allow" /\ ~Allowlisted(p, k) /\ ~(n < Threshold(p, k))
    BY DEF Resolve, b
  <2>3. n \in Int
    BY <2>1, <2>2 DEF Findings, Percent
  <2>4. ~Allowlisted(q, k)
    BY <2>2 DEF Stricter, Allowlisted
  <2>5. ~(n < Threshold(q, k))
    <3>1. CASE k \notin DOMAIN p.categories
      BY <2>2, <3>1 DEF Threshold, Stricter
    <3>2. CASE k \in DOMAIN p.categories
      <4> DEFINE x == p.categories[k].sensitivity
                 y == q.categories[k].sensitivity
      <4>1. x # None /\ y # None /\ y >= x /\ x \in Int /\ y \in Int
            /\ k \in DOMAIN q.categories
        BY <2>1, <3>2 DEF Stricter, PolicyType
      <4>2. /\ Threshold(p, k) = Larger(0, Smaller(100, 100 - x))
            /\ Threshold(q, k) = Larger(0, Smaller(100, 100 - y))
        BY <3>2, <4>1 DEF Threshold
      <4> HIDE DEF x, y
      <4>3. Larger(0, Smaller(100, 100 - y)) <= Larger(0, Smaller(100, 100 - x))
            /\ Larger(0, Smaller(100, 100 - y)) \in Int
            /\ Larger(0, Smaller(100, 100 - x)) \in Int
        BY <4>1 DEF Larger, Smaller
      <4> QED
        BY <2>2, <2>3, <4>2, <4>3
    <3> QED
      BY <3>1, <3>2
  <2> QED
    BY <2>2, <2>4, <2>5 DEF Resolve, Stricter, b
<1> QED
  BY <1>1, Invariance, PTL
=============================================================================
