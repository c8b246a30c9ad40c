------------------------ MODULE SignatureSyncProofs ------------------------
(***************************************************************************)
(* Proofs about signature and model sync for every value of its constants: *)
(* no sync takes the signatures away, and the model is that of the highest *)
(* tier in force.                                                          *)
(***************************************************************************)
EXTENDS SignatureSync, FiniteSetTheorems, SequenceLemmas

----------------------------------------------------------------------------
(* The invariant.                                                          *)

\* m is the best model of these bundles.
Best(m, S) == m \in S /\ \A b \in S : b <= m

\* The bundles with a model that this pass has fetched.
Fetched == {b \in WithModel : got[b] # 0}

\* The model is the best of these, unless the best failed to load.
Matches(S) == \E m \in S : Best(m, S) /\ (m \in misloaded \/ model = m)

\* The model matches the signatures in force, unless the two are of different passes.
InForce == ~skewed /\ LiveModels # {} => Matches(LiveModels)

\* The best of the models fetched failed to load, or is active and holds the rank.
Chosen ==
  /\ rank \in Fetched \cup {0}
  /\ \E m \in Fetched : Best(m, Fetched) /\ (m \in misloaded \/ (model = m /\ rank = m))

\* Within a pass the model is chosen from those fetched; until there is one it goes
\* with the signatures still in force.
PassInv ==
  pc = "bundles" =>
    /\ verified # 0
    /\ \A b \in todo : got[b] = 0
    /\ IF Fetched = {} THEN rank = 0 /\ InForce ELSE Chosen

SyncInv ==
  /\ TypeOK
  /\ pc # "bundles" => InForce
  /\ PassInv

----------------------------------------------------------------------------
(* Maxima.                                                                 *)

\* A best element is the maximum.
LEMMA BestIsMax ==
  ASSUME NEW S \in SUBSET Nat, NEW m, Best(m, S)
  PROVE  Max(S) = m
<1>1. \A x \in S : (\A y \in S : x >= y) => x = m
  BY DEF Best
<1>2. m \in S /\ \A y \in S : m >= y
  BY DEF Best
<1> QED
  BY <1>1, <1>2 DEF Max

\* A bounded set of numbers that is not empty has its maximum in it.
LEMMA MaxOfBounded ==
  ASSUME NEW n \in Nat, NEW S \in SUBSET (0 .. n), S # {}
  PROVE  Best(Max(S), S)
<1> DEFINE D == {n - x : x \in S}
<1>1. D \in SUBSET Nat /\ D # {}
  <2>1. \A x \in S : x \in 0 .. n
    OBVIOUS
  <2>2. \A x \in 0 .. n : n - x \in Nat
    OBVIOUS
  <2>3. \A x \in S : n - x \in Nat
    BY <2>1, <2>2
  <2>4. PICK x \in S : TRUE
    OBVIOUS
  <2>5. n - x \in D
    OBVIOUS
  <2> QED
    BY <2>3, <2>5
<1>2. PICK d \in D : \A e \in D : d <= e
  <2> HIDE DEF D
  <2> QED
    BY <1>1, LeastPosition
<1>3. PICK m \in S : d = n - m
  BY <1>2
<1>4. ASSUME NEW x \in S PROVE x <= m
  <2>1. n - x \in D
    OBVIOUS
  <2>2. n - m <= n - x
    BY <2>1, <1>2, <1>3
  <2>3. n \in Int /\ m \in Int /\ x \in Int
    OBVIOUS
  <2> HIDE DEF D
  <2> QED
    BY <2>2, <2>3
<1>5. Best(m, S)
  BY <1>4 DEF Best
<1>6. Max(S) = m
  BY <1>5, BestIsMax
<1> QED
  BY <1>5, <1>6

\* The tiers are numbers from 1 on.
LEMMA TiersBounded ==
  \E n \in Nat : Tiers = 1 .. n /\ 1 \in Tiers /\ Tiers \subseteq Nat
<1>1. Cardinality(Tiers) \in Nat
  BY FS_CardinalityType, SignatureAssumption
<1>2. Tiers = 1 .. Cardinality(Tiers) /\ Tiers # {}
  BY SignatureAssumption
<1> QED
  BY <1>1, <1>2

\* A set of tiers that is not empty has a best one.
LEMMA MaxOfTiers ==
  ASSUME NEW S \in SUBSET (Tiers \cup {0}), S # {}
  PROVE  Max(S) \in S /\ Best(Max(S), S)
<1>1. PICK n \in Nat : Tiers = 1 .. n
  BY TiersBounded
<1>2. S \in SUBSET (0 .. n)
  BY <1>1
<1>3. Best(Max(S), S)
  BY <1>2, MaxOfBounded
<1> QED
  BY <1>3 DEF Best

\* What is best of a set with one more.
LEMMA BestOfMore ==
  ASSUME NEW S \in SUBSET Nat, NEW b \in Nat, NEW m
  PROVE  /\ S = {} => Best(b, S \cup {b})
         /\ Best(m, S) /\ b >= m => Best(b, S \cup {b})
         /\ Best(m, S) /\ ~(b >= m) => Best(m, S \cup {b})
<1>1. ASSUME Best(m, S), b >= m PROVE Best(b, S \cup {b})
  <2>1. m \in Nat /\ \A x \in S : x \in Nat /\ x <= m
    BY <1>1 DEF Best
  <2>2. \A x \in S : x <= b
    BY <2>1, <1>1
  <2> QED
    BY <2>2 DEF Best
<1>2. ASSUME Best(m, S), ~(b >= m) PROVE Best(m, S \cup {b})
  <2>1. m \in S /\ m \in Nat /\ \A x \in S : x <= m
    BY <1>2 DEF Best
  <2>2. b <= m
    BY <2>1, <1>2
  <2> QED
    BY <2>1, <2>2 DEF Best
<1>3. S = {} => Best(b, S \cup {b})
  BY DEF Best
<1> QED
  BY <1>1, <1>2, <1>3

----------------------------------------------------------------------------
(* The parts of the steps.                                                 *)

\* What the disk holds is used with the version of its license.
LEMMA UsableHasVersion ==
  ASSUME TypeOK, NEW b \in Tiers, Loads(disk[b])
  PROVE  disk[b].lic \in 1 .. MaxPublished
<1>1. disk[b].lic \in Cut .. MaxPublished /\ MaxPublished \in Nat
  BY SignatureAssumption DEF TypeOK, Entries
<1> QED
  BY <1>1 DEF Loads, Licensed, Cut

\* Loading from the cache keeps the types, the model that of the signatures, and
\* the signatures there.
LEMMA CacheLoaded ==
  ASSUME TypeOK, NEW raises \in BOOLEAN, LoadFromCache(raises)
  PROVE  /\ {model', rank'} \subseteq Tiers \cup {0} /\ live' \in Versions
         /\ misloaded' \subseteq Tiers /\ skewed' \in BOOLEAN
         /\ InForce => InForce'
         /\ live # Absent => live' # Absent
<1> DEFINE U == {b \in Encrypted : Usable(disk[b])}
           S == U \cap WithModel
           cached == [b \in Tiers |-> IF b \in U THEN disk[b].lic ELSE 0]
<1>1. U \subseteq Tiers /\ S \subseteq Tiers /\ S \subseteq U /\ WithModel \subseteq Tiers
      /\ S = U \cap WithModel /\ 0 \notin Tiers
  <2>1. WithModel \subseteq Tiers /\ Encrypted \subseteq Tiers
    BY SignatureAssumption
  <2>2. 0 \notin Tiers
    BY TiersBounded
  <2>3. U \subseteq Encrypted
    OBVIOUS
  <2> HIDE DEF U
  <2> QED
    BY <2>1, <2>2, <2>3
<1>2. \A b \in U : disk[b].lic \in 1 .. MaxPublished
  BY <1>1, UsableHasVersion DEF Usable
<1>3. /\ \E r \in S \cup {0} : LoadModels(S, r) /\ rank' \in {r, rank}
      /\ \/ U = {} /\ UNCHANGED <<live, skewed>>
         \/ U # {} /\ live' = cached /\ skewed' = FALSE
         \/ /\ U # {} /\ live' = live /\ live' # cached
            /\ skewed' = (skewed \/ S # {})
  BY DEF LoadFromCache
<1>4. /\ {model, rank} \subseteq Tiers \cup {0} /\ live \in Versions /\ MaxPublished \in Nat
      /\ misloaded \subseteq Tiers /\ skewed \in BOOLEAN
  BY SignatureAssumption DEF TypeOK
<1>5. cached \in Versions
  BY <1>1, <1>2, <1>4 DEF Versions
<1>6. \A b \in Tiers : cached[b] = IF b \in U THEN disk[b].lic ELSE 0
  OBVIOUS
<1>7. {b \in WithModel : cached[b] # 0} = S
  BY <1>1, <1>2, <1>6
<1>8. U # {} => cached # Absent
  <2>1. ASSUME U # {} PROVE cached # Absent
    <3>1. PICK b \in U : TRUE
      BY <2>1
    <3>2. cached[b] = disk[b].lic /\ disk[b].lic # 0 /\ Absent[b] = 0
      BY <3>1, <1>1, <1>2, <1>6 DEF Absent
    <3> QED
      BY <3>2
  <2> QED
    BY <2>1
<1> HIDE DEF U, S, cached
<1>9. PICK r \in S \cup {0} : LoadModels(S, r) /\ rank' \in {r, rank}
  BY <1>3
<1>10. /\ rank' \in Tiers \cup {0} /\ misloaded' = (misloaded \ {r}) \cup {b \in S : b > r}
       /\ model' = (IF r = 0 THEN model ELSE r) \/ (model' = 0 /\ r # Max(S \cup {0}))
  BY <1>1, <1>4, <1>9 DEF LoadModels
<1>11. /\ model' \in Tiers \cup {0} /\ misloaded' \subseteq Tiers /\ live' \in Versions
       /\ skewed' \in BOOLEAN
  BY <1>1, <1>3, <1>4, <1>5, <1>9, <1>10
<1>12. S = {} => UNCHANGED <<model, misloaded>>
  <2>1. ASSUME S = {} PROVE UNCHANGED <<model, misloaded>>
    <3>1. r = 0 /\ S \cup {0} = {0}
      BY <2>1, <1>9
    <3>2. Max({0}) = 0
      <4>1. {0} \in SUBSET (Tiers \cup {0})
        OBVIOUS
      <4>2. Max({0}) \in {0}
        BY <4>1, MaxOfTiers
      <4> QED
        BY <4>2
    <3> QED
      BY <3>1, <3>2, <2>1, <1>1, <1>4, <1>10
  <2> QED
    BY <2>1
<1>13. ASSUME S # {}
       PROVE  \E m \in S : Best(m, S) /\ (m \in misloaded' \/ model' = m)
  <2>1. S \in SUBSET (Tiers \cup {0}) /\ S \cup {0} \in SUBSET (Tiers \cup {0})
    BY <1>1
  <2> DEFINE m == Max(S)
  <2>2. m \in S /\ Best(m, S)
    BY <2>1, <1>13, MaxOfTiers
  <2> HIDE DEF m
  <2>3. m \in Nat /\ m # 0 /\ S \subseteq Nat
    BY <2>2, <1>1, TiersBounded
  <2>4. CASE r = m
    <3>1. Best(m, S \cup {0}) /\ S \cup {0} \in SUBSET Nat
      BY <2>2, <2>3 DEF Best
    <3>2. Max(S \cup {0}) = m
      BY <3>1, BestIsMax
    <3>3. model' = m
      BY <3>2, <2>3, <2>4, <1>10
    <3> QED
      BY <3>3, <2>2
  <2>5. CASE r # m
    <3>1. m > r
      <4>1. r \in Nat /\ r <= m
        BY <2>2, <2>3, <1>9 DEF Best
      <4> QED
        BY <4>1, <2>3, <2>5
    <3>2. m \in misloaded'
      BY <3>1, <2>2, <1>10
    <3> QED
      BY <3>2, <2>2
  <2> QED
    BY <2>4, <2>5
<1>14. ASSUME InForce, ~skewed', LiveModels' # {} PROVE Matches(LiveModels)'
  <2>1. CASE live' = cached /\ U # {}
    <3>1. LiveModels' = S
      BY <2>1, <1>7 DEF LiveModels
    <3> QED
      BY <3>1, <1>13, <1>14 DEF Matches, Best
  <2>2. CASE S = {} /\ live' = live /\ ~skewed
    <3>1. UNCHANGED <<model, misloaded, live>>
      BY <2>2, <1>12
    <3>2. LiveModels' = LiveModels
      BY <3>1 DEF LiveModels
    <3> QED
      BY <3>1, <3>2, <2>2, <1>14 DEF InForce, Matches, Best
  <2>3. CASE U = {} /\ UNCHANGED <<live, skewed>>
    <3>1. S = {}
      BY <2>3, <1>1
    <3> QED
      BY <3>1, <2>2, <2>3, <1>14
  <2>4. CASE live' = live /\ skewed' = (skewed \/ S # {})
    <3>1. ~skewed /\ S = {}
      BY <2>4, <1>14, Zenon
    <3> QED
      BY <3>1, <2>2, <2>4
  <2> QED
    BY <2>1, <2>3, <2>4, <1>3
<1>15. InForce => InForce'
  BY <1>14 DEF InForce
<1> QED
  BY <1>3, <1>8, <1>10, <1>11, <1>15

\* The disk at the end of a step.
LEMMA DiskKept ==
  ASSUME NEW d \in [Tiers -> Entries(MaxPublished)], OnDisk(d)
  PROVE  disk' \in [Tiers -> Entries(MaxPublished)]
<1>1. Nothing \in Entries(MaxPublished)
  BY SignatureAssumption DEF Nothing, Entries, Cut
<1>2. \A b \in Tiers : Swept(d[b]) \in Entries(MaxPublished)
  BY <1>1 DEF Swept
<1> QED
  BY <1>2 DEF OnDisk

\* Where a step leaves the pass when it returns.
LEMMA Returned ==
  ASSUME NEW v \in 0 .. MaxPublished, Return(v)
  PROVE  pc' \in {"idle", "manifest"} /\ again' = FALSE /\ lastVersion' \in 0 .. MaxPublished
  BY DEF Return

\* A step that leaves no pass behind, and whose model is the one in force.
LEMMA OutsidePass ==
  ASSUME TypeOK', InForce', pc' # "bundles"
  PROVE  SyncInv'
  BY DEF SyncInv, PassInv

\* One more bundle with a model fetched, and its model loaded, skipped or not loaded.
LEMMA ChosenOfMore ==
  ASSUME NEW b \in WithModel, WithModel \subseteq Nat, 0 \notin WithModel,
         LoadModel(b), Fetched' = Fetched \cup {b}, b \notin Fetched,
         IF Fetched = {} THEN rank = 0 ELSE Chosen
  PROVE  Chosen'
<1>1. Fetched \subseteq WithModel /\ Fetched \in SUBSET Nat /\ b \in Nat /\ b # 0
  BY DEF Fetched
<1>2. rank \in Fetched \cup {0} /\ rank \in Nat
  <2>1. rank \in Fetched \cup {0}
    BY Zenon DEF Chosen
  <2> QED
    BY <2>1, <1>1
<1>3. rank' \in Fetched' \cup {0}
  <2>1. rank' \in {rank, b}
    BY DEF LoadModel, Models
  <2> QED
    BY <2>1, <1>2
<1>4. \/ b < rank /\ UNCHANGED <<model, rank, misloaded>>
      \/ b >= rank /\ model' = b /\ rank' = b /\ misloaded' = misloaded \ {b}
      \/ b >= rank /\ UNCHANGED rank /\ misloaded' = misloaded \cup {b}
  BY DEF LoadModel, Models
<1>5. ASSUME b >= rank PROVE b \in misloaded' \/ (model' = b /\ rank' = b)
  BY <1>1, <1>2, <1>4, <1>5
<1>6. CASE Fetched = {}
  <2>1. b >= rank
    BY <1>1, <1>6
  <2>2. Best(b, Fetched \cup {b})
    BY <1>1, <1>6, BestOfMore
  <2> QED
    BY <2>1, <2>2, <1>3, <1>5 DEF Chosen, Best
<1>7. CASE Fetched # {}
  <2>1. PICK m \in Fetched : Best(m, Fetched) /\ (m \in misloaded \/ (model = m /\ rank = m))
    BY <1>7 DEF Chosen
  <2>2. m \in Nat /\ m # b /\ rank <= m
    BY <2>1, <1>1, <1>2 DEF Best
  <2>3. CASE b >= m
    <3>1. Best(b, Fetched \cup {b})
      BY <2>1, <2>3, <1>1, BestOfMore
    <3>2. b >= rank
      BY <2>2, <2>3, <1>1, <1>2
    <3> QED
      BY <3>1, <3>2, <1>3, <1>5 DEF Chosen, Best
  <2>4. CASE ~(b >= m)
    <3>1. Best(m, Fetched \cup {b})
      BY <2>1, <2>4, <1>1, BestOfMore
    <3>2. m \in misloaded' \/ (model' = m /\ rank' = m)
      <4>1. CASE m \in misloaded
        BY <4>1, <2>2, <1>4
      <4>2. CASE model = m /\ rank = m
        BY <4>2, <2>2, <2>4, <1>1, <1>4
      <4> QED
        BY <4>1, <4>2, <2>1
    <3> QED
      BY <3>1, <3>2, <2>1, <1>3 DEF Chosen, Best
  <2> QED
    BY <2>3, <2>4
<1> QED
  BY <1>6, <1>7

\* The scanner at the end of a pass, applied or not.
LEMMA PassEnds ==
  ASSUME NEW failed \in BOOLEAN, got' \in Versions, live \in Versions, MaxPublished \in Nat,
         lastVersion \in 0 .. MaxPublished, skewed \in BOOLEAN, disturbed \in BOOLEAN,
         WithModel \subseteq Tiers, Tiers # {}, Finish(got', failed),
         IF Fetched' = {} THEN UNCHANGED <<model, misloaded>> /\ InForce ELSE Chosen'
  PROVE  /\ live' \in Versions /\ skewed' \in BOOLEAN /\ disturbed' \in BOOLEAN
         /\ \E l \in 0 .. MaxPublished : Return(l)
         /\ InForce' /\ (live # Absent => live' # Absent)
<1>1. \/ /\ got' = Absent /\ UNCHANGED <<live, skewed>> /\ Return(lastVersion)
         /\ disturbed' = (disturbed \/ failed)
      \/ /\ got' # Absent /\ live' = got' /\ Return(Max({got'[b] : b \in Tiers}))
         /\ skewed' = FALSE /\ disturbed' = (disturbed \/ failed)
      \/ /\ got' # Absent /\ live' \in {live, got'} /\ Return(lastVersion)
         /\ skewed' = (live' # got' /\ (skewed \/ SomeModel(got')))
         /\ disturbed' = TRUE
  BY DEF Finish
<1>2. live' \in {live, got'} /\ (live' = live \/ live' # Absent)
  BY <1>1
<1>3. live' \in Versions /\ (live # Absent => live' # Absent)
  BY <1>2
<1>4. skewed' \in BOOLEAN /\ disturbed' \in BOOLEAN
  BY <1>1, Zenon
<1>5. \E l \in 0 .. MaxPublished : Return(l)
  <2> DEFINE S == {got'[x] : x \in Tiers}
  <2>1. S \in SUBSET (0 .. MaxPublished) /\ S # {}
    <3>1. \A x \in Tiers : got'[x] \in 0 .. MaxPublished
      BY DEF Versions
    <3>2. PICK x \in Tiers : TRUE
      OBVIOUS
    <3>3. got'[x] \in S
      OBVIOUS
    <3> QED
      BY <3>1, <3>3
  <2>2. Return(lastVersion) \/ Return(Max(S))
    BY <1>1
  <2> HIDE DEF S
  <2>3. Max(S) \in 0 .. MaxPublished
    BY <2>1, MaxOfBounded DEF Best
  <2> QED
    BY <2>2, <2>3
<1>6. SomeModel(got') <=> Fetched' # {}
  BY DEF SomeModel, Fetched
<1>7. ASSUME ~skewed', LiveModels' # {} PROVE Matches(LiveModels)'
  <2>1. CASE live' = got'
    <3>1. LiveModels' = Fetched'
      BY <2>1 DEF LiveModels, Fetched
    <3>2. Chosen'
      BY <3>1, <1>7
    <3> QED
      BY <3>1, <3>2 DEF Chosen, Matches, Best
  <2>2. CASE live' # got' \/ got' = Absent
    <3>1. live' = live /\ Fetched' = {} /\ ~skewed
      <4>1. CASE got' = Absent
        <5>1. Fetched' = {}
          BY <4>1 DEF Fetched, Absent
        <5> QED
          BY <5>1, <4>1, <1>1, <1>7, Zenon
      <4>2. CASE live' # got'
        BY <4>2, <2>2, <1>1, <1>6, <1>7, <4>1, Zenon
      <4> QED
        BY <4>1, <4>2, <2>2
    <3>2. LiveModels' = LiveModels /\ UNCHANGED <<model, misloaded>> /\ InForce
      BY <3>1 DEF LiveModels
    <3> QED
      BY <3>1, <3>2, <1>7 DEF InForce, Matches, Best
  <2> QED
    BY <2>1, <2>2
<1>8. InForce'
  BY <1>7 DEF InForce
<1> QED
  BY <1>3, <1>4, <1>5, <1>8

\* A bundle done, in a version that is not 0, or given up.
LEMMA BundleKeeps ==
  ASSUME SyncInv, pc = "bundles", NEW b \in todo, NEW v \in 0 .. MaxPublished,
         NEW d \in [Tiers -> Entries(MaxPublished)], NEW failed \in BOOLEAN,
         BundleDone(b, v, d, failed),
         IF v = 0 THEN UNCHANGED Models ELSE LoadModel(b),
         mishaps' \in 0 .. MaxMishaps, lost' \subseteq Tiers
  PROVE  SyncInv' /\ (live # Absent => live' # Absent)
<1>1. TypeOK /\ PassInv
  BY DEF SyncInv
<1>2. /\ b \in Tiers /\ todo' = todo \ {b} /\ got' = [got EXCEPT ![b] = v]
      /\ IF todo = {b} THEN Finish(got', failed)
         ELSE /\ disturbed' = (disturbed \/ failed)
              /\ UNCHANGED <<live, lastVersion, again, pc, skewed>>
      /\ OnDisk(d) /\ UNCHANGED <<mode, tier, announced, verified, Server>>
  BY <1>1 DEF BundleDone, TypeOK
<1>3. /\ got \in Versions /\ got' \in Versions /\ live \in Versions
      /\ lastVersion \in 0 .. MaxPublished /\ skewed \in BOOLEAN /\ disturbed \in BOOLEAN
  BY <1>1, <1>2 DEF TypeOK, Versions
<1>4. disk' \in [Tiers -> Entries(MaxPublished)]
  BY <1>2, DiskKept
<1>5. /\ {model, rank} \subseteq Tiers \cup {0} /\ WithModel \subseteq Tiers /\ Tiers \subseteq Nat
      /\ Tiers # {} /\ 0 \notin Tiers /\ misloaded \subseteq Tiers /\ MaxPublished \in Nat
  <2>1. {model, rank} \subseteq Tiers \cup {0} /\ misloaded \subseteq Tiers
    BY <1>1 DEF TypeOK
  <2>2. WithModel \subseteq Tiers /\ Tiers # {} /\ MaxPublished \in Nat
    BY SignatureAssumption
  <2>3. Tiers \subseteq Nat /\ 0 \notin Tiers
    BY TiersBounded
  <2> QED
    BY <2>1, <2>2, <2>3
<1>6. {model', rank'} \subseteq Tiers \cup {0} /\ misloaded' \subseteq Tiers
  BY <1>2, <1>5 DEF LoadModel, Models
<1>7. /\ verified' # 0
      /\ IF Fetched' = {} THEN rank' = 0 /\ UNCHANGED <<model, misloaded>> /\ InForce ELSE Chosen'
  <2>1. verified # 0 /\ IF Fetched = {} THEN rank = 0 /\ InForce ELSE Chosen
    BY <1>1 DEF PassInv
  <2>2. CASE v # 0 /\ b \in WithModel
    <3>1. Fetched' = Fetched \cup {b} /\ b \notin Fetched
      BY <2>2, <1>1, <1>2, <1>3, <1>5 DEF Fetched, Versions, PassInv
    <3>2. WithModel \subseteq Nat /\ 0 \notin WithModel /\ LoadModel(b)
      BY <2>2, <1>5
    <3> QED
      BY <3>1, <3>2, <2>1, <2>2, <1>2, ChosenOfMore
  <2>3. CASE ~(v # 0 /\ b \in WithModel)
    <3>1. UNCHANGED <<model, rank, misloaded>>
      BY <2>3 DEF LoadModel, Models
    <3>2. Fetched' = Fetched
      <4>1. b \in WithModel => v = 0 /\ got[b] = 0 /\ got'[b] = 0
        BY <2>3, <1>1, <1>2, <1>3 DEF PassInv, Versions
      <4>2. \A x \in Tiers \ {b} : got'[x] = got[x]
        BY <1>2, <1>3 DEF Versions
      <4> QED
        BY <4>1, <4>2, <1>5 DEF Fetched
    <3> QED
      BY <3>1, <3>2, <2>1, <1>2 DEF Chosen, Best
  <2> QED
    BY <2>2, <2>3
<1>8. CASE todo = {b}
  <2>1. Finish(got', failed) /\ todo' = {}
    BY <1>2, <1>8
  <2>2. /\ live' \in Versions /\ skewed' \in BOOLEAN /\ disturbed' \in BOOLEAN
        /\ \E l \in 0 .. MaxPublished : Return(l)
        /\ InForce' /\ (live # Absent => live' # Absent)
    BY <2>1, <1>3, <1>5, <1>7, PassEnds
  <2>3. /\ pc' \in {"idle", "manifest"} /\ again' = FALSE /\ lastVersion' \in 0 .. MaxPublished
    BY <2>2, Returned
  <2>4. TypeOK'
    BY <2>1, <2>2, <2>3, <1>1, <1>2, <1>3, <1>4, <1>6 DEF TypeOK, Server
  <2> QED
    BY <2>2, <2>3, <2>4, OutsidePass
<1>9. CASE todo # {b}
  <2>1. todo' # {} /\ UNCHANGED <<live, lastVersion, again, pc, skewed>>
    BY <1>2, <1>9
  <2>2. disturbed' \in BOOLEAN
    BY <1>2, <1>3, <1>9, Zenon
  <2>3. TypeOK'
    BY <2>1, <2>2, <1>1, <1>2, <1>3, <1>4, <1>6 DEF TypeOK, Server
  <2>4. \A x \in todo' : got'[x] = 0
    BY <1>1, <1>2, <1>3 DEF PassInv, TypeOK, Versions
  <2>5. Fetched' = {} => InForce'
    <3>1. ASSUME Fetched' = {} PROVE InForce'
      <4>1. UNCHANGED <<live, model, misloaded, skewed>> /\ InForce
        BY <3>1, <2>1, <1>7
      <4> QED
        BY <4>1 DEF InForce, LiveModels, Matches, Best
    <3> QED
      BY <3>1
  <2>6. PassInv'
    BY <2>4, <2>5, <1>7 DEF PassInv
  <2> QED
    BY <2>1, <2>3, <2>6 DEF SyncInv
<1> QED
  BY <1>8, <1>9

----------------------------------------------------------------------------
(* The steps.                                                              *)

\* A sync that fell back to the cache, or was refused, and returns.
LEMMA ReturnKeeps ==
  ASSUME SyncInv, pc # "bundles", todo' = todo, got' = got, mode' = mode, tier' = tier,
         announced' = announced, verified' = verified, UNCHANGED Server,
         \/ \E raises \in BOOLEAN : LoadFromCache(raises)
         \/ UNCHANGED <<live, model, rank, misloaded, skewed>>,
         pc' \in {"idle", "manifest"}, again' \in BOOLEAN, lastVersion' = lastVersion,
         disk' \in [Tiers -> Entries(MaxPublished)],
         mishaps' \in 0 .. MaxMishaps, disturbed' \in BOOLEAN, lost' \subseteq Tiers
  PROVE  SyncInv' /\ (live # Absent => live' # Absent)
<1>1. TypeOK /\ InForce
  BY DEF SyncInv
<1>2. /\ {model', rank'} \subseteq Tiers \cup {0} /\ live' \in Versions
      /\ misloaded' \subseteq Tiers /\ skewed' \in BOOLEAN
      /\ InForce'
      /\ live # Absent => live' # Absent
  <2>1. CASE \E raises \in BOOLEAN : LoadFromCache(raises)
    BY <2>1, <1>1, CacheLoaded
  <2>2. CASE UNCHANGED <<live, model, rank, misloaded, skewed>>
    BY <2>2, <1>1 DEF TypeOK, InForce, LiveModels, Matches, Best
  <2> QED
    BY <2>1, <2>2
<1>3. TypeOK'
  BY <1>1, <1>2 DEF TypeOK, Server
<1> QED
  BY <1>2, <1>3, OutsidePass

\* Every step of the client keeps the invariant, and leaves signatures where there were.
LEMMA ClientKeeps ==
  ASSUME SyncInv, ClientStep
  PROVE  SyncInv' /\ (live # Absent => live' # Absent)
<1>1. TypeOK
  BY DEF SyncInv
<1>2. /\ disk \in [Tiers -> Entries(MaxPublished)] /\ mishaps \in 0 .. MaxMishaps
      /\ disturbed \in BOOLEAN /\ lost \subseteq Tiers /\ lastVersion \in 0 .. MaxPublished
      /\ MaxMishaps \in Nat /\ again \in BOOLEAN /\ 1 \in Tiers /\ verified \in 0 .. MaxPublished
  BY <1>1, TiersBounded, SignatureAssumption DEF TypeOK
<1>3. ASSUME NEW kind, Mishap(kind) PROVE mishaps' \in 0 .. MaxMishaps
  BY <1>2, <1>3 DEF Mishap
<1>4. CASE Registers
  <2>1. /\ pc = "start" /\ pc' = "idle"
        /\ UNCHANGED <<mode, tier, announced, again, verified, lastVersion, todo, got, live,
                       model, rank, disk, Server, mishaps, History>>
    BY <1>4 DEF Registers
  <2> QED
    BY <2>1, <1>2, ReturnKeeps DEF History
<1>5. CASE RegistrationFails
  <2>1. /\ pc = "start" /\ pc' = "idle" /\ Mishap("failure") /\ LoadFromCache(FALSE)
        /\ UNCHANGED <<mode, tier, announced, again, verified, lastVersion, todo, got,
                       disk, Server, disturbed, lost>>
    BY <1>5 DEF RegistrationFails
  <2> QED
    BY <2>1, <1>2, <1>3, ReturnKeeps
<1>6. CASE Heartbeat
  <2>1. /\ pc = "idle" /\ pc' = "manifest" /\ OnDisk(disk)
        /\ announced' = published /\ tier' = entitled /\ again' = (entitled # tier)
        /\ verified' = (IF entitled # tier THEN 0 ELSE verified)
        /\ UNCHANGED <<mode, lastVersion, todo, got, live, model, rank, Server, mishaps, History>>
    BY <1>6 DEF Heartbeat
  <2>2. disk' \in [Tiers -> Entries(MaxPublished)]
    BY <2>1, <1>2, DiskKept
  <2>3. verified' \in 0 .. MaxPublished /\ announced' \in 0 .. MaxPublished
    BY <2>1, <1>1, <1>2, SignatureAssumption DEF TypeOK
  <2>4. TypeOK'
    BY <2>1, <2>2, <2>3, <1>1 DEF TypeOK, Server, History
  <2>5. InForce'
    BY <2>1 DEF SyncInv, InForce, LiveModels, Matches, Best, History
  <2> QED
    BY <2>1, <2>4, <2>5, OutsidePass
<1>7. CASE ManifestTaken
  <2>1. /\ pc = "manifest" /\ pc' = "bundles" /\ verified' = published
        /\ todo' = Bundles(tier) /\ got' = Absent /\ rank' = 0
        /\ UNCHANGED <<mode, tier, announced, again, lastVersion, live, model, disk, Server,
                       mishaps, History>>
    BY <1>7 DEF ManifestTaken
  <2>2. todo' # {} /\ todo' \in SUBSET Tiers /\ verified' # 0
    <3>1. 1 \in Bundles(tier)
      BY <1>1, <1>2, TiersBounded DEF TypeOK, Bundles
    <3>2. published # 0
      BY <1>1 DEF TypeOK
    <3> QED
      BY <3>1, <3>2, <2>1 DEF Bundles
  <2>3. got' \in Versions /\ verified' \in 0 .. MaxPublished
    BY <2>1, <1>1, SignatureAssumption DEF TypeOK, Versions, Absent
  <2>4. TypeOK'
    BY <2>1, <2>2, <2>3, <1>1 DEF TypeOK, Server, History
  <2>5. \A b \in Tiers : got'[b] = 0
    BY <2>1 DEF Absent
  <2>6. Fetched' = {}
    BY <2>5, SignatureAssumption DEF Fetched
  <2>7. InForce'
    BY <2>1 DEF SyncInv, InForce, LiveModels, Matches, Best, History
  <2> QED
    BY <2>1, <2>2, <2>4, <2>5, <2>6, <2>7 DEF SyncInv, PassInv
<1>8. CASE ManifestRefused
  <2>1. /\ pc = "manifest" /\ Return(lastVersion) /\ OnDisk(disk) /\ disturbed' = TRUE
        /\ UNCHANGED <<mode, tier, announced, verified, todo, got, live, model, rank, Server,
                       mishaps, lost, misloaded, skewed>>
    BY <1>8 DEF ManifestRefused
  <2>2. /\ pc' \in {"idle", "manifest"} /\ again' = FALSE /\ lastVersion' = lastVersion
        /\ disk' \in [Tiers -> Entries(MaxPublished)]
    BY <2>1, <1>2, DiskKept DEF Return
  <2> QED
    BY <2>1, <2>2, <1>2, ReturnKeeps
<1>9. CASE ManifestFails
  <2>1. /\ pc = "manifest" /\ OnDisk(disk) /\ disturbed' = TRUE /\ Mishap("failure")
        /\ \E raises \in BOOLEAN : LoadFromCache(raises)
        /\ Return(lastVersion) \/ (pc' = "idle" /\ again' = FALSE /\ UNCHANGED lastVersion)
        /\ UNCHANGED <<mode, tier, announced, verified, todo, got, Server, lost>>
    BY <1>9 DEF ManifestFails
  <2>2. /\ pc' \in {"idle", "manifest"} /\ again' = FALSE /\ lastVersion' = lastVersion
        /\ disk' \in [Tiers -> Entries(MaxPublished)]
    BY <2>1, <1>2, DiskKept DEF Return
  <2> QED
    BY <2>1, <2>2, <1>2, <1>3, ReturnKeeps
<1>10. ASSUME NEW b \in Tiers, BundleFetched(b)
       PROVE  SyncInv' /\ (live # Absent => live' # Absent)
  <2> DEFINE d == IF b \in Encrypted THEN [disk EXCEPT ![b] = Saved(mode, @, verified)] ELSE disk
  <2>1. /\ pc = "bundles" /\ b \in todo /\ LoadModel(b) /\ BundleDone(b, verified, d, FALSE)
        /\ lost' = lost \ {b} /\ (UNCHANGED mishaps \/ Mishap("defect"))
    BY <1>10 DEF BundleFetched
  <2>2. verified # 0
    BY <2>1 DEF SyncInv, PassInv
  <2>3. Saved(mode, disk[b], verified) \in Entries(MaxPublished)
    BY <1>2 DEF Saved, Entries, Cut
  <2>4. d \in [Tiers -> Entries(MaxPublished)]
    BY <2>3, <1>2
  <2> HIDE DEF d
  <2>5. mishaps' \in 0 .. MaxMishaps
    BY <2>1, <1>2, <1>3
  <2> QED
    BY <2>1, <2>2, <2>4, <2>5, <1>2, BundleKeeps
<1>11. ASSUME NEW b \in Tiers, SaveFails(b)
       PROVE  SyncInv' /\ (live # Absent => live' # Absent)
  <2>1. /\ pc = "bundles" /\ b \in todo /\ LoadModel(b) /\ Mishap("failure")
        /\ lost' = lost \cup {b}
        /\ \E e \in Torn(mode, disk[b], verified) :
             BundleDone(b, verified, [disk EXCEPT ![b] = e], FALSE)
    BY <1>11 DEF SaveFails
  <2>2. PICK e \in Torn(mode, disk[b], verified) :
          BundleDone(b, verified, [disk EXCEPT ![b] = e], FALSE)
    BY <2>1
  <2>3. verified # 0
    BY <2>1 DEF SyncInv, PassInv
  <2>4. e \in Entries(MaxPublished)
    <3>1. disk[b] \in Entries(MaxPublished) /\ Cut \in Cut .. MaxPublished
      BY <1>2, SignatureAssumption DEF Cut
    <3>2. verified \in Cut .. MaxPublished
      BY <1>2 DEF Cut
    <3> QED
      BY <3>1, <3>2, <2>2 DEF Torn, Entries
  <2> DEFINE d == [disk EXCEPT ![b] = e]
  <2>5. d \in [Tiers -> Entries(MaxPublished)] /\ BundleDone(b, verified, d, FALSE)
    BY <2>2, <2>4, <1>2
  <2> HIDE DEF d
  <2> QED
    BY <2>1, <2>3, <2>5, <1>2, <1>3, BundleKeeps
<1>12. ASSUME NEW b \in Tiers, BundleFails(b)
       PROVE  SyncInv' /\ (live # Absent => live' # Absent)
  <2>1. pc = "bundles" /\ b \in todo /\ Mishap("failure") /\ UNCHANGED lost
    BY <1>12 DEF BundleFails
  <2>2. PICK v \in FromCache(b) :
          /\ IF v = 0 THEN UNCHANGED Models ELSE LoadModel(b)
          /\ BundleDone(b, v, disk, TRUE)
    BY <1>12 DEF BundleFails
  <2>3. v \in 0 .. MaxPublished
    <3>1. Loads(disk[b]) => disk[b].lic \in 1 .. MaxPublished
      BY <1>1, UsableHasVersion
    <3>2. published \in 0 .. MaxPublished /\ 0 \in 0 .. MaxPublished
      BY <1>1, SignatureAssumption DEF TypeOK
    <3> QED
      BY <3>1, <3>2, <2>2 DEF FromCache
  <2> QED
    BY <2>1, <2>2, <2>3, <1>2, <1>3, BundleKeeps
<1>13. ASSUME NEW b \in Tiers, LicenseRefused(b)
       PROVE  SyncInv' /\ (live # Absent => live' # Absent)
  <2>1. /\ pc = "bundles" /\ b \in todo /\ Mishap("failure") /\ BundleDone(b, 0, disk, TRUE)
        /\ UNCHANGED <<Models, lost>>
    BY <1>13 DEF LicenseRefused
  <2>2. 0 \in 0 .. MaxPublished
    BY SignatureAssumption
  <2> QED
    BY <2>1, <2>2, <1>2, <1>3, BundleKeeps
<1>14. CASE ManifestUseless
  <2>1. /\ pc = "manifest" /\ Return(lastVersion) /\ OnDisk(disk) /\ disturbed' = TRUE
        /\ Mishap("failure") /\ verified' \in {verified, published}
        /\ UNCHANGED <<mode, tier, announced, todo, got, live, model, rank, Server, lost,
                       misloaded, skewed>>
    BY <1>14 DEF ManifestUseless
  <2>2. /\ pc' \in {"idle", "manifest"} /\ again' = FALSE /\ lastVersion' = lastVersion
        /\ disk' \in [Tiers -> Entries(MaxPublished)]
    BY <2>1, <1>2, DiskKept DEF Return
  <2>3. mishaps' \in 0 .. MaxMishaps /\ verified' \in 0 .. MaxPublished
    BY <2>1, <1>1, <1>2, <1>3, SignatureAssumption DEF TypeOK
  <2>4. TypeOK'
    BY <2>1, <2>2, <2>3, <1>1 DEF TypeOK, Server
  <2>5. InForce'
    BY <2>1 DEF SyncInv, InForce, LiveModels, Matches, Best
  <2> QED
    BY <2>1, <2>2, <2>4, <2>5, OutsidePass
<1>15. ASSUME NEW b \in Tiers, BundleAborts(b)
       PROVE  SyncInv' /\ (live # Absent => live' # Absent)
  <2>1. /\ pc = "bundles" /\ Mishap("failure") /\ todo' = {} /\ Return(lastVersion)
        /\ OnDisk(disk) /\ disturbed' = TRUE /\ skewed' = (skewed \/ SomeModel(got))
        /\ UNCHANGED <<mode, tier, announced, verified, got, live, model, rank, misloaded,
                       Server, lost>>
    BY <1>15 DEF BundleAborts, Models
  <2>2. /\ pc' \in {"idle", "manifest"} /\ again' = FALSE /\ lastVersion' = lastVersion
        /\ disk' \in [Tiers -> Entries(MaxPublished)] /\ mishaps' \in 0 .. MaxMishaps
    BY <2>1, <1>2, <1>3, DiskKept DEF Return
  <2>3. skewed' \in BOOLEAN /\ disturbed' \in BOOLEAN
    BY <2>1, Zenon DEF SomeModel
  <2>4. TypeOK'
    BY <2>1, <2>2, <2>3, <1>1 DEF TypeOK, Server
  <2>5. Fetched = {} => InForce
    BY <2>1 DEF SyncInv, PassInv
  <2>6. ASSUME ~skewed' PROVE ~skewed /\ Fetched = {}
    <3>1. ~skewed /\ ~SomeModel(got)
      BY <2>1, <2>6, Zenon
    <3> QED
      BY <3>1 DEF SomeModel, Fetched
  <2>7. InForce'
    BY <2>1, <2>5, <2>6 DEF InForce, LiveModels, Matches, Best
  <2> QED
    BY <2>1, <2>2, <2>4, <2>7, OutsidePass
<1> QED
  BY <1>4, <1>5, <1>6, <1>7, <1>8, <1>9, <1>10, <1>11, <1>12, <1>13, <1>14, <1>15 DEF ClientStep

\* So does every step of the control plane, the clock and the machine; only a crash
\* takes the signatures away.
LEMMA EnvironmentKeeps ==
  ASSUME SyncInv, Environment
  PROVE  SyncInv' /\ (live # Absent => live' # Absent \/ pc' = "start")
<1>1. TypeOK
  BY DEF SyncInv
<1>2. /\ 1 \in Tiers /\ 0 \in 0 .. MaxPublished /\ MaxTierChanges \in Nat /\ MaxMishaps \in Nat
      /\ MaxPublished \in Nat
  BY TiersBounded, SignatureAssumption
<1>3. ASSUME NEW kind, Mishap(kind) PROVE mishaps' \in 0 .. MaxMishaps
  BY <1>1, <1>2, <1>3 DEF Mishap, TypeOK
<1>4. CASE Publish
  <2>1. /\ published < MaxPublished /\ published' = published + 1 /\ disturbed' = FALSE
        /\ UNCHANGED <<Client, disk, entitled, tierChanges, mishaps, lost,
                       misloaded, skewed>>
    BY <1>4 DEF Publish
  <2>2. published' \in 1 .. MaxPublished
    BY <2>1, <1>1, <1>2 DEF TypeOK
  <2>3. TypeOK'
    BY <2>1, <2>2, <1>1 DEF TypeOK, Client
  <2> QED
    BY <2>1, <2>3 DEF SyncInv, PassInv, InForce, LiveModels, Fetched, Chosen, Matches, Best,
      Client, History
<1>5. CASE TierChanges
  <2>1. /\ tierChanges < MaxTierChanges /\ tierChanges' = tierChanges + 1
        /\ entitled' \in Tiers
        /\ UNCHANGED <<Client, disk, published, mishaps, History>>
    BY <1>5 DEF TierChanges
  <2>2. TypeOK'
    BY <2>1, <1>1, <1>2 DEF TypeOK, Client, History
  <2> QED
    BY <2>1, <2>2 DEF SyncInv, PassInv, InForce, LiveModels, Fetched, Chosen, Matches, Best,
      Client, History
<1>6. ASSUME NEW b \in Tiers, LicenseExpires(b)
      PROVE  SyncInv' /\ (live # Absent => live' # Absent)
  <2>1. /\ Mishap("expiry") /\ disk' = [disk EXCEPT ![b].valid = FALSE] /\ lost' = lost \cup {b}
        /\ UNCHANGED <<Client, Server, disturbed, misloaded, skewed>>
    BY <1>6 DEF LicenseExpires
  <2>2. disk' \in [Tiers -> Entries(MaxPublished)]
    BY <2>1, <1>1 DEF TypeOK, Entries
  <2>3. TypeOK'
    BY <2>1, <2>2, <1>1, <1>3 DEF TypeOK, Client, Server
  <2> QED
    BY <2>1, <2>3 DEF SyncInv, PassInv, InForce, LiveModels, Fetched, Chosen, Matches, Best,
      Client, History
<1>7. CASE Crash
  <2>1. /\ Mishap("crash") /\ pc' = "start" /\ tier' = 1 /\ announced' = 0 /\ verified' = 0
        /\ lastVersion' = 0 /\ model' = 0 /\ rank' = 0 /\ again' = FALSE /\ todo' = {}
        /\ got' = Absent /\ live' = Absent /\ disturbed' = FALSE
        /\ misloaded' = {} /\ skewed' = FALSE
        /\ UNCHANGED <<mode, disk, Server, lost>>
    BY <1>7 DEF Crash
  <2>2. Absent \in Versions
    BY <1>2 DEF Absent, Versions
  <2>3. TypeOK'
    BY <2>1, <2>2, <1>1, <1>2, <1>3 DEF TypeOK, Server
  <2>4. LiveModels' = {}
    BY <2>1, SignatureAssumption DEF LiveModels, Absent
  <2> QED
    BY <2>1, <2>3, <2>4, OutsidePass DEF InForce
<1> QED
  BY <1>4, <1>5, <1>6, <1>7 DEF Environment

\* Before the first heartbeat nothing is in force.
LEMMA InitEstablishes == Init => SyncInv
<1> SUFFICES ASSUME Init PROVE SyncInv
  OBVIOUS
<1>1. /\ 1 \in Tiers /\ 0 \in 0 .. MaxPublished /\ 1 \in 1 .. MaxPublished
      /\ MaxTierChanges \in Nat /\ MaxMishaps \in Nat /\ MaxPublished \in Nat
  BY TiersBounded, SignatureAssumption
<1>2. Absent \in Versions /\ Nothing \in Entries(MaxPublished)
  BY <1>1 DEF Absent, Versions, Nothing, Entries, Cut
<1>3. TypeOK
  <2>1. /\ {got, live} \subseteq Versions /\ disk \in [Tiers -> Entries(MaxPublished)]
        /\ {announced, verified, lastVersion} \subseteq 0 .. MaxPublished
    BY <1>1, <1>2 DEF Init
  <2>2. /\ published \in 1 .. MaxPublished /\ tierChanges \in 0 .. MaxTierChanges
        /\ mishaps \in 0 .. MaxMishaps
    BY <1>1 DEF Init
  <2> QED
    BY <2>1, <2>2, <1>1 DEF Init, TypeOK
<1>4. LiveModels = {}
  BY SignatureAssumption DEF Init, LiveModels, Absent
<1> QED
  BY <1>3, <1>4 DEF SyncInv, PassInv, InForce, Init

----------------------------------------------------------------------------
(* The theorems.                                                           *)

\* Every step keeps the invariant, and only a crash takes the signatures away.
LEMMA NextKeeps ==
  ASSUME SyncInv, [Next]_vars
  PROVE  SyncInv' /\ (live # Absent => live' # Absent \/ pc' = "start")
<1>1. CASE UNCHANGED vars
  <2>1. UNCHANGED <<Client, disk, Server, mishaps, History>>
    BY <1>1 DEF vars
  <2>2. TypeOK'
    BY <2>1 DEF SyncInv, TypeOK, Client, Server, History
  <2> QED
    BY <2>1, <2>2 DEF SyncInv, PassInv, InForce, LiveModels, Fetched, Chosen, Matches, Best,
      Client, History
<1>2. CASE ClientStep
  BY <1>2, ClientKeeps
<1>3. CASE Environment
  BY <1>3, EnvironmentKeeps
<1> QED
  BY <1>1, <1>2, <1>3 DEF Next

\* SyncInv is an invariant of the sync.
THEOREM Invariance == Spec => []SyncInv
<1>1. SyncInv /\ [Next]_vars => SyncInv'
  BY NextKeeps
<1> QED
  BY InitEstablishes, <1>1, PTL DEF Spec

\* The type of every variable.
THEOREM TypeCorrect == Spec => []TypeOK
<1>1. SyncInv => TypeOK
  BY DEF SyncInv
<1> QED
  BY <1>1, Invariance, PTL

\* Highest tier wins: between syncs the model is the one of the highest tier among
\* the bundles in force, whichever requests failed and whatever the disk held,
\* unless that model itself failed to load, or a pass ended in an error after it had
\* come to a model and none was applied since.
THEOREM HighestTierWins == Spec => []ModelMatchesSignatures
<1>1. ASSUME SyncInv PROVE ModelMatchesSignatures
  <2>1. LiveModels \in SUBSET Nat
    BY TiersBounded, SignatureAssumption DEF LiveModels
  <2>2. ASSUME pc = "idle", ~skewed, LiveModels # {}
        PROVE  model = Max(LiveModels) \/ Max(LiveModels) \in misloaded
    <3>1. PICK m \in LiveModels : Best(m, LiveModels) /\ (m \in misloaded \/ model = m)
      BY <1>1, <2>2 DEF SyncInv, InForce, Matches
    <3>2. Max(LiveModels) = m
      BY <3>1, <2>1, BestIsMax
    <3> QED
      BY <3>1, <3>2
  <2> QED
    BY <2>2 DEF ModelMatchesSignatures
<1>2. SyncInv => ModelMatchesSignatures
  BY <1>1
<1> QED
  BY <1>2, Invariance, PTL

\* No step but a crash leaves a scanner that had signatures without any.
THEOREM Protection == Spec => NeverUnprotected
<1>1. SyncInv /\ [Next]_vars => [live # Absent => live' # Absent \/ pc' = "start"]_vars
  BY NextKeeps
<1>2. Spec => []SyncInv /\ [][Next]_vars
  BY Invariance DEF Spec
<1> QED
  BY <1>1, <1>2, PTL DEF NeverUnprotected
=============================================================================
