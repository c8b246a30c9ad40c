--------------------------- MODULE SignatureSync ---------------------------
(***************************************************************************)
(* Signature and model sync: the parts of _send_heartbeat that start it,   *)
(* _fetch_and_apply_signatures, _fetch_encrypted_bundle and                *)
(* _load_signatures_from_cache (src/src/aiproxyguard/control_plane.py),    *)
(* ManifestVerifier (signatures/verifier.py) and the highest-tier-wins     *)
(* loading of models (scanner/pipeline.py).                                *)
(*                                                                         *)
(* Syncs run only in the heartbeat loop, one at a time; a step goes from   *)
(* one await to the next, while the control plane publishes manifests and  *)
(* changes the account's tier.  The manifests of all tiers are published   *)
(* together and give every bundle the version of the publication.  The     *)
(* disk is module BundleCache; it survives a crash of the proxy, nothing   *)
(* else does.  Licenses expire on disk, never within a pass.               *)
(*                                                                         *)
(* An operator named Faulty... is a slip a change of the code could make;  *)
(* nothing here uses it (README.md).                                       *)
(***************************************************************************)
EXTENDS Integers, FiniteSets, FiniteSetsExt, BundleCache

CONSTANTS
  Tiers,           \* 1 .. n; the bundle of a tier has the tier's number
  Encrypted,       \* tiers whose bundle is encrypted, hence cached on disk
  WithModel,       \* tiers whose bundle embeds a model
  Chained,         \* publications whose manifest carries the hash of the one before
  MaxPublished,    \* bound: publications
  MaxTierChanges,  \* bound: tier changes
  Modes,           \* values of cache_mode
  Mishaps,         \* what may go wrong: "failure" of a request, of a write or of what
                   \* is done with a reply, "crash" of the proxy, "expiry" of a
                   \* license on disk, "defect" of a model, which does not load, or of
                   \* signatures, which cannot be applied
  MaxMishaps       \* bound: steps that go wrong, some with a failure and defects

ASSUME SignatureAssumption ==
  /\ IsFiniteSet(Tiers) /\ Tiers # {} /\ Tiers = 1 .. Cardinality(Tiers)
  /\ Encrypted \subseteq Tiers
  /\ WithModel \subseteq Tiers
  /\ Chained \subseteq Nat
  /\ Modes \subseteq CacheModes
  /\ {MaxPublished, MaxTierChanges, MaxMishaps} \subseteq Nat
  /\ MaxPublished > 0

VARIABLES
  mode,         \* cache_mode of the configuration file
  pc,           \* starting, idle, or waiting for the manifest or for a bundle
  tier,         \* _tier
  announced,    \* signature_version of the heartbeat being handled
  again,        \* the version check of this heartbeat is still to come
  verified,     \* sequence of the last verified manifest; 0 after a reset
  lastVersion,  \* _last_signature_version
  todo,         \* bundles of the manifest not fetched yet
  got,          \* bundle_contents: version of each bundle of this pass
  disk,         \* what the disk holds of each bundle
  live,         \* the scanner: version of each bundle's signatures
  model,        \* tier of the active model; 0 is none
  rank,         \* _ml_model_tier_rank
  published,    \* server: sequence of the current manifest
  entitled,     \* server: the account's tier
  tierChanges,  \* server: changes so far
  mishaps,      \* steps that went wrong so far
  disturbed,    \* history: a request failed, a manifest was refused or a pass ended
                \* in an error since the last publication or crash
  lost,         \* history: bundles whose last save failed or whose license expired
  misloaded,    \* history: tiers whose model failed when it was last to be loaded
  skewed        \* history: a pass ended in an error after it had come to a model, and
                \* none was applied since

Client == <<mode, pc, tier, announced, again, verified, lastVersion, todo, got,
            live, model, rank>>
Server == <<published, entitled, tierChanges>>
Models == <<model, rank, misloaded>>
History == <<disturbed, lost, misloaded, skewed>>

vars == <<Client, disk, Server, mishaps, History>>

\* A version for every bundle; 0 is absent.
Versions == [Tiers -> 0 .. MaxPublished]
Absent == [t \in Tiers |-> 0]

\* The bundles a manifest for this tier lists.
Bundles(t) == {b \in Tiers : b <= t}

Init ==
  /\ mode \in Modes
  /\ pc = "start"
  /\ tier = 1
  /\ announced = 0
  /\ again = FALSE
  /\ verified = 0
  /\ lastVersion = 0
  /\ todo = {}
  /\ got = Absent
  /\ disk = [b \in Tiers |-> Nothing]
  /\ live = Absent
  /\ model = 0
  /\ rank = 0
  /\ published = 1
  /\ entitled \in Tiers
  /\ tierChanges = 0
  /\ mishaps = 0
  /\ disturbed = FALSE
  /\ lost = {}
  /\ misloaded = {}
  /\ skewed = FALSE

----------------------------------------------------------------------------
(* Offline: what is on disk replaces what is live.                         *)

Mishap(kind) ==
  /\ kind \in Mishaps
  /\ mishaps < MaxMishaps
  /\ mishaps' = mishaps + 1

\* In a step that goes wrong models and signatures may be defective, too.
Defects == "defect" \in Mishaps /\ mishaps' # mishaps

\* The models of the tiers S are loaded, in any order, and r is the highest that
\* loads.  One above it that fails to may leave no model at all, see LoadModel.
LoadModels(S, r) ==
  LET best == IF r = 0 THEN model ELSE r
  IN /\ r # Max(S \cup {0}) => Defects
     /\ model' \in IF r = Max(S \cup {0}) THEN {best} ELSE {best, 0}
     /\ misloaded' = (misloaded \ {r}) \cup {b \in S : b > r}

\* _load_signatures_from_cache; an error of parsing or of the update callback comes
\* after the models and leaves it.
LoadFromCache(raises) ==
  LET usable == {b \in Encrypted : Usable(disk[b])}
      S == usable \cap WithModel
      cached == [b \in Tiers |-> IF b \in usable THEN disk[b].lic ELSE 0]
  IN /\ \E r \in S \cup {0} :
          /\ LoadModels(S, r)
          /\ rank' = IF \E b \in Encrypted : Listed(disk[b]) THEN r ELSE rank
     /\ \/ usable = {} /\ ~raises /\ UNCHANGED <<live, skewed>>
        \/ usable # {} /\ ~raises /\ live' = cached /\ skewed' = FALSE
        \/ /\ usable # {} /\ raises /\ Defects /\ live' \in {live, cached}
           /\ skewed' = (live' # cached /\ (skewed \/ S # {}))

Registers ==
  /\ pc = "start"
  /\ pc' = "idle"
  /\ UNCHANGED <<mode, tier, announced, again, verified, lastVersion, todo, got, live, model, rank>>
  /\ UNCHANGED <<disk, Server, mishaps, History>>

\* An error of the cache would end the process: it would be where it was.
RegistrationFails ==
  /\ pc = "start"
  /\ Mishap("failure")
  /\ LoadFromCache(FALSE)
  /\ pc' = "idle"
  /\ UNCHANGED <<mode, tier, announced, again, verified, lastVersion, todo, got>>
  /\ UNCHANGED <<disk, Server, disturbed, lost>>

----------------------------------------------------------------------------
(* The heartbeat.                                                          *)

\* A pass starts with clear_expired_cache.
OnDisk(d) == disk' = IF pc' = "manifest" THEN [b \in Tiers |-> Swept(d[b])] ELSE d

FaultyHeartbeat ==
  /\ pc = "idle"
  /\ announced' = published
  /\ tier' = entitled
  /\ verified' = IF entitled # tier THEN 0 ELSE verified
  /\ published # lastVersion /\ pc' = "manifest" /\ again' = FALSE
  /\ OnDisk(disk)
  /\ UNCHANGED <<mode, lastVersion, todo, got, live, model, rank, Server, mishaps, History>>

\* A new tier resets the verifier and syncs at once; the version is checked
\* afterwards.  _refresh_expiring_licenses, where there is nothing to sync, parses
\* a datetime as a string, and its error is swallowed: it refreshes nothing.
Heartbeat ==
  /\ pc = "idle"
  /\ announced' = published
  /\ tier' = entitled
  /\ verified' = IF entitled # tier THEN 0 ELSE verified
  /\ entitled # tier \/ published # lastVersion
  /\ pc' = "manifest"
  /\ again' = (entitled # tier)
  /\ OnDisk(disk)
  /\ UNCHANGED <<mode, lastVersion, todo, got, live, model, rank, Server, mishaps, History>>

\* _fetch_and_apply_signatures returns, having recorded this version.
Return(version) ==
  /\ lastVersion' = version
  /\ again' = FALSE
  /\ pc' = IF again /\ announced # version THEN "manifest" ELSE "idle"

----------------------------------------------------------------------------
(* The manifest.                                                           *)

PreviousHash(n) == IF n \in Chained /\ n > 1 THEN n - 1 ELSE 0

\* verify_manifest, for a manifest the server has signed.
Verifies(n) ==
  /\ n >= verified
  /\ verified = 0 \/ PreviousHash(n) \in {0, verified}

FaultyManifestTaken ==
  /\ pc = "manifest" /\ Verifies(published)
  /\ verified' = published
  /\ todo' = Bundles(tier)
  /\ got' = Absent
  /\ pc' = "bundles"
  /\ UNCHANGED <<mode, tier, announced, again, lastVersion, live, model, rank>>
  /\ UNCHANGED <<disk, Server, mishaps, History>>

\* The verifier moves on before any bundle is fetched.
ManifestTaken ==
  /\ pc = "manifest" /\ Verifies(published)
  /\ verified' = published
  /\ todo' = Bundles(tier)
  /\ got' = Absent
  /\ rank' = 0
  /\ pc' = "bundles"
  /\ UNCHANGED <<mode, tier, announced, again, lastVersion, live, model>>
  /\ UNCHANGED <<disk, Server, mishaps, History>>

ManifestRefused ==
  /\ pc = "manifest" /\ ~Verifies(published)
  /\ Return(lastVersion)
  /\ OnDisk(disk)
  /\ disturbed' = TRUE
  /\ UNCHANGED <<mode, tier, announced, verified, todo, got, live, model, rank>>
  /\ UNCHANGED <<Server, mishaps, lost, misloaded, skewed>>

\* It cannot be read, or is verified and lists no bundle: the cache is not asked.
ManifestUseless ==
  /\ pc = "manifest"
  /\ Mishap("failure")
  /\ verified' \in {verified} \cup {n \in {published} : Verifies(n)}
  /\ Return(lastVersion)
  /\ OnDisk(disk)
  /\ disturbed' = TRUE
  /\ UNCHANGED <<mode, tier, announced, todo, got, live, model, rank>>
  /\ UNCHANGED <<Server, lost, misloaded, skewed>>

\* An error of the cache ends the heartbeat.
ManifestFails ==
  /\ pc = "manifest"
  /\ Mishap("failure")
  /\ \/ LoadFromCache(FALSE) /\ Return(lastVersion)
     \/ LoadFromCache(TRUE) /\ pc' = "idle" /\ again' = FALSE /\ UNCHANGED lastVersion
  /\ OnDisk(disk)
  /\ disturbed' = TRUE
  /\ UNCHANGED <<mode, tier, announced, verified, todo, got, Server, lost>>

----------------------------------------------------------------------------
(* The bundles.                                                            *)

\* load_ml_from_bytes: a model of a lower tier than the active one is skipped.  One
\* that does not load leaves no model, except when the libraries it needs are missing.
LoadModel(b) ==
  \/ /\ b \notin WithModel \/ b < rank
     /\ UNCHANGED Models
  \/ /\ b \in WithModel /\ b >= rank
     /\ model' = b /\ rank' = b
     /\ misloaded' = misloaded \ {b}
  \/ /\ b \in WithModel /\ b >= rank /\ Defects
     /\ model' \in {model, 0} /\ UNCHANGED rank
     /\ misloaded' = misloaded \cup {b}

\* Whether the pass has come to a model.
SomeModel(contents) == \E b \in WithModel : contents[b] # 0

FaultyFinish(contents, failed) ==
  /\ live' = contents /\ Return(Max({contents[b] : b \in Tiers}))
  /\ skewed' = FALSE /\ disturbed' = (disturbed \/ failed)

\* With nothing fetched the live signatures stay.  An error of parsing or of the
\* update callback is logged, and no version is recorded.
Finish(contents, failed) ==
  \/ /\ contents = Absent
     /\ UNCHANGED <<live, skewed>> /\ Return(lastVersion)
     /\ disturbed' = (disturbed \/ failed)
  \/ /\ contents # Absent
     /\ live' = contents /\ Return(Max({contents[b] : b \in Tiers}))
     /\ skewed' = FALSE /\ disturbed' = (disturbed \/ failed)
  \/ /\ contents # Absent /\ Defects
     /\ live' \in {live, contents} /\ Return(lastVersion)
     /\ skewed' = (live' # contents /\ (skewed \/ SomeModel(contents)))
     /\ disturbed' = TRUE

FaultyBundleDone(b, version, d, failed) ==
  /\ todo' = todo \ {b}
  /\ got' = [got EXCEPT ![b] = version]
  /\ IF todo = {b} \/ version = 0
     THEN Finish(got', failed)
     ELSE /\ disturbed' = (disturbed \/ failed)
          /\ UNCHANGED <<live, lastVersion, again, pc, skewed>>
  /\ OnDisk(d)
  /\ UNCHANGED <<mode, tier, announced, verified, Server>>

\* Bundle b is done, in this version, with this on disk, and its request failed or
\* not; after the last one the pass is applied.
BundleDone(b, version, d, failed) ==
  /\ todo' = todo \ {b}
  /\ got' = [got EXCEPT ![b] = version]
  /\ IF todo = {b}
     THEN Finish(got', failed)
     ELSE /\ disturbed' = (disturbed \/ failed)
          /\ UNCHANGED <<live, lastVersion, again, pc, skewed>>
  /\ OnDisk(d)
  /\ UNCHANGED <<mode, tier, announced, verified, Server>>

BundleFetched(b) ==
  /\ pc = "bundles" /\ b \in todo
  /\ UNCHANGED mishaps \/ Mishap("defect")
  /\ LoadModel(b)
  /\ BundleDone(b, verified,
       IF b \in Encrypted THEN [disk EXCEPT ![b] = Saved(mode, @, verified)] ELSE disk,
       FALSE)
  /\ lost' = lost \ {b}

\* A failed save is logged; the bundle is used.
SaveFails(b) ==
  /\ pc = "bundles" /\ b \in todo \cap Encrypted
  /\ Mishap("failure")
  /\ LoadModel(b)
  /\ \E e \in Torn(mode, disk[b], verified) :
       BundleDone(b, verified, [disk EXCEPT ![b] = e], FALSE)
  /\ lost' = lost \cup {b}

\* The versions the disk cache may give when a bundle cannot be fetched; 0 is none.
\* A license cached without its key is refreshed from the control plane, which
\* gives the current one or fails.
FromCache(b) ==
  IF ~Loads(disk[b]) THEN {0}
  ELSE IF disk[b].dek THEN {IF Decrypts(disk[b]) THEN disk[b].lic ELSE 0}
  ELSE {0, IF disk[b].enc = published THEN published ELSE 0}

BundleFails(b) ==
  /\ pc = "bundles" /\ b \in todo
  /\ Mishap("failure")
  /\ \E v \in FromCache(b) :
       /\ IF v = 0 THEN UNCHANGED Models ELSE LoadModel(b)
       /\ BundleDone(b, v, disk, TRUE)
  /\ UNCHANGED lost

\* A license for another instance or of the past: the cache is not asked.
LicenseRefused(b) ==
  /\ pc = "bundles" /\ b \in todo \cap Encrypted
  /\ Mishap("failure")
  /\ BundleDone(b, 0, disk, TRUE)
  /\ UNCHANGED <<Models, lost>>

\* What bundle b brings cannot be read, and no handler but the last expects that:
\* the pass ends, with the models it has come to and the signatures of before.
BundleAborts(b) ==
  /\ pc = "bundles" /\ b \in todo
  /\ Mishap("failure")
  /\ todo' = {}
  /\ Return(lastVersion)
  /\ OnDisk(disk)
  /\ disturbed' = TRUE
  /\ skewed' = (skewed \/ SomeModel(got))
  /\ UNCHANGED <<mode, tier, announced, verified, got, live, Models, Server, lost>>

----------------------------------------------------------------------------
(* The control plane, time and crashes.                                    *)

Publish ==
  /\ published < MaxPublished
  /\ published' = published + 1
  /\ disturbed' = FALSE
  /\ UNCHANGED <<Client, disk, entitled, tierChanges, mishaps, lost, misloaded, skewed>>

TierChanges ==
  /\ tierChanges < MaxTierChanges
  /\ tierChanges' = tierChanges + 1
  /\ entitled' \in Tiers \ {entitled}
  /\ UNCHANGED <<Client, disk, published, mishaps, History>>

LicenseExpires(b) ==
  /\ Mishap("expiry")
  /\ pc \in {"start", "idle"} /\ Licensed(disk[b]) /\ disk[b].valid
  /\ disk' = [disk EXCEPT ![b].valid = FALSE]
  /\ lost' = lost \cup {b}
  /\ UNCHANGED <<Client, Server, disturbed, misloaded, skewed>>

\* The process starts anew.  A crash within a save is SaveFails and then this.
Crash ==
  /\ Mishap("crash")
  /\ pc # "start"
  /\ pc' = "start"
  /\ tier' = 1
  /\ announced' = 0
  /\ verified' = 0
  /\ lastVersion' = 0
  /\ model' = 0
  /\ rank' = 0
  /\ again' = FALSE
  /\ todo' = {}
  /\ got' = Absent
  /\ live' = Absent
  /\ disturbed' = FALSE
  /\ misloaded' = {}
  /\ skewed' = FALSE
  /\ UNCHANGED <<mode, disk, Server, lost>>

ClientStep ==
  \/ Registers \/ RegistrationFails
  \/ Heartbeat
  \/ ManifestTaken \/ ManifestRefused \/ ManifestUseless \/ ManifestFails
  \/ \E b \in Tiers :
       \/ BundleFetched(b) \/ SaveFails(b)
       \/ BundleFails(b) \/ LicenseRefused(b) \/ BundleAborts(b)

Environment == Publish \/ TierChanges \/ Crash \/ \E b \in Tiers : LicenseExpires(b)

Next == ClientStep \/ Environment

Spec == Init /\ [][Next]_vars

\* Every request ends within its timeout and the loop beats at an interval.
FairSpec == Spec /\ WF_vars(ClientStep)

----------------------------------------------------------------------------
(* Properties.                                                             *)

\* The type of every variable.
TypeOK ==
  /\ mode \in Modes
  /\ pc \in {"start", "idle", "manifest", "bundles"}
  /\ {tier, entitled} \subseteq Tiers
  /\ {announced, verified, lastVersion} \subseteq 0 .. MaxPublished
  /\ again \in BOOLEAN
  /\ todo \in SUBSET Tiers
  /\ pc = "bundles" <=> todo # {}
  /\ {got, live} \subseteq Versions
  /\ disk \in [Tiers -> Entries(MaxPublished)]
  /\ {model, rank} \subseteq Tiers \cup {0}
  /\ published \in 1 .. MaxPublished
  /\ tierChanges \in 0 .. MaxTierChanges
  /\ mishaps \in 0 .. MaxMishaps
  /\ disturbed \in BOOLEAN
  /\ {lost, misloaded} \subseteq SUBSET Tiers
  /\ skewed \in BOOLEAN

\* The scanner enforces the current version of every bundle of the account's tier
\* and no other.
Current == live = [b \in Tiers |-> IF b \in Bundles(entitled) THEN published ELSE 0]

\* "New detection signatures are automatically downloaded and hot-reloaded"
\* (docs/configuration.md): in the end the signatures are current, whatever was
\* published and however the tier changed while syncs were under way, unless a sync
\* of the last publication was disturbed.  A disturbed sync does no lasting harm:
\* the first publication after it that no failure or refusal follows is enforced in
\* the end, in full.
SignaturesConvergeUnlessDisturbed == <>[](Current \/ disturbed)

\* A failed or refused sync, whichever of its requests fail, never leaves a
\* scanner that had signatures without any.
NeverUnprotected == [][live # Absent => live' # Absent \/ pc' = "start"]_vars

\* A start without the control plane would find the current version of b on disk.
OnHand(b) == Usable(disk[b]) /\ disk[b].lic = published

\* "On restart, the proxy can still decrypt cached bundles with refreshed licenses"
\* (_refresh_expiring_licenses): in the end every encrypted bundle of the account's
\* tier can be used offline.
CacheConverges == <>[](\A b \in Encrypted \cap Bundles(entitled) : OnHand(b))

\* In mode "full" a bundle whose last save was whole and whose license has not
\* expired can be used offline in the end, and a save that failed is repaired by
\* the next one, whatever it left on disk and wherever the proxy crashed.
CacheConvergesUnlessLost ==
  <>[](\/ mode # "full" \/ disturbed
       \/ \A b \in Encrypted \cap Bundles(entitled) : OnHand(b) \/ b \in lost)

LiveModels == {b \in WithModel : live[b] # 0}

\* Highest tier wins (load_ml_from_bytes): between syncs the active model is the
\* one of the highest tier among the bundles in force, in any order of arrival,
\* with any request failing, also when the tier has gone down.  Two things excuse it,
\* for models are put in one by one and before the signatures: that model itself
\* failed to load, or a pass ended in an error after it had come to a model, which
\* leaves its models beside the signatures of before until a pass is applied.
ModelMatchesSignatures ==
  pc = "idle" /\ ~skewed /\ LiveModels # {} =>
    model = Max(LiveModels) \/ Max(LiveModels) \in misloaded
=============================================================================
