# AIProxyGuard in TLA+

AIProxyGuard is a proxy between clients and LLM providers. It scans requests and responses, enforces a
policy, routes and caches requests, and is configured at run time by a control plane. This directory holds
specifications of its parts, model-checking configurations for TLC, and proofs for TLAPS. Paths below are
relative to `src/src/aiproxyguard/`.

## The system

One asyncio event loop runs everything but the scans, which run in a thread pool. So the hard behaviour is
what happens between two awaits of one coroutine, and between the loop and the scan threads.

| Component | State | Operations | Interacts with | What must hold |
|---|---|---|---|---|
| Request pipeline `pipeline.py` | `PipelineRequest`, locals of `_forward` | `process` and the steps it calls | scanner, policy, cache, provider, telemetry; reads the live configuration at every step | only scanned bytes are forwarded, only scanned responses are served; retries end |
| Routing `routing.py`, `complexity.py` | retry plan | `select_route`, `select_downgrade`, `rewrite_model` | pipeline | header and telemetry name the model that served |
| Cost optimization `cost_optimization.py` | none | cache-control mutator | pipeline, live configuration | the mutated body is the scanned one |
| Response cache `cache.py` | Redis entries, `_broken` | `compute_key`, `get`, `set` | pipeline, background store tasks | an answer is only served for its own request; never past the response scanner |
| Runtime configuration `server.py`, `config.py` | the live `Config` | one handler per pushed section | control-plane client writes, pipeline reads | a bad section changes nothing |
| Telemetry `control_plane.py` | `_telemetry_buffer`, `_flushing` | report, buffer, flush, chunked send, requeue | pipeline's background tasks, heartbeat loop, `stop()` | no event doubled, vanished or unaccounted; bounded; settled in the end |
| Control-plane client `control_plane.py` | registration, auth state, recorded policy | start, register, heartbeat, policy fetch, stop | server, policy engine, section handlers | the active policy ends up in force; a refused key silences the client |
| Policy engine `policy.py` | rules, allowlist index | `resolve`, `update_config` | pipeline, control-plane client | an update is whole or absent |
| Signature sync `control_plane.py`, `signatures/` | verifier chain, recorded version, bundle set | manifest, bundles, licenses, cache fallback | heartbeat loop, scanner, disk | the scanner ends up with the current bundles of the tier; never loses protection |
| Bundle disk cache `signatures/cache.py` | bundle, license and metadata file of each bundle | save, load, list, clear, clear expired | signature sync; survives crashes | what is saved can be used without the control plane |
| Scanner `scanner/pipeline.py` | settings, stages, active model and its tier rank | scan, reload, load model, settings | scan threads, sync, push handlers, `/check` | an undisturbed call finds everything due; the highest entitled model wins |
| Regex engines `scanner/regex.py` | compiled patterns or database, scratch spaces | scan (pool threads), reload (event loop) | scanner | a scan uses one whole signature set |
| Streamed responses `scanner/response.py` | chunk buffers | `process_chunk`, `finalize` | none: neither transport calls it yet | nothing is released before its scan; nothing is lost or reordered |
| TLS transport `tls_proxy.py`, `tls.py` | connections, certificate cache | CONNECT, plain requests, request loop | pipeline | responses match requests; no connection hangs; the cache keeps the hosts in use |
| ML classifier `scanner/ml/` | backend | load, predict | scanner | a prediction that nothing disturbs is whole and names its model |
| Licenses, bundles, loader `crypto/`, `signatures/` | none | parse, verify, decrypt, expire | signature sync | expired bundles are not active |
| Heuristics, decoder, router, identity, tokens | none | pure functions of one request | pipeline, transports | functional |
| Logging, metrics, CLI | counters | output, start-up | all | none stated |

`PROJECT.json` lists every component with its status and every hazard with its line and the properties on it.

## Modules

A module per component; `MC<Module>` gives TLC its instances, `<Module>_<run>.cfg` is one run.

| Module | Models | Composes with |
|---|---|---|
| `RequestPipeline` | pipeline, routing, mutator, response cache, push handlers | |
| `Telemetry` | buffer, flush, chunks, requeue, shutdown | implements `TelemetryDelivery` |
| `TelemetryDelivery` | what telemetry promises of each event | abstract |
| `ControlPlane` | registration, heartbeat, policy sync, `update_config` | |
| `BundleCache` | what the disk holds of a bundle and what the cache functions do to it (operators) | |
| `SignatureSync` | restarts, manifest, bundles, licenses, verifier, cache fallback, model choice | extends `BundleCache` |
| `ResponseStream` | one streamed response in the three modes, reloads, toggles | |
| `ListEngine` | `Re2Scanner`, `PythonReScanner`: reload against scans | |
| `HyperscanEngine` | `HyperscanScanner`: lock, snapshot, scratch spaces | |
| `RegexScanner` | the engine chosen behind one `scan` and one `reload` | instantiates `ListEngine` and `HyperscanEngine` |
| `ScannerPipeline` | scan stages, classifier, model loading, settings, `PolicyEngine.resolve`, `/check` | extends `RegexScanner` |
| `TlsProxy` | connections of the TLS transport and the certificate cache | |
| `Selection` | `[e for e in s if e in K]`, in a form that can be reasoned about (operators) | used by `Telemetry`, `ListEngine`, `ScannerPipeline`, `TlsProxy` |
| `SequenceLemmas` | facts about selections, about taking an element out of a sequence, and least elements | extends `Selection` |
| `RequestPipelineProofs`, `TelemetryProofs`, `ControlPlaneProofs`, `SignatureSyncProofs`, `ResponseStreamProofs`, `ScannerPipelineProofs`, `TlsProxyProofs` | theorems (below) | each extends the module it is named after |

An operator `FaultyX` is a slip that a change of the definition `X` after it could make: a dropped guard, a
missing reset, a swapped order. No specification uses one. For each property of a passing run,
`PROJECT.json` names one that violates the property when it takes the place of `X` ("mutants"), which shows
that the property depends on the code.

### RequestPipeline

Each request is a record: its `pc` is the await it is at (`scan`, `rescan`, `lookup`, `upstream`,
`scanHit`, `scanResp`), `body` the bytes last sent or about to be, `text` the bytes being scanned, `order`
and `tried` the retry plan, `header`, `target` and `mode` the provenance fields of `PipelineRequest`,
`key` the cache key. A step runs from one await to the next and reads `cfg`, the live configuration, where
the code reads `self._config`, `self._scanner` or `self._policy`. `Scan`, `Clear`, `Forward`, `Send`,
`ScanResponse` and `Answer` are the stretches of code between awaits, so an action such as `Retry` contains
the whole of `_next_routing_attempt`, the rescan's gate and, when the scan is off, the next send.
Background stores (`stores`), Redis (`cache`, `broken`), expiries and configuration pushes interleave.

Bodies are triples of prompt, model and cache marker. Which prompts are empty, not JSON, capable of the
cheap pool, simple, or cacheable are sets given as constants: they stand for `capability_ok`,
`score_text` and `is_cacheable`. Provider and path are part of the prompt. The cache infrastructure is
taken to be enabled (`response_cache` is the opt-in). An answer names the body it answers (`to`); that
field, `cleared`, `forwarded`, `vetted`, `usage` and `relaxed` are history for the properties.

### Telemetry

`buffer` and `flushing` are the fields of the client, `flights` the locals of every `_flush_telemetry` that is
running: a set, so that a second flush, were it let past the guard, would run beside the first. `SingleFlight`
says that none is. Critical sections and the `finally` block have no await and are parts of a step; the awaits
are the POSTs, answered by `Acknowledged`, `Rejected` (a permanent 4xx) or `Fails` (408, 429, 5xx, network).
`StopCancels`, `StopFlushes` and `Exits` are `stop()` and the end of the loop: only the heartbeat's flush is
cancelled. The constants 50, 100 and 10 000 of the code are parameters. Reports from before registration,
which the code ignores, are not events. `TelemetryDelivery` says of each event: new, pending, then
acknowledged or lost, for good. `Telemetry` implements it, `status` being read off where the event is.

### ControlPlane and SignatureSync

The client is one coroutine; `pc` names its await. `ControlPlane` leaves signature sync out because its
errors never leave `_fetch_and_apply_signatures`; `SignatureSync` leaves policy out for the same reason.
A policy is a number in order of creation and stands for a pair of `policy_id` and `config_version`;
`live` tells for each part of the configuration the policy its value is from. `Malformed` are the parts a
handler rejects; rejected rules leave the index alone, too, since `update_config` raises before it gets
there. `Unanswered` and `HeartbeatUnanswered` also stand for error statuses other than 401 and 403. A policy
fetch fails in two ways: with an HTTP error, or a reply without a config object, it returns and the policy is
recorded as applied (`PolicyFetchFails`); a reply that is no JSON (`control_plane.py:648`) is an error that
only the loop catches (498-500), so nothing is recorded and the next heartbeat tries again
(`PolicyFetchRaises`).

In `SignatureSync` tier *n* is entitled to the bundles 1 .. *n*, all published with the version of the
publication; the signatures the proxy boots with have version 0, and versions are compared as numbers (the
code compares strings; they agree as long as version strings sort in publication order). The control plane
serves a bundle in the version its manifest names. `disk` gives for each bundle the versions of its two files,
whether the license carries the key and whether it is valid; a version has a key of its own, so a bundle with
another version's license is of no use. `Saved`, `Torn`, `Loads`, `Usable`, `Swept` of `BundleCache` are the
functions of `signatures/cache.py` on that. A crash (`Crash`) keeps `disk` only; a crash within a save is
`SaveFails`, which leaves any prefix of its writes, and then `Crash`.

What may go wrong with the contents is part of the model, too. A bundle whose archive, JSON or response cannot
be read ends the pass in the last `except` (`control_plane.py:1030`; `BundleAborts`), an empty or unreadable
manifest ends it before it begins (`ManifestUseless`), and, with `"defect"` among `Mishaps`, any model may
fail to load and any set of signatures fail to be parsed or applied in a step that counts as a mishap, with a
failure or by itself (`Defects`; the last disjuncts of `LoadModel` and `Finish`, `LoadFromCache(TRUE)`). A
model that fails to load leaves none (`scanner/ml/classifier.py:264-268`, 311-315), or the one of before if
only its libraries are missing; the rank stays either way. `misloaded` are the tiers whose model failed when
it was last to be loaded; `skewed` says that a pass ended in an error after it had come to a model, so that
models and signatures may be of different passes. Two things are assumed: an encrypted bundle that decrypts
and passes its hash can be extracted, and applied signatures are not empty. An error of the cache while
`start()` loads from it would end the process, which is as it was.

`Registers` and `RegistrationFails` are `start()` as far as it decides whether to load from the cache.
Licenses expire on disk between passes.

### ResponseStream

`SSEResponseHandler` and `scan_streaming_response` for one response. A chunk is a position in the stream
with the content of its data lines, a sequence of letters; `text`, `released` and `held` are the handler's
buffer, `_initial_scan_done` and the generator's `collected_chunks`. The scanner of a running stream is
reached by reloads and by switching off, which changes the configuration object it shares, as long as it is
the pipeline's (`attached`). Neither transport calls the handler at this commit; its callers here are its
tests.

### ListEngine and HyperscanEngine

Steps are the reads and writes of shared state that other threads can interleave with under the GIL.
`ListEngine` models lists as objects: `reload()` binds a new empty list twice and fills it in place, a scan
keeps the object it found. `HyperscanEngine` has the lock (`loop # "idle"`), the snapshot of `scan()`, the
three reads of `self._db` in `_get_scratch` outside the lock, and the thread-local scratch spaces. `addr`
gives the address of each database, which is what `id()` returns: a new database gets any address that no
database still held by the scanner, a scan or, if `ScratchPins`, a scratch space has (`Held`, `Free`).
`recycled` are the threads whose remembered `db_id` has been given to a database made later; allocating anew
takes a thread out. What Hyperscan does with an uncompiled database or a foreign scratch space is a choice
over the outcomes the code handles, and an error it may not handle.

### RegexScanner and ScannerPipeline

`RegexScanner` holds the variables of both engines and lets only the one chosen at start-up move.
`ScannerPipeline` puts it under `scan()`. A thread's call goes through the stages of `pc`; `best` is the
code's best match, `left` the predictions and `found` the matches of the classifier still to be looked at.
Each access of `predict()` to `self._backend` is a step, since the event loop may put another backend there
or none. A finding carries the set or the model it is attributed to (`source`). Numbers between 0 and 1 are
percentages. What signatures, heuristics and models say of a text is data of the request.

The event loop runs sync passes (`PassBegins` is `reset_active_ml_tier`, `LoadsModel` is
`load_ml_from_bytes` with its three ends, then the reload and `cache_signatures`), pushes, calls and answers;
between `ReloadStarts` and `ReloadEnds` it is `Busy`, while threads go on. `/check` takes `app["signatures"]`
when it is called. The policy at an answer is any of `Policies`: `ControlPlane` models how it changes.
Timeouts of scans are in `RequestPipeline`; here a call takes as long as it takes.

### TlsProxy

A connection's `pc` is the await it is at: `hello`, `handshake`, `line`, `headers`, `body`, `process`, and for
`writer.drain()` (248, 431, 492, 517) `established`, after the "200 Connection Established" of a CONNECT to
`host`, or `drain`. A client may stop reading while a write waits, and go on (`Stalls`); `drain()` has no
timeout, so the write then waits with it (`Unread`). `Drains` is what comes after it: the certificate, whose
generation may fail for any reason, the next request, or the end of the connection. Its `line`, `headers` and
`body` are the numbers of the requests these parts came from, and an answer carries them. The inbox holds
units rather than bytes; a body that is met where a request line is expected closes the connection or passes
for a line: the body of a request that was too large, and a chunked one, since only `content-length` is looked
at (347; its size line has fewer than three words and normally closes the connection). Closing a plain
connection waits for what is unwritten (`wait_closed`), as `drain` does here; closing one with TLS is bounded
by asyncio's shutdown timeout. After a failed handshake there is nothing unwritten but a few hundred bytes,
which are taken to fit the socket's buffer. The result of the pipeline is a response or an exception. A client
may pipeline, stop or leave anywhere, and after announcing a large body either wait for the answer or send it.
`cache` is the `OrderedDict` as the sequence of its keys.

## Runs

"holds" and "violated" are the outcome TLC must find.

| Run | Properties | Outcome | Shows |
|---|---|---|---|
| `pipeline_routing` | `TypeOK`, `ForwardedBytesWereScanned`, `ProvenanceTruthful`, `EachModelTriedOnce` | holds | routing and retries under pushes |
| `pipeline_hits` | `PipelineInv`, `ServedResponsesWereScanned`, `ProvenanceTruthful`, `AnswersMatchTheirRequests`, `EveryRequestAnswered` | holds | hits and racing stores under pushes; the invariant of the proofs; every request is answered |
| `pipeline_pii` | `SensitivePolicyStopsCaching` | violated | a store after PII detection was pushed |
| `telemetry_buffer` | `TypeOK`, `SingleFlight`, `EveryEventInOnePlace`, `BufferCapped`, `PerKindOrder`, `ImplementsDelivery`, `EventuallySettled` | holds | the buffer under outages and shutdown; refinement of `TelemetryDelivery`; settlement below the threshold |
| `policy_sync` | `TypeOK`, `PolicyConvergesUnlessMissed`, `SilentAfterRefusal`, `KeepsBeating` | holds | refusals, outages, fetches that fail either way, rejected parts, changes at every await |
| `policy_lost` | `PolicyConverges` | violated | one failed fetch is never repeated |
| `signatures_sync` | `TypeOK`, `ModelMatchesSignatures`, `SignaturesConvergeUnlessDisturbed`, `CacheConvergesUnlessLost`, `NeverUnprotected` | holds | publications, a tier change, failures, defective models and signatures, torn saves, crashes, expiries |
| `signatures_refresh` | `CacheConverges` | violated | licenses are never refreshed |
| `stream_modes` | `TypeOK`, `ReleasedInOrder`, `VerdictOfWhole`, `HeldUntilScanned` | holds | every short response in every mode under reloads and toggles |
| `scanner_reload` | `TypeOK`, `OneSetPerScan`, `UndisturbedScansAreWhole`, `CalmCallsAreExact`, `HighestTierRuns`, `SensitivityIsMonotone` | holds | calls over either kind of engine under reloads, model loads that may fail, and pushes |
| `tls_connections` | `TypeOK`, `AnsweredInOrder`, `RecentHostsCached`, `QuietConnectionsEnd` | holds | clients that pipeline, stop sending or reading, leave, or announce too much; the certificate cache at its limit |
| `hyperscan_scratch` | `SnapshotsAreScanned` | violated | a reload during scratch allocation |

The violated properties state what a docstring, comment or page of `docs/` says; "findings" in
`PROJECT.json` quote them. The passing run beside each says under which condition the property does hold.
The policy converges unless the last fetch failed or did not bring the policy recorded (`fetched = 0`,
`fetched # last`): the policy changed between the heartbeat and the fetch and later changed back. Signatures
converge unless a sync of the last publication was `disturbed`; so the first undisturbed publication
repairs everything. The disk cache is of use offline unless a license expired or the last save failed
(`lost`). The model is the best of the bundles in force unless it failed to load itself (`misloaded`) or a
pass ended in an error after it had come to a model and none was applied since (`skewed`). Scans are whole
unless a reload overlaps them, or a later database was given the address the thread keeps its scratch space
under (`recycled`). `ProvenanceTruthful` is `RoutedHeaderTruthful` and
`UsageReportedOnce`; the first run makes routing break it, the second the hits.

The models show more divergences from what the repository says of itself, which have no run:

- `_resolve_routing_alias` "fails closed" with a 400 (`pipeline.py:231`), but with no task configured it
  returns first (236-237) and the alias is forwarded as a model name (`ResolvesAlias` of `RequestPipeline`).
- "dropped oldest events" (`control_plane.py:1489`): a requeue puts detections first (1463-1474), so the cap
  can drop detections that are newer than usage events it keeps (`Land` of `Telemetry`).
- "Flush any remaining telemetry" in `stop()` (`control_plane.py:429`): a flush that finds another one in
  flight returns (1449-1450), so events buffered meanwhile stay behind (`StopFlushes`).
- "Failed to apply policy/detection config; keeping previous" (`control_plane.py:682`): rejected allowlists
  are found after the rules were assigned and the index emptied (`policy.py:135-140`; `EngineApplies`).
- "New detection signatures are automatically downloaded and hot-reloaded" (`docs/configuration.md:272`): a
  bundle that could not be fetched, or only in an old version, is not fetched again before the next
  publication, because the version recorded is the largest one fetched (`control_plane.py:1015-1019`;
  `BundleDone`, `Finish` of `SignatureSync`); and when the manifest cannot be fetched, the encrypted bundles on
  disk replace everything that is live (`LoadFromCache`). Hence `disturbed`.
- With chained manifests a client that misses one publication refuses every chained one after it
  (`signatures/verifier.py:129`; `ManifestRefused`); it also refuses the manifest it has verified itself,
  should it have to fetch its bundles again.
- "A tier downgrade takes effect" (`scanner/pipeline.py:206-211`): only the rank is reset, so the former
  model stays when no entitled bundle has one (`LoadModels`, `LoadModel`). Hence `ModelMatchesSignatures`
  speaks of bundles in force that have a model.
- `regex.py:136-137` says reloads are synchronized with scans; `Re2Scanner` and `PythonReScanner` have no
  lock, so a scan that begins during a reload may find no pattern (`ListEngine`). Hence
  `SettledScansAreWhole`, a part of `UndisturbedScansAreWhole`, speaks of scans that begin between reloads.
- "Create new scratch if none exists or if db was recompiled" (`regex.py:211`): what is compared is `id()`, an
  address (213, 217). When reloads come between 212 and 215, the scratch space a thread keeps under the address
  of one database is for another one and keeps that first database alive no longer, so a later database may get
  the address; scans of it that no reload overlaps then use a foreign scratch space, and may be skipped
  (`Identifies`, `Allocates` of `HyperscanEngine`). Hence `recycled`.
- `update_scanner_config` documents flags for the regex, heuristics and ML stages
  (`scanner/pipeline.py:265-268`); `scan()` looks at the scanner objects made at start-up, never at the flags
  (`StartsRegex`, `PushScanner` of `ScannerPipeline`).
- "We keep the highest tier active" (`scanner/pipeline.py:36`): a model that fails to load drops the one in
  use (`scanner/ml/classifier.py:264-268`, 311-315) while its rank stays, so an intact model of a lower tier
  that comes after it is skipped and the pass ends without a model (`LoadsModel` of `ScannerPipeline`,
  `LoadModel` of `SignatureSync`). Hence `broken` and `misloaded`.
  Models are put in bundle by bundle (`control_plane.py:904`, 951) and the signatures after all of them (1014),
  so a pass that ends in an error (1030) leaves the new models beside the signatures of before (`BundleAborts`,
  `Finish`). Hence `skewed`.
- A backend that is replaced between `predict` and the loop over its predictions (`classifier.py:157-166`)
  gets the matches attributed to it; one that is dropped loses them all (`Attributes`). The next call is
  exact again.
- `PolicyEngine.resolve` sees only the strongest finding, so one that the policy lets pass hides weaker ones
  that it would act on (`Resolve`).
- "10 MB max request body" (`docs/configuration.md:87`): a plain request through the TLS transport has no
  limit (`tls_proxy.py:460-464`; `Plain`). After a 413 the connection stays open and the body, should the
  client send it, is read as the next request (351-369; `ReadsLine`). Hence `spilled`.
- A connection cut off within the headers of a request has it processed with the headers that came
  (`tls_proxy.py:335-337`; `ReadsEnd`); such an answer has headers 0 in `AnsweredInOrder`.
- With `cert_cache_size: 0` every CONNECT is told "200 Connection Established" and closed, because the
  eviction raises (`tls.py:87-89`; `Drains`). A cached certificate is used past its validity
  (`tls.py:166-169`; `Certifies`).

### Bounds

- Pipeline: two models and a plan with repeated and overlapping entries, so that a plan has a first model, a
  fallback and duplicates. One request slot, since requests share only the configuration, the cache and the
  breaker: a slot takes new requests after each answer, and the stores of answered requests run in the
  background, so one slot gives histories of any length and races on a key. `AnswersMatch` is proved for any
  number of slots. `MaxPushes` is 2 for `routing` (off and on again, or two settings), 1 for `hits`.
- Telemetry: four events of both kinds, a buffer of two and a threshold of two, so that the cap is passed by
  reports and by requeues; chunks of one, so that a group has several.
- Policy: four policies, one well-formed, one per kind of rejected part; three changes. Signatures: three
  tiers, the third encrypted and so cached, the first and the third with models, both modes that keep a disk
  cache, three publications, the third of them chained, one tier change and any two steps that go wrong, so
  that a pass may lose two bundles, one and the manifest of the next, a save and then the process, or both
  models, and may end in an error before, between or after them. More of everything, and a mode that keeps
  nothing, is left to the theorems on the safety properties. `refresh` needs one expiry only.
- Streams: up to three chunks of up to two letters and a buffer of two, which the first, a later or no chunk
  fills; patterns within and across chunks; two pushes.
- Scanner: three signature sets, so two passes, one of them possibly a downgrade; one pattern that does not
  compile, one set without patterns for Hyperscan, two models of different tiers that disagree, ties between
  findings, one push. One thread, because threads only read what they share and each has its own scratch
  space; a thread is used again after each call, so it brings along what earlier calls left. Three databases
  are what a reused address takes: one whose address a torn allocation keeps, one in between, one that gets
  it. `hyperscan_scratch` needs one thread and one reload.
- Connections: three requests of every form, a cache of two certificates for three names, two of them spellings
  of one host. One slot, because connections share only the cache and an access to it has no await; a slot
  takes new clients for ever.

`MaxPushes`, `MaxSwitches`, `MaxPublished`, `MaxTierChanges`, `MaxMishaps`, `MaxVersions` and `MaxRequests`
are the bounds that are not in the code; each guards one kind of step (`MaxVersions` the reloads, with or
without a regex stage).

### Deadlock and fairness

Deadlock is checked except in `Telemetry`, where the process exits, in `SignatureSync`, where a client with
nothing to sync waits, and in `ResponseStream`, where the stream ends. Fairness is weak and only on steps the
code makes come: awaits of a request end because the scans run under `wait_for`, Redis has a socket timeout
and the provider call a total timeout; POSTs of the client have a timeout of 30 seconds; the loop sleeps a
fixed interval; the TLS handshake and the wait for a request line have timers. Of a connection's steps `Serve`
ends reads for which there is something to read; writes have no timer, so `Drains` is fair only while the
client reads or has left, and `QuietConnectionsEnd` excuses a connection whose client does neither (`Unread`).
Nothing is assumed of the clients of the proxy, nor of the server, except, as the premise of a property, that
it comes back and stays.

## Proofs

All theorems hold for every value of the constants that the assumption of the module admits: any number of
requests, models, events, tiers, chunks, rules, threads, signature sets, connections, names and pushes, while
TLC checks the same formulas on the small instances above. `ControlPlaneProofs!Recorded` and some invariants
are not properties of a run; they are stated in the proof modules.

| Module | Theorem | Proves |
|---|---|---|
| `RequestPipelineProofs` | `Invariance` | `PipelineInv` |
| | `TypeCorrect` | `TypeOK` |
| | `ForwardsAreScanned` | `ForwardedBytesWereScanned` |
| | `ServedAreScanned` | `ServedResponsesWereScanned` |
| | `AnswersMatch` | `AnswersMatchTheirRequests` |
| | `RetriesEnd` | `EachModelTriedOnce` |
| | `ProvenanceHolds` | `ProvenanceTruthful` |
| `TelemetryProofs` | `Invariance` | `TelemetryInv` |
| | `TypeCorrect`, `OneFlight`, `Capping` | `TypeOK`, `SingleFlight`, `BufferCapped` |
| | `OnePlace` | `EveryEventInOnePlace` |
| | `Ordering` | `PerKindOrder` |
| | `Refinement` | `ImplementsDelivery` |
| `ControlPlaneProofs` | `Invariance`, `TypeCorrect` | `ClientInv`, `TypeOK` |
| | `Recorded` | `RecordedInForce` |
| | `Silent` | `SilentAfterRefusal` |
| `SignatureSyncProofs` | `Invariance`, `TypeCorrect` | `SyncInv`, `TypeOK` |
| | `HighestTierWins` | `ModelMatchesSignatures` |
| | `Protection` | `NeverUnprotected` |
| `ResponseStreamProofs` | `Invariance`, `TypeCorrect` | `StreamInv`, `TypeOK` |
| | `InOrder`, `Held` | `ReleasedInOrder`, `HeldUntilScanned` |
| | `Verdict` | `VerdictOfWhole` |
| `ScannerPipelineProofs` | `Invariance`, `TypeCorrect` | `ScannerInv`, `TypeOK` |
| | `OneSet`, `Undisturbable` | `OneSetPerScan`, `UndisturbedScansAreWhole` |
| | `HighestTier` | `HighestTierRuns` |
| | `CalmExact` | `CalmCallsAreExact` |
| | `Monotone` | `SensitivityIsMonotone` |
| `TlsProxyProofs` | `Invariance`, `TypeCorrect` | `TlsInv`, `TypeOK` |
| | `Caching`, `Ordering` | `RecentHostsCached`, `AnsweredInOrder` |

### RequestPipelineProofs

The assumptions are those of `RequestPipeline`: the constants have their types, empty bodies are opaque,
opaque ones are neither cacheable nor marked, and `None` is no value of the other kinds.

None of the properties is inductive. A forward is covered because the request at `upstream` sent what
`Clear` let go, and a lookup sends what was cleared before it; so the invariant says at each await what the
code after it takes for granted (`Prepared`): there are bytes to scan, a lookup is for the body at hand and
that body is covered, the bytes on the wire are the body, the response being scanned answers it. A hit
answers its request because every entry, stored or scheduled, answers its own key (`CacheHoldsOwnAnswers`),
which holds because the key of a store is recomputed from the bytes sent last. Served responses need the
protections that are off now to be recorded (`Relaxations(cfg) \subseteq relaxed`).

`Traced` says the same for routing. The header, the usage target and the plan agree with the bytes at hand
(`Routed`); what was forwarded is tried (`SentOnce`), and what is about to be sent has not been sent
(`Unsent`); usage is what the point of the request says (`Counted`). With a plan `tried` holds every model
sent to, so a retry, which takes a model that is not tried, is the first for its model.

The proof follows the calls. `Settled(r)` says that a step ends request `r` at an await with a request and
a history that satisfy `RequestInv`. One lemma each shows this for `Send`, `Forward`, `Clear`, `Scan`,
`Answer` and `ScanResponse`, from what their callers establish; then one per group of handlers;
`SettledKeepsInv` lifts it to all requests, `EnvironmentKeepsInv` covers stores, expiries and pushes.

### TelemetryProofs

The flag is set exactly while a flush runs, and then there is one (`SingleFlight`): `TakeOff` is reached only
with the flag down, and no other step adds a flight. So the set of flights has at most one element, and
`Line` is everything unsettled in the order in which it will be sent: the group being sent, the group after
it, the buffer. `Books(Line, ...)` relates it to the histories: its events are distinct; with the acknowledged
and the lost ones they are the accepted ones; events of a kind stand in the order in which they were accepted,
and none is acknowledged before an earlier one that still waits. Each step takes
a part out of the line (`Thins`, which keeps the order within a kind, and is transitive) or puts an event at
its end; what the three answers do to a flush is proved once (`Acknowledges`, `GivesUp`, `Accepts`) and used
by every action that meets them. Since a requeue puts detections before usage events, order is a matter of
kinds and not of the whole line.

`Refinement` shows that the initial state maps to the initial state, and that every step makes new events
pending, pending ones acknowledged or lost, or changes no event: the books say where an event is before and
after a step, and no event ever goes back.

### ControlPlaneProofs

A client that knows its key refused waits for no answer (`authFailed => pc \notin Requests`), so it is on its
way to the end of the loop, sending nothing. `RecordedInForce` is the safety part of
`PolicyConvergesUnlessMissed`: if the last fetch brought the policy recorded as applied, each of its parts
that nothing rejects is in force. TLC shows that a server that stays up gets recorded.

### SignatureSyncProofs

While bundles are fetched, the rank and the model are the best of the models fetched in this pass, or the best
of them failed to load (`Chosen`); until there is one the model goes with the signatures in force (`PassInv`).
Between passes it is the best model of the live bundles, unless that one failed to load or models and
signatures are of different passes (`InForce`). An error in a pass sets `skewed` only when the pass has come
to a model: before that `InForce` still holds, and after it only a pass that is applied restores it. The proof
needs that finite nonempty sets of tiers have a maximum (`MaxOfBounded`), that the tiers are 1 .. n, and that
something has been published.

### ResponseStreamProofs

`StreamInv` accounts for every chunk taken: it is released or held, in order, and none is released that has
still to be scanned (`Ordered`); the text collected is the content of the first chunks, and of all of them
until it is scanned (`Collected`); alerts are at most one, or one for each scanned chunk (`Counted`). The
content of a response is `FlattenSeq` of its chunks' letters, so lemmas show what it does to one more chunk, that
it is monotone, and that a pattern that occurs in a beginning occurs in the whole.
`VerdictOfWhole` has an invariant of its own (`Judging`): as long as the scanner was not touched, a buffer that
is not released has not been full after any chunk, what was released was scanned where the whole would be
judged and blocked by no rule, and the alerts are those of that scan, or of the chunks scanned in passing.

### ScannerPipelineProofs

One invariant for the scanner and either engine.

- List engines (`ListInv`): every list holds valid patterns of one set, in order; the bound one is the whole
  set, or as far as the reload is (`Built`); what a scan has applied is the beginning of its list, and a list
  that was in force when the scan began stays whole, because no reload works on it.
- Hyperscan (`HyperInv`): a snapshot is of one database and its map; a thread whose remembered address is
  that of the database in force has a scratch space for it, unless the address was given away after the thread
  remembered it (`Owned`); so a scan that no reload overlaps has both for the database in force and finds every
  pattern, short of `recycled`.
- Models (`Tiered`): the active tier is the highest a pass has come to, and, if nothing failed, that of the
  model.
- Calls (`Steadily`): at each point of its scan an undisturbed call has the best of what it has seen, and
  what is left to see is the rest of what is due (`OnCourse`); in a `recycled` thread the matches of the whole
  set may be due or none of them. `BestOf` folds `Best` over the findings of a
  stage; `BestOfAll` shows that the result is a strongest one, since `>` on (action, confidence) keeps the
  first of equals. When a call is answered, all that was due has been seen.

`Monotone` is a fact about `Resolve` and `Threshold` for any two policies, with the clamp at 0 and 1.

### TlsProxyProofs

The units of a connection that were not read, with the one its client sends next, form a chain (`Chained`,
`Leads`): a line leads to its headers, headers to a body or to the next line. The connection expects the first
unit of the chain (`Expects`), so each read takes the part of the request the others came from. A connection
has left the framing (`spilled`), is closed, or about to be, with its answers in order (`Ended`), is in step,
or was cut off within the headers of its last request (`CutOff`). The cache is the end of the list of names by
last use (`CacheInv`): taking a name out of both and putting it last keeps that, and so does the eviction.

### What the proofs rest on

- The assumptions of the modules, which TLC evaluates in every run: types and sizes of the constants, and
  `None` being no other value. Those that say more are about the code: a rejected rule set leaves the allowlist
  index alone (`ControlPlane`), a pattern is not empty (`ResponseStream`), heuristics and predictions have
  confidences between 0 and 1 (`ScannerPipeline`).
- The bounds (`MaxPushes`, `MaxMishaps`, ...) are constants like the others, so the theorems hold for any bound.
- Recursive functions need induction over data, and the library's induction theorems take an operator as
  a parameter, which the provers cannot instantiate. The lemmas on selections, `FlattenSeq` and `BestOf` argue
  with a smallest counterexample instead: `LeastPosition` takes it from the well-foundedness of the naturals.
  That such a function exists is proved the same way, with one more value than the function one has.
  `SelectSeq` and the folds of the library stay opaque to the provers, hence `Selection` and `BestOf`.

### Only model-checked

Liveness under fairness needs `ENABLED`, which the prover does not handle: `EveryRequestAnswered`,
`EventuallySettled`, `PolicyConvergesUnlessMissed`, `KeepsBeating`, `SignaturesConvergeUnlessDisturbed`,
`CacheConvergesUnlessLost` and `QuietConnectionsEnd`. All invariants and action properties of the passing runs
are proved.

## Not modelled

- Licenses that expire while a pass is under way, and `get_cache_stats`.
- The aiohttp session of the TLS transport and its shutdown (a request between `stop()` and the end of the
  process opens a session that nobody closes, 125-128); building certificates.
- `reload_ml_model`, `MLClassifier.reload` and `health_check`, `TLSContextFactory`: nothing in the program
  calls them.
- Scans that time out and go on in their thread: they only read, and take a thread of the pool with them.
- Text processing (heuristics, decoder, extraction), cryptography, parsing, inference, wording, logging and
  metrics: data the properties do not tell apart.

## Plan

1. Done: `RequestPipeline` with its proofs, `Telemetry` and `TelemetryDelivery`, `ControlPlane`,
   `BundleCache` and `SignatureSync`, `ListEngine`, `HyperscanEngine`, `RegexScanner` and `ScannerPipeline`,
   `ResponseStream`, `TlsProxy`.
2. Possible extensions: shutdown of the TLS transport, the remaining HTTP handlers.
3. Done: every invariant and action property of a passing run and the refinement of `TelemetryDelivery` as a
   theorem.
4. Next theorems: the safety part of the remaining convergence properties, as `Recorded` is that of
   `PolicyConvergesUnlessMissed`: signatures recorded as current are those of the tier unless `disturbed`, and
   what was saved last can be loaded unless `lost`; that the snapshot a Hyperscan scan takes is of one set also
   when its scratch space is not; that every retry plan runs out (a bound on the models left).
