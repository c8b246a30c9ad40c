-------------------------- MODULE RequestPipeline --------------------------
(***************************************************************************)
(* The shared request pipeline of the proxy (RequestPipeline.process in    *)
(* src/src/aiproxyguard/pipeline.py), with the parts it calls: task-alias  *)
(* routing and downgrades (routing.py), the prompt-cache mutator           *)
(* (cost_optimization.py), the exact-match response cache (cache.py) and   *)
(* the handlers through which the control plane changes the live           *)
(* configuration while requests are in flight (server.py).                 *)
(*                                                                         *)
(* Every request is an asyncio task.  A step runs from one await to the    *)
(* next, so the live configuration can change between any two steps of a   *)
(* request, and is read when the code reads it.  What the scanner, the     *)
(* provider and Redis answer is chosen nondeterministically.               *)
(*                                                                         *)
(* An operator named Faulty... is a slip a change of the code could make;  *)
(* nothing here uses it.  Put in the place of the definition after it, it  *)
(* violates a property below (README.md), so the property is not idle.     *)
(***************************************************************************)
EXTENDS Integers, Sequences

CONSTANTS
  Requests,        \* slots for requests in flight
  Models,          \* concrete model names
  Tasks,           \* "router:<task>" aliases a client may put in the model field
  Prompts,         \* everything of a request but its model and its cache marker
  Empty,           \* prompts of requests without a body
  Opaque,          \* prompts whose bytes are not a JSON object (Empty included)
  Capable,         \* prompts any pool member can serve (capability_ok)
  Simple,          \* prompts the complexity scorer marks downgrade_eligible
  Cacheable,       \* prompts is_cacheable accepts
  SystemPrompts,   \* Anthropic messages with a top-level system string
  Inputs,          \* bodies the clients send
  RoutingConfigs,  \* values the routing section may be given
  Pushable,        \* boolean settings the control plane may push
  InitialConfigs,  \* configurations the proxy may boot with
  MaxPushes,       \* bound: configuration pushes in a behaviour
  None             \* no model, no body, no cache entry

Flags == {"scan", "closed", "respScan", "optIn", "pii", "promptCache"}

Route == [pool : Seq(Models), fallback : Seq(Models)]

\* None: the task is not configured, no downgrade pair names the model.
Routing == [tasks      : [Tasks -> Route \cup {None}],
            downgrades : [Models -> Models \cup {None}],
            dryRun     : BOOLEAN]

\* scan: request scanning is on; closed: failure_mode is "closed"; respScan: a
\* response scanner is installed; optIn: response_cache; pii: the policy has a
\* pii or phi category; promptCache: anthropic_prompt_cache.
Config == [scan : BOOLEAN, closed : BOOLEAN, respScan : BOOLEAN, optIn : BOOLEAN,
           pii : BOOLEAN, promptCache : BOOLEAN, routing : Routing]

\* The bytes of a request.  The model of an opaque body has no meaning.
Body == [prompt : Prompts, model : Models \cup Tasks, marked : BOOLEAN]

\* A provider's answer: the bytes it answers, its status class, and whether it
\* is non-empty UTF-8 text.
Response == [to : Body, status : {"2xx", "4xx", "5xx"}, text : BOOLEAN]

ASSUME BodyAssumption ==
  /\ Empty \subseteq Opaque
  /\ Opaque \subseteq Prompts
  /\ Cacheable \cap Opaque = {}
  /\ SystemPrompts \cap Opaque = {}
  /\ Inputs \subseteq Body

ASSUME ConfigAssumption ==
  /\ RoutingConfigs \subseteq Routing
  /\ InitialConfigs \subseteq Config
  /\ Pushable \subseteq Flags
  /\ MaxPushes \in Nat

ASSUME NoneAssumption ==
  /\ None \notin Models \cup Tasks
  /\ None \notin Body
  /\ None \notin Response
  /\ None \notin Route

VARIABLES
  cfg,      \* the live configuration
  req,      \* each request: its PipelineRequest and the locals of its coroutine
  cache,    \* Redis: response stored under each request body, or None
  broken,   \* ResponseCache._broken
  stores,   \* background _cache_store tasks not yet run
  pushes,   \* how many pushes have been applied
  relaxed,  \* history: which protections have ever been switched off
  hist      \* history of each request, for the properties only

vars == <<cfg, req, cache, broken, stores, pushes, relaxed, hist>>

Waiting == {"scan", "rescan", "lookup", "upstream", "scanHit", "scanResp"}

Results == {"none", "rejected", "blocked", "unavailable", "served", "hit",
            "response_blocked", "too_large", "upstream_error", "escaped"}

Idle == [pc |-> "idle", body |-> None, text |-> None, order |-> <<>>,
         tried |-> {}, header |-> None, target |-> None, mode |-> "none",
         key |-> None, resp |-> None, result |-> "none"]

\* cleared, vetted: what the scanners let go, and why; forwarded: the bytes sent
\* to the provider; wire: those sent last; resent: a model was sent twice.
NoHistory == [cleared |-> {}, forwarded |-> {}, wire |-> None, resent |-> FALSE,
              vetted |-> {}, usage |-> <<>>]

Relaxations(c) ==
  {w \in {"scan_off", "fail_open", "response_scan_off"} :
     \/ w = "scan_off" /\ ~c.scan
     \/ w = "fail_open" /\ ~c.closed
     \/ w = "response_scan_off" /\ ~c.respScan}

Init ==
  /\ cfg \in InitialConfigs
  /\ req = [r \in Requests |-> Idle]
  /\ cache = [b \in Body |-> None]
  /\ broken = FALSE
  /\ stores = {}
  /\ pushes = 0
  /\ relaxed = Relaxations(cfg)
  /\ hist = [r \in Requests |-> NoHistory]

----------------------------------------------------------------------------
(* The steps of a coroutine between two awaits.  q is the state of the     *)
(* request and h its history when the step is taken.                       *)

Await(r, q, h) ==
  /\ req' = [req EXCEPT ![r] = q]
  /\ hist' = [hist EXCEPT ![r] = h]

End(r, q, h, result) == Await(r, [q EXCEPT !.pc = "done", !.result = result], h)

\* session.request(data=attempt_body).
Send(r, q, h) ==
  Await(r, [q EXCEPT !.pc = "upstream"],
           [h EXCEPT !.forwarded = @ \cup {q.body}, !.wire = q.body,
                     !.resent = @ \/ \E b \in h.forwarded : b.model = q.body.model])

\* The whole body, its path and provider included, is the key.
ComputeKey(b) == IF b.prompt \in Cacheable THEN b ELSE None

\* Opt-in and policy are read after the request scan.
CacheKey(b) == IF cfg.optIn /\ ~cfg.pii THEN ComputeKey(b) ELSE None

\* _forward up to its first await.  A broken cache answers "miss" at once.
Forward(r, q, h) ==
  LET keyed == [q EXCEPT !.key = CacheKey(q.body)]
  IN IF keyed.key # None /\ ~broken
     THEN Await(r, [keyed EXCEPT !.pc = "lookup"], h)
     ELSE Send(r, keyed, h)

\* _scan_request lets q.text go; why tells on what grounds.
Clear(r, q, h, why) ==
  LET known == [h EXCEPT !.cleared = @ \cup {[body |-> q.text, why |-> why]}]
      next  == [q EXCEPT !.body = q.text]
  IN IF q.pc = "rescan" THEN Send(r, next, known) ELSE Forward(r, next, known)

\* _scan_request up to its await; q.pc tells who called it.
Scan(r, q, h) ==
  IF cfg.scan /\ q.text.prompt \notin Empty
  THEN Await(r, q, h)
  ELSE Clear(r, q, h, IF cfg.scan THEN "empty" ELSE "scan_off")

\* RoutingDecision keeps the de-duplicated candidates; walking the candidates
\* and skipping the tried ones visits the same models in the same order.
FaultyRemaining(q) == {i \in DOMAIN q.order : i > 1 \/ q.tried = {}}
Remaining(q) == {i \in DOMAIN q.order : q.order[i] \notin q.tried}
NextModel(q) == q.order[CHOOSE i \in Remaining(q) : \A j \in Remaining(q) : i <= j]

FaultyReroute(q, b, m) ==
  [q EXCEPT !.text = [b EXCEPT !.model = m], !.tried = @ \cup {m},
            !.header = IF @ = None THEN m ELSE @]

\* Rewrite the model of bytes b to m and remember that m is what is served.
Reroute(q, b, m) ==
  [q EXCEPT !.text = [b EXCEPT !.model = m], !.tried = @ \cup {m}, !.header = m]

\* The cache-control mutator, gated on the live setting.
Marked(b) == [b EXCEPT !.marked = @ \/ (cfg.promptCache /\ b.prompt \in SystemPrompts)]

\* _apply_mutations, then the first scan.
Admit(r, q) == Scan(r, [q EXCEPT !.pc = "scan", !.text = Marked(@)], NoHistory)

----------------------------------------------------------------------------
(* Arrival: alias resolution, downgrade, mutation, start of the scan.      *)

IsAlias(b) == b.prompt \notin Opaque /\ b.model \in Tasks

\* With no task configured the alias step is skipped altogether.
ResolvesAlias(b) == IsAlias(b) /\ \E t \in Tasks : cfg.routing.tasks[t] # None

\* select_route: what the task offers to this request.
Candidates(b) ==
  LET task == cfg.routing.tasks[b.model]
  IN IF b.prompt \in Capable THEN task.pool \o task.fallback ELSE task.fallback

HasRoute(b) == cfg.routing.tasks[b.model] # None /\ Candidates(b) # <<>>

FaultyDowngradable(b) ==
  b.prompt \in (Capable \cap Simple) \ Opaque /\ b.model \in Models

\* _maybe_downgrade goes past its early returns, with a matching pair.
Downgradable(b) ==
  /\ b.prompt \in (Capable \cap Simple) \ Opaque
  /\ b.model \in Models
  /\ cfg.routing.downgrades[b.model] # None

\* A slot is free before its first request and after each answer.
Arrive(r) == req[r].pc \in {"idle", "done"}

Untouched == UNCHANGED <<cfg, cache, broken, stores, pushes, relaxed>>

\* An unknown task or an empty pool: 400.
ArriveRejected(r, b) ==
  /\ Arrive(r)
  /\ ResolvesAlias(b) /\ ~HasRoute(b)
  /\ End(r, Idle, NoHistory, "rejected")
  /\ Untouched

ArriveAliased(r, b) ==
  /\ Arrive(r)
  /\ ResolvesAlias(b) /\ HasRoute(b)
  /\ LET q == [Idle EXCEPT !.order = Candidates(b)]
         m == NextModel(q)
     IN Admit(r, [Reroute(q, b, m) EXCEPT !.target = m, !.mode = "applied"])
  /\ Untouched

ArriveDowngraded(r, b) ==
  /\ Arrive(r)
  /\ Downgradable(b)
  /\ LET m == cfg.routing.downgrades[b.model]
     IN IF cfg.routing.dryRun
        THEN Admit(r, [Idle EXCEPT !.text = b, !.target = m, !.mode = "dry_run"])
        ELSE Admit(r, [Reroute(Idle, b, m) EXCEPT !.target = m, !.mode = "applied"])
  /\ Untouched

ArrivePlain(r, b) ==
  /\ Arrive(r)
  /\ ~ResolvesAlias(b) /\ ~Downgradable(b)
  /\ Admit(r, [Idle EXCEPT !.text = b])
  /\ Untouched

----------------------------------------------------------------------------
(* The request scan and rescan.  Policy and failure mode are those in force *)
(* when the scanner answers or the timeout fires.                          *)

ScanPasses(r) ==
  /\ req[r].pc \in {"scan", "rescan"}
  /\ Clear(r, req[r], hist[r], "passed")
  /\ Untouched

ScanBlocks(r) ==
  /\ req[r].pc \in {"scan", "rescan"}
  /\ End(r, req[r], hist[r], "blocked")
  /\ Untouched

\* wait_for times out, or the scanner or the policy raises.
ScanFails(r) ==
  /\ req[r].pc \in {"scan", "rescan"}
  /\ IF cfg.closed
     THEN End(r, req[r], hist[r], "unavailable")
     ELSE Clear(r, req[r], hist[r], "fail_open")
  /\ Untouched

----------------------------------------------------------------------------
(* The response: scan, usage, cache, answer to the client.                 *)

Billed(q) == [kind |-> "billed", target |-> q.target, mode |-> q.mode]

\* The event of a hit says nothing of routing.
Saved == [kind |-> "saved", target |-> None, mode |-> "none"]

FaultyStoreKey(q) == q.key

\* The key is recomputed from the bytes last sent, never taken from the lookup.
StoreKey(q) == ComputeKey(q.body)

\* Everything after _scan_response let q.resp go: a hit reports the avoided
\* spend, a miss schedules the store.
Answer(r, q, h, why) ==
  LET vetted == [h EXCEPT !.vetted = {[resp |-> q.resp, why |-> why]}]
  IN IF q.pc = "scanHit"
     THEN /\ End(r, q, [vetted EXCEPT !.usage = Append(@, Saved)], "hit")
          /\ UNCHANGED stores
     ELSE /\ End(r, q, vetted, "served")
          /\ stores' = IF q.key # None /\ StoreKey(q) # None /\ q.resp.status = "2xx"
                       THEN stores \cup {[key |-> StoreKey(q), entry |-> q.resp]}
                       ELSE stores

FaultyScanResponse(r, q, h) ==
  IF cfg.respScan /\ q.resp.text /\ q.pc = "scanResp"
  THEN Await(r, q, h) /\ UNCHANGED stores
  ELSE Answer(r, q, h, IF cfg.respScan THEN "not_text" ELSE "response_scan_off")

\* _scan_response up to its await; q.pc tells who called it.
ScanResponse(r, q, h) ==
  IF cfg.respScan /\ q.resp.text
  THEN Await(r, q, h) /\ UNCHANGED stores
  ELSE Answer(r, q, h, IF cfg.respScan THEN "not_text" ELSE "response_scan_off")

UntouchedButStores == UNCHANGED <<cfg, cache, broken, pushes, relaxed>>

\* A scanner timeout or error never drops a response.
ResponseScanPasses(r) ==
  /\ req[r].pc \in {"scanHit", "scanResp"}
  /\ \E why \in {"passed", "timed_out"} : Answer(r, req[r], hist[r], why)
  /\ UntouchedButStores

ResponseScanBlocks(r) ==
  /\ req[r].pc \in {"scanHit", "scanResp"}
  /\ End(r, req[r], hist[r], "response_blocked")
  /\ Untouched

FaultyLookupHits(r) ==
  /\ req[r].pc = "lookup"
  /\ cache[req[r].key] # None
  /\ ScanResponse(r, [req[r] EXCEPT !.pc = "scanHit", !.resp = cache[req[r].key]],
                  [hist[r] EXCEPT !.usage = Append(@, Saved)])
  /\ UntouchedButStores

LookupHits(r) ==
  /\ req[r].pc = "lookup"
  /\ cache[req[r].key] # None
  /\ ScanResponse(r, [req[r] EXCEPT !.pc = "scanHit", !.resp = cache[req[r].key]], hist[r])
  /\ UntouchedButStores

LookupMisses(r) ==
  /\ req[r].pc = "lookup"
  /\ cache[req[r].key] = None
  /\ Send(r, req[r], hist[r])
  /\ Untouched

LookupFails(r) ==
  /\ req[r].pc = "lookup"
  /\ broken' = TRUE
  /\ Send(r, req[r], hist[r])
  /\ UNCHANGED <<cfg, cache, stores, pushes, relaxed>>

----------------------------------------------------------------------------
(* The upstream call and its retries.                                      *)

FaultyRetry(r) ==
  LET q == req[r]
      m == NextModel(q)
  IN Send(r, [Reroute(q, q.body, m) EXCEPT !.body = [q.body EXCEPT !.model = m]], hist[r])
     /\ Untouched

\* _next_routing_attempt: the next model of the plan, rescanned.
Retry(r) ==
  LET q == req[r]
      m == NextModel(q)
  IN /\ Scan(r, [Reroute(q, q.body, m) EXCEPT
                   !.pc = "rescan", !.target = IF @ = None THEN None ELSE m], hist[r])
     /\ Untouched

\* A connection error or a 5xx while the plan has another model.
UpstreamRetries(r) ==
  /\ req[r].pc = "upstream"
  /\ Remaining(req[r]) # {}
  /\ Retry(r)

\* The final answer.  Its usage is billed before the response is scanned.
UpstreamAnswers(r) ==
  /\ req[r].pc = "upstream"
  /\ \E status \in {"2xx", "4xx", "5xx"}, text \in BOOLEAN :
       LET q == [req[r] EXCEPT !.pc = "scanResp",
                   !.resp = [to |-> hist[r].wire, status |-> status, text |-> text]]
           billed == IF status = "2xx" THEN <<Billed(q)>> ELSE <<>>
       IN /\ status = "5xx" => Remaining(req[r]) = {}
          /\ ScanResponse(r, q, [hist[r] EXCEPT !.usage = @ \o billed])
  /\ UntouchedButStores

\* No model left after a connection error; an answer over the size limit; a
\* total timeout, which is not an aiohttp.ClientError and leaves process().
UpstreamFails(r) ==
  /\ req[r].pc = "upstream"
  /\ \/ Remaining(req[r]) = {} /\ End(r, req[r], hist[r], "upstream_error")
     \/ End(r, req[r], hist[r], "too_large")
     \/ End(r, req[r], hist[r], "escaped")
  /\ Untouched

----------------------------------------------------------------------------
(* Background stores, Redis, and pushes from the control plane.            *)

\* One step: its only await is the SET, which a broken cache never gets to.
StoreRuns(s) ==
  /\ s \in stores
  /\ stores' = stores \ {s}
  /\ \/ ~broken /\ cache' = [cache EXCEPT ![s.key] = s.entry] /\ UNCHANGED broken
     \/ broken' = TRUE /\ UNCHANGED cache
  /\ UNCHANGED <<cfg, req, pushes, relaxed, hist>>

\* The time to live of an entry ends.
Expires(b) ==
  /\ cache[b] # None
  /\ cache' = [cache EXCEPT ![b] = None]
  /\ UNCHANGED <<cfg, req, broken, stores, pushes, relaxed, hist>>

Applied(c) ==
  /\ pushes < MaxPushes
  /\ pushes' = pushes + 1
  /\ cfg' = c
  /\ relaxed' = relaxed \cup Relaxations(c)
  /\ UNCHANGED <<req, cache, broken, stores, hist>>

PushFlag(f) == Applied([cfg EXCEPT ![f] = ~@])

PushRouting(c) == c # cfg.routing /\ Applied([cfg EXCEPT !.routing = c])

----------------------------------------------------------------------------
RequestStep(r) ==
  \/ \E b \in Inputs : \/ ArriveRejected(r, b)
                       \/ ArriveAliased(r, b)
                       \/ ArriveDowngraded(r, b)
                       \/ ArrivePlain(r, b)
  \/ ScanPasses(r) \/ ScanBlocks(r) \/ ScanFails(r)
  \/ LookupHits(r) \/ LookupMisses(r) \/ LookupFails(r)
  \/ UpstreamRetries(r) \/ UpstreamAnswers(r) \/ UpstreamFails(r)
  \/ ResponseScanPasses(r) \/ ResponseScanBlocks(r)

Environment ==
  \/ \E s \in stores : StoreRuns(s)
  \/ \E b \in Body : Expires(b)
  \/ \E f \in Pushable : PushFlag(f)
  \/ \E c \in RoutingConfigs : PushRouting(c)

Next == (\E r \in Requests : RequestStep(r)) \/ Environment

Spec == Init /\ [][Next]_vars

\* Every await of a request ends: the scans run under wait_for, Redis under a
\* socket timeout, the upstream call under aiohttp's total timeout.
Progress(r) ==
  \/ ScanPasses(r) \/ ScanBlocks(r) \/ ScanFails(r)
  \/ LookupHits(r) \/ LookupMisses(r) \/ LookupFails(r)
  \/ UpstreamRetries(r) \/ UpstreamAnswers(r) \/ UpstreamFails(r)
  \/ ResponseScanPasses(r) \/ ResponseScanBlocks(r)

FairSpec == Spec /\ \A r \in Requests : WF_vars(Progress(r))
----------------------------------------------------------------------------
(* Properties.                                                             *)

\* Whose state is live at each await.
RequestType ==
  [pc     : {"idle", "done"} \cup Waiting,
   body   : Body \cup {None},
   text   : Body \cup {None},
   order  : Seq(Models),
   tried  : SUBSET Models,
   header : Models \cup {None},
   target : Models \cup {None},
   mode   : {"none", "dry_run", "applied"},
   key    : Body \cup {None},
   resp   : Response \cup {None},
   result : Results]

HistoryType ==
  [cleared   : SUBSET [body : Body, why : {"passed", "empty", "scan_off", "fail_open"}],
   forwarded : SUBSET Body,
   wire      : Body \cup {None},
   resent    : BOOLEAN,
   vetted    : SUBSET [resp : Response,
                       why : {"passed", "timed_out", "not_text", "response_scan_off"}],
   usage     : Seq([kind : {"billed", "saved"}, target : Models \cup {None},
                    mode : {"none", "dry_run", "applied"}])]

\* The type of every variable.
TypeOK ==
  /\ cfg \in Config
  /\ req \in [Requests -> RequestType]
  /\ cache \in [Body -> Response \cup {None}]
  /\ broken \in BOOLEAN
  /\ stores \in SUBSET [key : Body, entry : Response]
  /\ pushes \in 0 .. MaxPushes
  /\ relaxed \in SUBSET {"scan_off", "fail_open", "response_scan_off"}
  /\ hist \in [Requests -> HistoryType]

\* A clearance that the configuration at that moment allowed.
Grounded(c) ==
  \/ c.why = "passed"
  \/ c.why = "empty" /\ c.body.prompt \in Empty
  \/ c.why \in {"scan_off", "fail_open"} \cap relaxed

Covered(b, h) == \E c \in h.cleared : c.body = b /\ Grounded(c)

\* "The scanner always inspects the exact bytes that are forwarded upstream"
\* (pipeline.py): whatever routing, mutation and retries made of a body, the
\* bytes of every forward of it passed the scanner, unless the body is empty or
\* a configuration in force at some moment had switched that protection off.
ForwardedBytesWereScanned ==
  \A r \in Requests : \A b \in hist[r].forwarded : Covered(b, hist[r])

Vetted(resp, h) ==
  \E v \in h.vetted :
    /\ v.resp = resp
    /\ \/ v.why \in {"passed", "timed_out"}
       \/ v.why = "not_text" /\ ~v.resp.text
       \/ v.why \in {"response_scan_off"} \cap relaxed

Answered(q) == q.result \in {"served", "hit"}

\* The same for responses: what a client is served, from the provider or from
\* the cache ("never a policy bypass", cache.py), went through the response
\* scanner, unless it is not text or response scanning has been off.
ServedResponsesWereScanned ==
  \A r \in Requests : Answered(req[r]) => Vetted(req[r].resp, hist[r])

\* A client gets the provider's answer to the very bytes its request became:
\* no entry of the cache, whoever stored it and whatever fallback model
\* answered, is served for another prompt, model or marker.
AnswersMatchTheirRequests ==
  \A r \in Requests : Answered(req[r]) => req[r].resp.to = req[r].body

\* The routed-model header of an answer names the model that produced it, also
\* after fallbacks and on a cache hit, and is there exactly if routing rewrote
\* the request.
RoutedHeaderTruthful ==
  \A r \in Requests : Answered(req[r]) =>
    /\ (req[r].header # None) <=> (req[r].mode = "applied")
    /\ req[r].header # None => req[r].header = req[r].resp.to.model

Counted(q, h) ==
  LET billed == /\ q.pc = "scanResp" \/ q.result \in {"served", "response_blocked"}
                /\ h.wire # None /\ q.resp.status = "2xx"
  IN /\ Len(h.usage) = (IF billed \/ q.result = "hit" THEN 1 ELSE 0)
     /\ \A i \in DOMAIN h.usage :
          /\ h.usage[i].kind = IF q.result = "hit" THEN "saved" ELSE "billed"
          /\ h.usage[i].mode = "applied" => h.usage[i].target = q.resp.to.model

\* Usage telemetry: a 2xx answer of the provider is billed once, even when the
\* response scan then blocks it, a served hit is counted as saved once, nothing
\* else is counted, and the event of an applied route names the model that served.
\* (With usage reporting on and answers that carry a usage field.)
UsageReportedOnce == \A r \in Requests : Counted(req[r], hist[r])

\* What the answer's header and the usage event say of the model, the route and
\* the cache is what happened, after any alias, downgrade, retry or hit.
ProvenanceTruthful == RoutedHeaderTruthful /\ UsageReportedOnce

\* Retries terminate: a request never sends the same model twice, even when the
\* pool and the fallback list of its task overlap or repeat a model.
EachModelTriedOnce == \A r \in Requests : ~hist[r].resent

\* Every request is answered, whatever the scanner, Redis and the provider do.
EveryRequestAnswered ==
  \A r \in Requests : req[r].pc \in Waiting ~> req[r].pc = "done"

\* The docstring of _cache_policy_ok: "enabling PII/PHI detection at runtime
\* disables caching immediately", so no store is scheduled while the policy in
\* force handles sensitive data.
SensitivePolicyStopsCaching == [][stores' \subseteq stores \/ ~cfg.pii]_vars

----------------------------------------------------------------------------
(* The inductive invariant behind the theorems of RequestPipelineProofs.   *)

\* What the code after an await takes for granted: the bytes to scan or to send
\* are there, a lookup is for the body at hand, a response answers it.
Prepared(q, h) ==
  /\ q.pc \in Waiting => q.result = "none"
  /\ q.pc \in {"scan", "rescan"} => q.text # None
  /\ q.pc \in Waiting \ {"scan"} => q.body # None
  /\ q.pc = "lookup" => q.key = q.body /\ Covered(q.body, h)
  /\ q.pc = "upstream" => h.wire = q.body
  /\ q.pc \in {"scanHit", "scanResp"} => q.resp # None /\ q.resp.to = q.body

\* What routing made of the bytes b: the header, the usage target and the plan
\* agree on the model, and a model of the plan counts as tried.
Routed(q, b) ==
  /\ (q.header # None) <=> (q.mode = "applied")
  /\ q.mode = "applied" => q.target = q.header /\ q.header = b.model
  /\ q.order # <<>> => q.mode = "applied" /\ b.model \in q.tried

\* No model twice so far, and none of those sent to is left in the plan.
SentOnce(q, h) ==
  /\ ~h.resent
  /\ q.order # <<>> => \A b \in h.forwarded : b.model \in q.tried

\* The bytes b are the first for their model, and nothing was billed before.
Unsent(b, h) == h.usage = <<>> /\ \A c \in h.forwarded : c.model # b.model

\* What an await needs of the route and of the accounts.
Traced(q, h) ==
  /\ q.pc \in {"scan", "rescan"} => Routed(q, q.text) /\ Unsent(q.text, h)
  /\ q.pc \in Waiting \ {"scan", "rescan"} \/ Answered(q) => Routed(q, q.body)
  /\ q.pc \in {"scan", "lookup"} => h.forwarded = {}
  /\ q.pc \in {"scan", "lookup", "scanHit"} => h.wire = None
  /\ q.pc \in {"lookup", "upstream", "scanHit"} => h.usage = <<>>
  /\ q.pc = "scanResp" => h.wire # None
  /\ SentOnce(q, h)
  /\ Counted(q, h)

RequestInv(q, h) ==
  /\ Prepared(q, h)
  /\ Traced(q, h)
  /\ \A b \in h.forwarded : Covered(b, h)
  /\ Answered(q) => q.resp.to = q.body /\ Vetted(q.resp, h)

\* Every entry of the cache, stored or about to be, answers its own key.
CacheHoldsOwnAnswers ==
  /\ \A b \in Body : cache[b] # None => cache[b].to = b
  /\ \A s \in stores : s.entry.to = s.key

\* Scans, lookups, stores and answers of all requests stay consistent with each
\* other and with the protections recorded as switched off.
PipelineInv ==
  /\ TypeOK
  /\ Relaxations(cfg) \subseteq relaxed
  /\ CacheHoldsOwnAnswers
  /\ \A r \in Requests : RequestInv(req[r], hist[r])
=============================================================================
