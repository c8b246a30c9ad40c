-------------------------- MODULE ScannerPipeline --------------------------
(***************************************************************************)
(* ScannerPipeline (src/src/aiproxyguard/scanner/pipeline.py) with its     *)
(* regex engine, its heuristics and its MLClassifier (scanner/ml/          *)
(* classifier.py), and PolicyEngine.resolve (policy.py) on its results.    *)
(*                                                                         *)
(* scan() runs in threads of the pool.  Calls, answers, sync passes and    *)
(* pushes run on the event loop, so none of them while the loop is within  *)
(* a reload; the scans go on meanwhile.  Nothing of this state has a lock, *)
(* except in Hyperscan's engine; a step is one read or write of it.  All   *)
(* calls of a behaviour are for one request: they differ in when they run. *)
(*                                                                         *)
(* An operator named Faulty... is a slip a change of the code could make;  *)
(* nothing here uses it (README.md).                                       *)
(***************************************************************************)
EXTENDS RegexScanner, Selection, Functions

CONSTANTS
  Models,          \* the models bundles may embed
  Rank,            \* _ML_TIER_RANK of each; None for a model without a tier
  Categories,      \* what a prediction may say
  Harmless,        \* the categories that are no threat
  Requests,        \* what may be scanned, see RequestType
  Policies,        \* the rules the policy engine may hold at an answer, see PolicyType
  InitialConfigs,  \* the scanner sections of the configuration at boot
  Thresholds,      \* ML thresholds that may be pushed
  BootModels,      \* what _try_load_backend may find at boot
  MaxPushes        \* bound: configuration pushes

Priority == [allow |-> 0, log |-> 1, warn |-> 2, block |-> 3]
Actions == DOMAIN Priority
Percent == 0 .. 100
Stages == {"regex", "heuristics", "ml_classifier"}

Predictions == [category : Categories, confidence : Percent]

\* check: to the /check endpoint rather than through the proxy; signatures: for
\* each set, the action of each pattern that matches, None for one that does not;
\* heuristics: the confidences found; predictions: what each model says.
RequestType(r) ==
  /\ r.check \in BOOLEAN
  /\ r.signatures \in [1 .. MaxVersions -> [1 .. Size -> Actions \cup {None}]]
  /\ r.heuristics \in Seq(Percent)
  /\ \A m \in Models :
       r.predictions[m] \in Seq(Predictions)

\* A category has a threshold, or a sensitivity, which takes precedence.
PolicyType(p) ==
  /\ p.default_action \in Actions
  /\ \A c \in DOMAIN p.categories :
       /\ p.categories[c].action \in Actions
       /\ p.categories[c].threshold \in Percent
       /\ p.categories[c].sensitivity \in Int \cup {None}

\* What predict() returns: predictions, each with the model it names.
ModelMatches == [category : Categories, confidence : Percent, source : Models]

\* What may be the best of a scan; source is a model, the set of the signature, or 0.
Findings == [action : Actions, category : Categories \cup {"injection", "encoding-bypass"},
             confidence : Percent, source : Models \cup 0 .. MaxVersions]

ConfigType == [enabled : BOOLEAN, stages : SUBSET Stages,
               threshold : Percent, action : Actions]

ASSUME ScannerAssumption ==
  /\ Rank \in [Models -> -1 .. 2 \cup {None}]
  /\ \A r \in Requests : RequestType(r)
  /\ \A p \in Policies : PolicyType(p)
  /\ InitialConfigs \subseteq ConfigType
  /\ Thresholds \subseteq Percent
  /\ BootModels \subseteq Models \cup {None}
  /\ None \notin Models \cup Actions \cup Int \cup Findings
  /\ MaxPushes \in Nat

VARIABLES
  request,   \* the request of this behaviour
  config,    \* the live scanner and ml_classifier sections
  stages,    \* the scanner objects __init__ made
  backend,   \* _backend of the classifier, None while it is not available
  tierRank,  \* _ml_model_tier_rank
  sync,      \* a sync pass: idle, models (bundles arrive) or reload
  todo,      \* the pass: models still to come
  names,     \* app["signatures"], for the names in answers of /check
  call,      \* each thread's call and the locals of its scan()
  pushes,    \* pushes so far
  steady,    \* history: the loop changed nothing since the call was made
  loaded,    \* history: models the last pass loaded or skipped
  broken     \* history: a load of the last pass raised

loopVars == <<config, backend, tierRank, sync, todo, names, pushes, loaded, broken>>
fixed == <<request, stages>>
vars == <<regexVars, fixed, loopVars, call, steady>>

Idle == [pc |-> "idle", best |-> None, found |-> <<>>, left |-> <<>>,
         names |-> 0, outcome |-> "none"]

Init ==
  /\ EngineCreated
  /\ request \in Requests
  /\ config \in InitialConfigs
  /\ stages = config.stages
  /\ backend \in IF "ml_classifier" \in stages THEN BootModels ELSE {None}
  /\ tierRank = -1
  /\ sync = "idle"
  /\ todo = {}
  /\ names = 1
  /\ call = [t \in Threads |-> Idle]
  /\ pushes = 0
  /\ steady = [t \in Threads |-> FALSE]
  /\ loaded = {}
  /\ broken = FALSE

----------------------------------------------------------------------------
(* A scan, in thread t.                                                    *)

Goes(t, c) == call' = [call EXCEPT ![t] = c]

InThread == UNCHANGED <<fixed, loopVars, steady>>

\* Whether a finding is the new best: by action, then by confidence; the
\* first of equals stays.
Beats(f, best) ==
  \/ best = None
  \/ Priority[f.action] > Priority[best.action]
  \/ /\ Priority[f.action] = Priority[best.action]
     /\ f.confidence > best.confidence

Best(best, f) == IF Beats(f, best) THEN f ELSE best

\* What is best after all the findings of a stage, in their order.
BestOf(start, findings) ==
  LET best[n \in 0 .. Len(findings)] ==
        IF n = 0 THEN start ELSE Best(best[n - 1], findings[n])
  IN best[Len(findings)]

Finding(action, category, confidence, source) ==
  [action |-> action, category |-> category, confidence |-> confidence, source |-> source]

\* The matches among the patterns applied, each with the set it is from.
RegexFindings(patterns) ==
  LET ActionOf(p) == request.signatures[p.version][p.index]
      matches == Select(patterns, {p \in List!Patterns : ActionOf(p) # None})
  IN [i \in DOMAIN matches |-> Finding(ActionOf(matches[i]), "injection", 90, matches[i].version)]

HeuristicFindings ==
  [i \in DOMAIN request.heuristics |->
     Finding("warn", "encoding-bypass", request.heuristics[i], 0)]

Enters(t) ==
  /\ call[t].pc = "called"
  /\ Goes(t, [call[t] EXCEPT !.pc = IF config.enabled THEN "regex" ELSE "done"])
  /\ InThread /\ UNCHANGED regexVars

\* A stage runs if its object exists.
StartsRegex(t) ==
  /\ call[t].pc = "regex"
  /\ IF "regex" \in stages
     THEN RegexScanStarts(t) /\ Goes(t, [call[t] EXCEPT !.pc = "scanning"])
     ELSE UNCHANGED regexVars /\ Goes(t, [call[t] EXCEPT !.pc = "heuristics"])
  /\ InThread

RunsRegex(t) ==
  /\ call[t].pc = "scanning"
  /\ RegexScanGoesOn(t)
  /\ InThread /\ UNCHANGED call

\* An error of the engine leaves scan().
EndsRegex(t) ==
  /\ call[t].pc = "scanning"
  /\ RegexScanReturns(t)
  /\ Goes(t, IF RegexRaised(t)
             THEN [call[t] EXCEPT !.pc = "raised"]
             ELSE [call[t] EXCEPT !.pc = "heuristics",
                                  !.best = BestOf(@, RegexFindings(Reported(t)))])
  /\ InThread

RunsHeuristics(t) ==
  /\ call[t].pc = "heuristics"
  /\ Goes(t, [call[t] EXCEPT !.pc = "ml",
                !.best = IF "heuristics" \in stages THEN BestOf(@, HeuristicFindings)
                                                    ELSE @])
  /\ InThread /\ UNCHANGED regexVars

----------------------------------------------------------------------------
(* The classifier's part of the scan.  The event loop may replace or drop  *)
(* the backend between any two of these steps.                             *)

AsksForModel(t) ==
  /\ call[t].pc = "ml"
  /\ Goes(t, [call[t] EXCEPT !.pc = IF backend # None THEN "predict" ELSE "done"])
  /\ InThread /\ UNCHANGED regexVars

\* predict() asks again.
PredictStarts(t) ==
  /\ call[t].pc = "predict"
  /\ Goes(t, [call[t] EXCEPT !.pc = IF backend # None THEN "bind" ELSE "done"])
  /\ InThread /\ UNCHANGED regexVars

\* self._backend.predict(text).  Without a backend the assertion before it fails
\* outside the try block; had it passed, the attribute error would be caught.
Predicts(t) ==
  /\ call[t].pc = "bind"
  /\ IF backend # None
     THEN Goes(t, [call[t] EXCEPT !.pc = "attribute", !.left = request.predictions[backend]])
     ELSE \E pc \in {"raised", "done"} : Goes(t, [call[t] EXCEPT !.pc = pc])
  /\ InThread /\ UNCHANGED regexVars

\* One prediction: the threshold is the one now, the model named is the backend
\* now; without one the attribute error drops every match.
Attributes(t) ==
  /\ call[t].pc = "attribute"
  /\ LET c == call[t]
         p == Head(c.left)
         match == [category |-> p.category, confidence |-> p.confidence, source |-> backend]
     IN Goes(t, IF c.left = <<>> THEN [c EXCEPT !.pc = "combine"]
                ELSE IF p.confidence < config.threshold THEN [c EXCEPT !.left = Tail(@)]
                ELSE IF backend = None
                THEN [c EXCEPT !.pc = "done", !.found = <<>>, !.left = <<>>]
                ELSE [c EXCEPT !.left = Tail(@), !.found = Append(@, match)])
  /\ InThread /\ UNCHANGED regexVars

\* One match of the classifier, with the action configured now.
Combines(t) ==
  /\ call[t].pc = "combine"
  /\ LET c == call[t]
         f == Head(c.found)
         finding == Finding(config.action, f.category, f.confidence, f.source)
     IN Goes(t, IF c.found = <<>> THEN [c EXCEPT !.pc = "done"]
                ELSE IF f.category \in Harmless THEN [c EXCEPT !.found = Tail(@)]
                ELSE [c EXCEPT !.found = Tail(@), !.best = Best(@, finding)])
  /\ InThread /\ UNCHANGED regexVars

Scan(t) ==
  \/ Enters(t) \/ StartsRegex(t) \/ RunsRegex(t) \/ EndsRegex(t) \/ RunsHeuristics(t)
  \/ AsksForModel(t) \/ PredictStarts(t) \/ Predicts(t) \/ Attributes(t) \/ Combines(t)

----------------------------------------------------------------------------
(* Calls and answers.                                                      *)

Larger(a, b) == IF a > b THEN a ELSE b
Smaller(a, b) == IF a < b THEN a ELSE b

FaultyThreshold(p, category) ==
  IF category \notin DOMAIN p.categories THEN 0
  ELSE LET c == p.categories[category]
       IN IF c.sensitivity # None THEN Larger(0, Smaller(100, c.sensitivity)) ELSE c.threshold

\* _get_threshold
Threshold(p, category) ==
  IF category \notin DOMAIN p.categories THEN 0
  ELSE LET c == p.categories[category]
       IN IF c.sensitivity # None THEN Larger(0, Smaller(100, 100 - c.sensitivity))
          ELSE c.threshold

Allowlisted(p, category) == {"*", category} \cap p.allowlisted # {}

\* PolicyEngine.resolve, for the client of the request.
Resolve(p, best) ==
  IF \/ best = None \/ best.action = "allow"
     \/ Allowlisted(p, best.category)
     \/ best.confidence < Threshold(p, best.category)
  THEN "allow"
  ELSE IF best.category \in DOMAIN p.categories
       THEN p.categories[best.category].action ELSE p.default_action

\* The event loop is within on_signature_update, from reload() to cache_signatures.
Busy == sync = "reload"

\* check_handler and the pipeline; a handler looks up app["signatures"] first.
Calls(t) ==
  /\ ~Busy
  /\ call[t].pc \in {"idle", "answered"}
  /\ Goes(t, [Idle EXCEPT !.pc = "called", !.names = IF request.check THEN names ELSE 0])
  /\ steady' = [steady EXCEPT ![t] = TRUE]
  /\ UNCHANGED <<regexVars, fixed, loopVars>>

\* /check reports the action of the scan, the proxy does what the policy says.
\* A scan that raised is answered as failure_mode says.
Answers(t) ==
  /\ ~Busy
  /\ call[t].pc \in {"done", "raised"}
  /\ \E p \in Policies :
       LET c == call[t]
           outcome == IF c.pc = "raised" THEN "failed"
                      ELSE IF ~request.check THEN Resolve(p, c.best)
                      ELSE IF c.best = None THEN "allow" ELSE c.best.action
       IN Goes(t, [Idle EXCEPT !.pc = "answered", !.best = c.best, !.names = c.names,
                               !.outcome = outcome])
  /\ UNCHANGED <<regexVars, fixed, loopVars, steady>>

----------------------------------------------------------------------------
(* Sync passes: the models of the entitled bundles, then the signatures.   *)

Disturb == steady' = [t \in Threads |-> FALSE]

FaultyPassBegins(S) ==
  /\ sync = "idle" /\ version < MaxVersions
  /\ sync' = "models"
  /\ todo' = S
  /\ loaded' = {}
  /\ broken' = FALSE
  /\ Disturb
  /\ UNCHANGED <<regexVars, fixed, config, backend, tierRank, names, call, pushes>>

\* reset_active_ml_tier
PassBegins(S) ==
  /\ sync = "idle" /\ version < MaxVersions
  /\ sync' = "models"
  /\ todo' = S
  /\ tierRank' = -1
  /\ loaded' = {}
  /\ broken' = FALSE
  /\ Disturb
  /\ UNCHANGED <<regexVars, fixed, config, backend, names, call, pushes>>

\* A model of a lower tier than the active one is skipped; one of no tier never is.
Skipped(m) == "ml_classifier" \notin stages \/ (Rank[m] # None /\ Rank[m] < tierRank)

\* load_ml_from_bytes.  A model that does not load leaves no model at all, except
\* when the libraries it needs are missing.
LoadsModel(m) ==
  /\ sync = "models" /\ m \in todo
  /\ todo' = todo \ {m}
  /\ IF Skipped(m)
     THEN loaded' = loaded \cup {m} /\ UNCHANGED <<backend, tierRank, broken>>
     ELSE \/ /\ backend' = m
             /\ tierRank' = IF Rank[m] = None THEN tierRank ELSE Larger(tierRank, Rank[m])
             /\ loaded' = loaded \cup {m}
             /\ UNCHANGED broken
          \/ backend' = None /\ broken' = TRUE /\ UNCHANGED <<tierRank, loaded>>
          \/ UNCHANGED <<backend, tierRank, loaded, broken>>
  /\ Disturb
  /\ UNCHANGED <<regexVars, fixed, config, sync, names, call, pushes>>

\* reload()
ReloadStarts ==
  /\ sync = "models" /\ todo = {}
  /\ sync' = "reload"
  /\ IF "regex" \in stages
     THEN RegexReloadStarts
     ELSE version' = version + 1 /\ UNCHANGED <<engine, loop, listVars, hyperVars>>
  /\ Disturb
  /\ UNCHANGED <<fixed, config, backend, tierRank, todo, names, call, pushes, loaded, broken>>

ReloadGoesOn ==
  /\ sync = "reload" /\ Reloading
  /\ RegexReloadGoesOn
  /\ Disturb
  /\ UNCHANGED <<fixed, loopVars, call>>

FaultyReloadEnds ==
  /\ sync = "reload" /\ ~Reloading
  /\ sync' = "idle"
  /\ Disturb
  /\ UNCHANGED <<regexVars, fixed, config, backend, tierRank, todo, names, call, pushes,
                 loaded, broken>>

\* on_signature_update goes on to cache_signatures.
ReloadEnds ==
  /\ sync = "reload" /\ ~Reloading
  /\ sync' = "idle"
  /\ names' = version
  /\ Disturb
  /\ UNCHANGED <<regexVars, fixed, config, backend, tierRank, todo, call, pushes,
                 loaded, broken>>

----------------------------------------------------------------------------
(* Pushes.                                                                 *)

Push ==
  /\ ~Busy /\ pushes < MaxPushes
  /\ pushes' = pushes + 1
  /\ Disturb
  /\ UNCHANGED <<regexVars, fixed, backend, tierRank, sync, todo, names, call, loaded, broken>>

\* update_scanner_config: the flags of the stages are written, and never read again.
PushScanner ==
  /\ Push
  /\ \/ \E on \in BOOLEAN : config' = [config EXCEPT !.enabled = on]
     \/ \E s \in Stages, on \in BOOLEAN :
          config' = [config EXCEPT !.stages = IF on THEN @ \cup {s} ELSE @ \ {s}]

\* update_ml_config
PushClassifier ==
  /\ Push
  /\ "ml_classifier" \in stages
  /\ \/ \E n \in Thresholds : config' = [config EXCEPT !.threshold = n]
     \/ \E a \in Actions : config' = [config EXCEPT !.action = a]

----------------------------------------------------------------------------
Loop ==
  \/ \E S \in SUBSET Models : PassBegins(S)
  \/ \E m \in Models : LoadsModel(m)
  \/ ReloadStarts \/ ReloadGoesOn \/ ReloadEnds
  \/ PushScanner \/ PushClassifier

Next == Loop \/ \E t \in Threads : Calls(t) \/ Scan(t) \/ Answers(t)

Spec == Init /\ [][Next]_vars

----------------------------------------------------------------------------
(* Properties.                                                             *)

CallType ==
  [pc : {"idle", "called", "regex", "scanning", "heuristics", "ml", "predict", "bind",
         "attribute", "combine", "done", "raised", "answered"},
   best : Findings \cup {None},
   found : Seq(ModelMatches),
   left : Seq(Predictions),
   names : 0 .. MaxVersions,
   outcome : Actions \cup {"none", "failed"}]

\* The type of every variable.
TypeOK ==
  /\ EnginesTypeOK
  /\ request \in Requests
  /\ config \in ConfigType
  /\ stages \subseteq Stages
  /\ backend \in Models \cup {None}
  /\ tierRank \in -1 .. 2
  /\ sync \in {"idle", "models", "reload"}
  /\ todo \subseteq Models
  /\ names \in 1 .. MaxVersions
  /\ call \in [Threads -> CallType]
  /\ pushes \in 0 .. MaxPushes
  /\ steady \in [Threads -> BOOLEAN]
  /\ loaded \subseteq Models
  /\ broken \in BOOLEAN

\* What the regex stage has to find: the matches of the whole set.  They may all be
\* missing in a thread whose scratch space passes for the current database's.
DueOfRegex(t) ==
  {IF "regex" \in stages THEN Range(RegexFindings(WholeSet)) ELSE {}}
  \cup (IF Recycled(t) THEN {{}} ELSE {})

\* Everything a scan has to find with the signatures, the model and the
\* configuration in force, when its regex stage finds the set of matches given.
Expected(matches) ==
  IF ~config.enabled THEN {} ELSE
    matches
    \cup (IF "heuristics" \in stages
          THEN Range(HeuristicFindings) ELSE {})
    \cup (IF backend = None THEN {}
          ELSE {Finding(config.action, p.category, p.confidence, backend) :
                  p \in {q \in Range(request.predictions[backend]) :
                          q.confidence >= config.threshold /\ q.category \notin Harmless}})

Strongest(S) ==
  {f \in S : \A g \in S :
     \/ Priority[g.action] < Priority[f.action]
     \/ Priority[g.action] = Priority[f.action] /\ g.confidence <= f.confidence}

\* A call during which nothing was reloaded, loaded or pushed does not fail, and is
\* answered by a strongest of all the findings due under what is in force,
\* attributed to the set and the model in force; /check names the signature from
\* the set that matched.  What was before does not matter, except that a scratch
\* space kept under a reused address may cost all the findings of the regex stage.
CalmCallsAreExact ==
  \A t \in Threads : call[t].pc = "answered" /\ steady[t] =>
    /\ call[t].outcome # "failed"
    /\ \E matches \in DueOfRegex(t) :
         call[t].best \in IF Expected(matches) = {} THEN {None} ELSE Strongest(Expected(matches))
    /\ request.check => call[t].names = version

\* "We keep the highest tier active": after a pass in which no load raised, the
\* model of the highest tier that loaded runs, in whatever order the bundles came
\* and whatever tiers earlier passes had, a downgrade included.
HighestTierRuns ==
  sync = "idle" /\ ~broken /\ "ml_classifier" \in stages
    /\ loaded # {} /\ (\A m \in loaded : Rank[m] # None)
    => backend \in loaded /\ \A m \in loaded : Rank[m] <= Rank[backend]

\* q has the rules of p with sensitivities at least as high.
Stricter(q, p) ==
  /\ q.default_action = p.default_action /\ q.allowlisted = p.allowlisted
  /\ DOMAIN q.categories = DOMAIN p.categories
  /\ \A c \in DOMAIN p.categories :
       /\ q.categories[c].action = p.categories[c].action
       /\ None \notin {q.categories[c].sensitivity, p.categories[c].sensitivity}
       /\ q.categories[c].sensitivity >= p.categories[c].sensitivity

\* "Higher values = more strict" (docs/configuration.md): what a policy acts on, one
\* with higher sensitivities acts on in the same way, out-of-range values included.
SensitivityIsMonotone ==
  \A t \in Threads, p, q \in Policies :
    Stricter(q, p) /\ Resolve(p, call[t].best) # "allow" =>
      Resolve(q, call[t].best) = Resolve(p, call[t].best)
=============================================================================
