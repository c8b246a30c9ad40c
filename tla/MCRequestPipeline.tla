------------------------- MODULE MCRequestPipeline -------------------------
(* Instances of RequestPipeline for TLC. *)
EXTENDS RequestPipeline

CONSTANTS small, large, summarize, draft

Plain(p, m) == [prompt |-> p, model |-> m, marked |-> FALSE]

\* The pool and the fallback of summarize overlap; draft has no fallback.
Tasked == [tasks |-> [t \in {summarize, draft} |->
                        IF t = summarize
                        THEN [pool |-> <<small, small>>, fallback |-> <<large, small>>]
                        ELSE [pool |-> <<small>>, fallback |-> <<>>]],
           downgrades |-> [m \in Models |-> None],
           dryRun |-> FALSE]

Cheaper(dry) == [tasks |-> [t \in Tasks |-> None],
                 downgrades |-> [m \in Models |-> IF m = large THEN small ELSE None],
                 dryRun |-> dry]

Strict == [scan |-> TRUE, closed |-> TRUE, respScan |-> TRUE, optIn |-> FALSE,
           pii |-> FALSE, promptCache |-> FALSE, routing |-> Tasked]

Caching == [Strict EXCEPT !.optIn = TRUE]

\* Routing and retries, no cache: a chat, a tool call, a JSON-less upload, a GET.
RoutingPrompts == {"chat", "tools", "upload", "get"}
RoutingInputs == {Plain("chat", summarize), Plain("tools", draft), Plain("tools", summarize),
                  Plain("chat", large), Plain("upload", large), Plain("get", large)}
RoutingSettings == {Tasked, Cheaper(TRUE), Cheaper(FALSE)}
RoutingBoot == {[Strict EXCEPT !.promptCache = TRUE]}

\* The cache: a deterministic chat asked for by alias and by a fallback's name.
CacheInputs == {Plain("chat", summarize), Plain("chat", large)}
HitsBoot == {Caching, [Caching EXCEPT !.routing = Cheaper(FALSE)]}
=============================================================================
