---------------------------- MODULE ControlPlane ----------------------------
(***************************************************************************)
(* The life of the control-plane client and its policy sync: start(),      *)
(* _register_with_retry, _register, _heartbeat_loop, _send_heartbeat,       *)
(* _fetch_and_apply_policy and stop() in                                   *)
(* src/src/aiproxyguard/control_plane.py, with PolicyEngine.update_config   *)
(* (policy.py) as the policy callback.                                     *)
(*                                                                         *)
(* The client is one coroutine; pc names the await it is at.  The server   *)
(* changes the active policy and goes up and down at any moment.           *)
(* Signature sync, which the same coroutine runs after the policy, is      *)
(* module SignatureSync; its errors never leave it.                        *)
(*                                                                         *)
(* An operator named Faulty... is a slip a change of the code could make;  *)
(* nothing here uses it (README.md).                                       *)
(***************************************************************************)
EXTENDS Integers

CONSTANTS
  Policies,      \* 1 .. n: (policy_id, config_version) pairs, in order of creation
  Sections,      \* config sections with a registered handler
  Malformed,     \* for each policy, the parts it omits or a handler rejects; with the
                 \* rules goes the index
  MaxSwitches,   \* bound: changes of the active policy
  SwitchBack,    \* whether an earlier policy may be made active again
  FetchErrors    \* how GET /policies/active may fail: "http" an HTTP error or a reply
                 \* without a config object, "reply" one that is no JSON

\* The detection rules and allowlist index of PolicyEngine, and the sections.
Parts == {"rules", "index"} \cup Sections

MaxAttempts == 3

ASSUME ControlPlaneAssumption ==
  /\ Policies \subseteq Nat \ {0}
  /\ 1 \in Policies
  /\ Malformed \in [Policies -> SUBSET Parts]
  /\ \A p \in Policies : "rules" \in Malformed[p] => "index" \in Malformed[p]
  /\ MaxSwitches \in Nat
  /\ SwitchBack \in BOOLEAN
  /\ FetchErrors \subseteq {"http", "reply"}

VARIABLES
  pc,          \* where the client is
  attempt,     \* attempts of _register_with_retry made so far
  registered,  \* _registered
  authFailed,  \* _auth_permanently_failed
  last,        \* _last_policy_id and _last_config_version; 0 is none
  seen,        \* the policy of the heartbeat reply being handled
  fetched,     \* history: the policy the last fetch brought; 0 if it failed
  live,        \* for each part, the policy its value came from; 0 is none
  served,      \* server: the active policy
  switches,    \* server: changes made so far
  up           \* server: reachable

vars == <<pc, attempt, registered, authFailed, last, seen, fetched, live, served, switches, up>>

Client == <<pc, attempt, registered, authFailed, last, seen, fetched, live>>
Server == <<served, switches, up>>

\* At these the client waits for the server.
Requests == {"register", "reregister", "heartbeat", "policy"}

Init ==
  /\ pc = "register"
  /\ attempt = 0
  /\ registered = FALSE
  /\ authFailed = FALSE
  /\ last = 0
  /\ seen = 0
  /\ fetched = 0
  /\ live = [p \in Parts |-> 0]
  /\ served = 1
  /\ switches = 0
  /\ up = TRUE

----------------------------------------------------------------------------
(* Registration at start-up and in the loop.  A 401 or 403 is permanent.   *)

Accepted ==
  /\ up
  /\ registered' = TRUE
  /\ authFailed' = FALSE

Refused == up /\ authFailed' = TRUE /\ UNCHANGED registered

Unanswered == ~up /\ UNCHANGED <<registered, authFailed>>

FaultyStartRegisters ==
  /\ pc = "register"
  /\ attempt' = attempt + 1
  /\ \/ Accepted /\ pc' = "top"
     \/ Refused /\ pc' = "top"
     \/ Unanswered /\ pc' = IF attempt = MaxAttempts THEN "top" ELSE "register"
  /\ UNCHANGED <<last, seen, fetched, live, served, switches, up>>

\* With the last attempt failed start() loads the cache and starts the loop.
StartRegisters ==
  /\ pc = "register"
  /\ attempt' = attempt + 1
  /\ \/ Accepted /\ pc' = "top"
     \/ Refused /\ pc' = "top"
     \/ Unanswered /\ pc' = IF attempt' = MaxAttempts THEN "top" ELSE "register"
  /\ UNCHANGED <<last, seen, fetched, live, served, switches, up>>

\* The check at the top of the loop, the sleep and the choice after it.
LoopTurns ==
  /\ pc = "top"
  /\ pc' = IF authFailed THEN "ended" ELSE IF registered THEN "heartbeat" ELSE "reregister"
  /\ UNCHANGED <<attempt, registered, authFailed, last, seen, fetched, live, served, switches, up>>

FaultyLoopRegisters ==
  /\ pc = "reregister"
  /\ Accepted \/ Refused \/ Unanswered
  /\ pc' = "heartbeat"
  /\ UNCHANGED <<attempt, last, seen, fetched, live, served, switches, up>>

\* A heartbeat is sent even when registration failed, unless it was refused.
LoopRegisters ==
  /\ pc = "reregister"
  /\ \/ Accepted /\ pc' = "heartbeat"
     \/ Refused /\ pc' = "top"
     \/ Unanswered /\ pc' = "heartbeat"
  /\ UNCHANGED <<attempt, last, seen, fetched, live, served, switches, up>>

----------------------------------------------------------------------------
(* The heartbeat and the policy it announces.                              *)

HeartbeatAnswered ==
  /\ pc = "heartbeat" /\ up
  /\ seen' = served
  /\ pc' = IF served # last THEN "policy" ELSE "top"
  /\ UNCHANGED <<attempt, registered, authFailed, last, fetched, live, served, switches, up>>

HeartbeatRefused ==
  /\ pc = "heartbeat" /\ up
  /\ authFailed' = TRUE
  /\ pc' = "top"
  /\ UNCHANGED <<attempt, registered, last, seen, fetched, live, served, switches, up>>

HeartbeatUnanswered ==
  /\ pc = "heartbeat" /\ ~up
  /\ pc' = "top"
  /\ UNCHANGED <<attempt, registered, authFailed, last, seen, fetched, live, served, switches, up>>

\* update_config: a rejected rule set changes nothing; rejected allowlists are
\* found after rules were assigned and the index emptied.
EngineApplies(p) ==
  CASE "rules" \in Malformed[p] -> [rules |-> live["rules"], index |-> live["index"]]
    [] "index" \in Malformed[p] \ {"rules"} -> [rules |-> p, index |-> 0]
    [] OTHER -> [rules |-> p, index |-> p]

FaultyApply(p) ==
  IF Malformed[p] # {} THEN live ELSE [part \in Parts |-> p]

\* _fetch_and_apply_policy: every part by itself, a rejected section kept.
Apply(p) ==
  [part \in Parts |->
     IF part \in {"rules", "index"} THEN EngineApplies(p)[part]
     ELSE IF part \in Malformed[p] THEN live[part] ELSE p]

\* The reply carries the policy active now; recorded is the heartbeat's.
PolicyFetched ==
  /\ pc = "policy"
  /\ live' = Apply(served)
  /\ fetched' = served
  /\ last' = seen
  /\ pc' = "top"
  /\ UNCHANGED <<attempt, registered, authFailed, seen, served, switches, up>>

FaultyPolicyFetchFails ==
  /\ pc = "policy" /\ "http" \in FetchErrors
  /\ pc' = "ended"
  /\ UNCHANGED <<attempt, registered, authFailed, last, seen, fetched, live, served, switches, up>>

\* The error is logged inside _fetch_and_apply_policy; the caller goes on.
PolicyFetchFails ==
  /\ pc = "policy" /\ "http" \in FetchErrors
  /\ fetched' = 0
  /\ last' = seen
  /\ pc' = "top"
  /\ UNCHANGED <<attempt, registered, authFailed, seen, live, served, switches, up>>

\* Any other error is caught by the loop: the next heartbeat tries again.
PolicyFetchRaises ==
  /\ pc = "policy" /\ "reply" \in FetchErrors
  /\ fetched' = 0
  /\ pc' = "top"
  /\ UNCHANGED <<attempt, registered, authFailed, last, seen, live, served, switches, up>>

----------------------------------------------------------------------------
Stop ==
  /\ pc \notin {"register", "stopped"}
  /\ pc' = "stopped"
  /\ UNCHANGED <<attempt, registered, authFailed, last, seen, fetched, live, served, switches, up>>

PolicySwitches ==
  /\ switches < MaxSwitches
  /\ switches' = switches + 1
  /\ served' \in {p \in Policies \ {served} : SwitchBack \/ p = served + 1}
  /\ UNCHANGED <<Client, up>>

ServerUpOrDown == up' = ~up /\ UNCHANGED <<Client, served, switches>>

ClientStep ==
  \/ StartRegisters \/ LoopTurns \/ LoopRegisters
  \/ HeartbeatAnswered \/ HeartbeatRefused \/ HeartbeatUnanswered
  \/ PolicyFetched \/ PolicyFetchFails \/ PolicyFetchRaises

Next == ClientStep \/ Stop \/ PolicySwitches \/ ServerUpOrDown

Spec == Init /\ [][Next]_vars

\* Every request ends within the client's timeout and the loop sleeps a fixed
\* interval; a client that can go on does.
FairSpec == Spec /\ WF_vars(ClientStep)

----------------------------------------------------------------------------
(* Properties.                                                             *)

\* The type of every variable.
TypeOK ==
  /\ pc \in Requests \cup {"top", "ended", "stopped"}
  /\ attempt \in 0 .. MaxAttempts
  /\ registered \in BOOLEAN
  /\ authFailed \in BOOLEAN
  /\ last \in Policies \cup {0}
  /\ {seen, fetched} \subseteq Policies \cup {0}
  /\ live \in [Parts -> Policies \cup {0}]
  /\ served \in Policies
  /\ switches \in 0 .. MaxSwitches
  /\ up \in BOOLEAN

\* "Control plane features disabled ... restart the proxy": once the key was
\* refused, in start-up, in the loop or by a heartbeat, the client sends no
\* further registration, heartbeat or policy request and the refusal is never
\* taken back.  (The flush of telemetry that follows a heartbeat is still made:
\* module Telemetry.)
SilentAfterRefusal ==
  [][authFailed => authFailed' /\ (pc' \in Requests => pc' = pc)]_vars

\* No failure but a refused key ends the loop: outages, unanswered
\* registrations and failed fetches are always followed by another heartbeat.
KeepsBeating == []<>(pc = "heartbeat" \/ authFailed \/ pc = "stopped")

\* The parts of the active policy that no handler rejects are in force.
InForce == \A part \in Parts : part \notin Malformed[served] => live[part] = served

\* "Policy changes from the control plane are applied without restart"
\* (docs/configuration.md): with a server that stays up and a key it accepts,
\* the live configuration ends up being the active policy's, whatever changed
\* while heartbeats and fetches were under way.
PolicyConverges ==
  <>[](up /\ ~authFailed /\ pc # "stopped") => <>[]InForce

\* The same under failing fetches and policies changed back, except where the last
\* fetch failed or did not bring the policy the client has recorded.
PolicyConvergesUnlessMissed ==
  <>[](up /\ ~authFailed /\ pc # "stopped") => <>[](InForce \/ fetched # last \/ fetched = 0)
=============================================================================
