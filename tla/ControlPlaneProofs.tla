------------------------- MODULE ControlPlaneProofs -------------------------
(***************************************************************************)
(* Proofs about the control-plane client for any policies and sections: it *)
(* keeps its types, is silent once its key was refused, and has in force   *)
(* what it has recorded unless a fetch missed it.                          *)
(***************************************************************************)
EXTENDS ControlPlane, TLAPS

\* Where the last fetch brought the policy recorded, every part of it that no
\* handler rejects is in force: what makes the configuration converge.
RecordedInForce ==
  last # 0 /\ fetched = last => \A part \in Parts : part \notin Malformed[last] => live[part] = last

\* Start-up has attempts left, and a client whose key was refused is not about to
\* send anything: it is on its way to the end of the loop.
ClientInv ==
  /\ TypeOK
  /\ RecordedInForce
  /\ pc = "register" => attempt < MaxAttempts
  /\ authFailed => pc \notin Requests

\* A client that starts has all its attempts.
LEMMA InitClient == Init => ClientInv
<1> SUFFICES ASSUME Init PROVE ClientInv
  OBVIOUS
<1>1. attempt \in 0 .. MaxAttempts /\ attempt < MaxAttempts /\ switches \in 0 .. MaxSwitches
  BY ControlPlaneAssumption DEF Init, MaxAttempts
<1>2. served \in Policies /\ live \in [Parts -> Policies \cup {0}]
  BY ControlPlaneAssumption DEF Init
<1> QED
  BY <1>1, <1>2 DEF Init, ClientInv, TypeOK, Requests, RecordedInForce

\* What a policy puts in force comes from it, or was in force, or is nothing.
LEMMA ApplyTyped ==
  ASSUME TypeOK, NEW p \in Policies
  PROVE  /\ Apply(p) \in [Parts -> Policies \cup {0}]
         /\ \A part \in Parts : part \notin Malformed[p] => Apply(p)[part] = p
<1>1. ASSUME NEW part \in Parts PROVE live[part] \in Policies \cup {0}
  BY DEF TypeOK
<1>2. EngineApplies(p).rules \in Policies \cup {0} /\ EngineApplies(p).index \in Policies \cup {0}
  BY <1>1 DEF EngineApplies, Parts
<1>3. Apply(p) \in [Parts -> Policies \cup {0}]
  BY <1>1, <1>2 DEF Apply, Parts
<1>4. ASSUME NEW part \in Parts, part \notin Malformed[p] PROVE Apply(p)[part] = p
  <2>1. "rules" \in Malformed[p] => "index" \in Malformed[p]
    BY ControlPlaneAssumption
  <2>2. /\ "rules" \notin Malformed[p] => EngineApplies(p).rules = p
        /\ "index" \notin Malformed[p] => EngineApplies(p).index = p
    BY <2>1 DEF EngineApplies
  <2> QED
    BY <1>4, <2>2 DEF Apply
<1> QED
  BY <1>3, <1>4

\* Every step of the client, of the server and of stop() keeps it.
LEMMA StepClient == ClientInv /\ [Next]_vars => ClientInv'
<1> SUFFICES ASSUME ClientInv, [Next]_vars PROVE ClientInv'
  OBVIOUS
<1> USE DEF ClientInv, TypeOK, Requests, RecordedInForce
<1>1. CASE StartRegisters
  <2>1. pc = "register" /\ attempt' = attempt + 1 /\ attempt \in 0 .. MaxAttempts
        /\ attempt < MaxAttempts
    BY <1>1 DEF StartRegisters
  <2>2. attempt' \in 0 .. MaxAttempts /\ (attempt' # MaxAttempts => attempt' < MaxAttempts)
    <3> HIDE DEF TypeOK, ClientInv
    <3> QED
      BY <2>1 DEF MaxAttempts
  <2>3. \/ registered' = TRUE /\ authFailed' = FALSE /\ pc' = "top"
        \/ authFailed' = TRUE /\ UNCHANGED registered /\ pc' = "top"
        \/ /\ UNCHANGED <<registered, authFailed>>
           /\ pc' = IF attempt' = MaxAttempts THEN "top" ELSE "register"
    BY <1>1 DEF StartRegisters, Accepted, Refused, Unanswered
  <2>4. UNCHANGED <<last, seen, fetched, live, served, switches, up>>
    BY <1>1 DEF StartRegisters
  <2>5. registered' \in BOOLEAN /\ authFailed' \in BOOLEAN
    BY <2>3
  <2>6. pc' \in {"top", "register"} /\ (pc' = "register" => attempt' < MaxAttempts)
    BY <2>2, <2>3
  <2>7. authFailed' => pc' = "top"
    BY <2>1, <2>3
  <2>8. TypeOK'
    BY <2>2, <2>4, <2>5, <2>6
  <2> QED
    BY <2>4, <2>6, <2>7, <2>8
<1>2. CASE LoopTurns
  BY <1>2 DEF LoopTurns
<1>3. CASE LoopRegisters
  <2>1. \/ registered' = TRUE /\ authFailed' = FALSE /\ pc' = "heartbeat"
        \/ authFailed' = TRUE /\ UNCHANGED registered /\ pc' = "top"
        \/ UNCHANGED <<registered, authFailed>> /\ pc' = "heartbeat"
    BY <1>3 DEF LoopRegisters, Accepted, Refused, Unanswered
  <2>2. UNCHANGED <<attempt, last, seen, fetched, live, served, switches, up>> /\ ~authFailed
    BY <1>3 DEF LoopRegisters
  <2>3. registered' \in BOOLEAN /\ authFailed' \in BOOLEAN /\ pc' \in {"top", "heartbeat"}
    BY <2>1
  <2>4. authFailed' => pc' = "top"
    BY <2>1, <2>2
  <2> QED
    BY <2>2, <2>3, <2>4
<1>4. CASE HeartbeatAnswered
  BY <1>4 DEF HeartbeatAnswered
<1>5. CASE HeartbeatRefused
  BY <1>5 DEF HeartbeatRefused
<1>6. CASE HeartbeatUnanswered
  BY <1>6 DEF HeartbeatUnanswered
<1>7. CASE PolicyFetched
  <2>1. /\ live' \in [Parts -> Policies \cup {0}]
        /\ \A part \in Parts : part \notin Malformed[served] => live'[part] = served
    BY <1>7, ApplyTyped DEF PolicyFetched
  <2> QED
    BY <1>7, <2>1 DEF PolicyFetched
<1>8. CASE PolicyFetchFails
  BY <1>8 DEF PolicyFetchFails
<1>9. CASE PolicyFetchRaises
  BY <1>9 DEF PolicyFetchRaises
<1>10. CASE Stop
  BY <1>10 DEF Stop
<1>11. CASE PolicySwitches
  <2>1. switches' \in 0 .. MaxSwitches /\ served' \in Policies
    BY <1>11, ControlPlaneAssumption DEF PolicySwitches
  <2> QED
    BY <1>11, <2>1 DEF PolicySwitches, Client
<1>12. CASE ServerUpOrDown
  BY <1>12 DEF ServerUpOrDown, Client
<1>13. CASE UNCHANGED vars
  BY <1>13 DEF vars
<1> QED
  BY <1>1, <1>2, <1>3, <1>4, <1>5, <1>6, <1>7, <1>8, <1>9, <1>10, <1>11, <1>12, <1>13
  DEF Next, ClientStep

\* The client's invariant holds.
THEOREM Invariance == Spec => []ClientInv
<1> QED
  BY InitClient, StepClient, PTL DEF Spec

\* Every variable keeps its type; the attempts of start-up never exceed their number.
THEOREM TypeCorrect == Spec => []TypeOK
<1>1. ClientInv => TypeOK
  BY DEF ClientInv
<1> QED
  BY <1>1, Invariance, PTL

\* The policy recorded is in force, part by part, or the last fetch missed it.
THEOREM Recorded == Spec => []RecordedInForce
<1>1. ClientInv => RecordedInForce
  BY DEF ClientInv
<1> QED
  BY <1>1, Invariance, PTL

\* Once the key was refused, whichever request met the refusal, nothing more is
\* sent and the refusal stands.
THEOREM Silent == Spec => SilentAfterRefusal
<1> DEFINE Quiet == authFailed => authFailed' /\ (pc' \in Requests => pc' = pc)
<1>1. ClientInv /\ [Next]_vars => [Quiet]_vars
  <2> SUFFICES ASSUME ClientInv, Next, authFailed PROVE authFailed' /\ (pc' \in Requests => pc' = pc)
    OBVIOUS
  <2>1. pc \notin Requests
    BY DEF ClientInv
  <2>2. CASE LoopTurns
    BY <2>2 DEF LoopTurns, Requests
  <2>3. CASE Stop
    BY <2>3 DEF Stop, Requests
  <2>4. CASE PolicySwitches \/ ServerUpOrDown
    BY <2>4 DEF PolicySwitches, ServerUpOrDown, Client
  <2> QED
    BY <2>1, <2>2, <2>3, <2>4
    DEF Next, ClientStep, StartRegisters, LoopRegisters, HeartbeatAnswered, HeartbeatRefused,
        HeartbeatUnanswered, PolicyFetched, PolicyFetchFails, PolicyFetchRaises, Requests
<1>2. Spec => [][Quiet]_vars
  BY <1>1, Invariance, PTL DEF Spec
<1> QED
  BY <1>2 DEF SilentAfterRefusal
=============================================================================
