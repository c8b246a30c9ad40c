------------------------- MODULE TelemetryDelivery -------------------------
(***************************************************************************)
(* What telemetry promises about each event, whatever buffers and retries  *)
(* lie in between: it is accepted once, is then pending until the control  *)
(* plane acknowledges it or it is given up, and neither outcome is ever    *)
(* taken back.  An acknowledged event never becomes pending again, so it   *)
(* is never sent again; no pending event vanishes without being counted.   *)
(***************************************************************************)
CONSTANT Events

VARIABLE status

Init == status = [e \in Events |-> "new"]

With(s) == {e \in Events : status[e] = s}

Become(S, s) == [e \in Events |-> IF e \in S THEN s ELSE status[e]]

\* A full buffer gives up pending events as it accepts a new one.
Accept(e, given) ==
  /\ e \in With("new")
  /\ given \subseteq With("pending")
  /\ status' = [Become(given, "lost") EXCEPT ![e] = "pending"]

Acknowledge(S) == S \subseteq With("pending") /\ status' = Become(S, "acked")

GiveUp(S) == S \subseteq With("pending") /\ status' = Become(S, "lost")

Next ==
  \/ \E e \in Events, given \in SUBSET Events : Accept(e, given)
  \/ \E S \in SUBSET Events : Acknowledge(S) \/ GiveUp(S)

Spec == Init /\ [][Next]_status
=============================================================================
