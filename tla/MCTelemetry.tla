---------------------------- MODULE MCTelemetry ----------------------------
(* Instances of Telemetry for TLC: detections d1, d2, ... and usage events. *)
EXTENDS Telemetry
=============================================================================
