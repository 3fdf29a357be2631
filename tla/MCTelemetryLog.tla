---------------------------- MODULE MCTelemetryLog ----------------------------
(* Instances of TelemetryLog for TLC. *)
EXTENDS TelemetryLog

AnyNumber == 0..LastFile
AnyCall == Calls
==============================================================================
