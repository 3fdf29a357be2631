---------------------------- MODULE MCAgentThreads ----------------------------
(***************************************************************************)
(* The control loop and one of the workers that pause, for TLC.  The other *)
(* pausing worker, the governor thread, is the telemetry thread over again *)
(* as far as the shutdown goes.                                            *)
(***************************************************************************)
EXTENDS AgentThreads

TwoWorkers == {"telemetry", "ai"}
==============================================================================
