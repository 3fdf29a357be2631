---------------------------- MODULE MCPowerSchemes ----------------------------
(* Instances of PowerSchemes for TLC. *)
EXTENDS PowerSchemes

OneParam == <<"PerformanceBoost">>

\* In halves of a step: below the scale, within a step, above the scale
OnAndOffTheScale == {-1, 3, 5}
==============================================================================
