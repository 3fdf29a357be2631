---------------------------- MODULE MCTagDatabase ----------------------------
(****************************************************************************)
(* Instance of TagDatabase for TLC: two groups of the telemetry thread, one *)
(* of two tags that are set together, and the hook's.                       *)
(****************************************************************************)
EXTENDS TagDatabase

PairTags == <<"CPU_Frequency_Avg", "CPU_Thermal_Limit", "Timer_Pollution",
              "Foreground_App_Hash">>
PairCollected == << <<"CPU_Frequency_Avg", "CPU_Thermal_Limit">>,
                    <<"Timer_Pollution">> >>
==============================================================================
