---------------------------- MODULE AgentProcess ----------------------------
(***************************************************************************)
(* main of the agent (agent/main.cpp) from its configuration to the        *)
(* destructors, with what it owns: Configuration, Sensors, and Inference   *)
(* in the controller.  The telemetry thread collects, the control loop     *)
(* infers; how they are asked to stop is the subject of AgentThreads.      *)
(***************************************************************************)
EXTENDS Configuration, Inference, Sensors

CONSTANTS
    ModelFiles, \* the paths, as values, where there is a model
    Levels      \* the names of the log levels

VARIABLES
    at,      \* where main is
    level,   \* the log level
    running  \* g_running

ASSUME LevelsAssumption == "info" \in Levels

vars == <<configVars, handleVars, inferenceVars, sensorVars, at, level, running>>

TypeOK ==
    /\ at \in {"file", "lines", "level", "construct", "start", "running",
               "stopped", "ended"}
    /\ Len(read) <= MaxLines
    /\ level \in Levels
    /\ running \in BOOLEAN
    /\ HandleTypeOK
    /\ InferenceTypeOK
    /\ SensorsTypeOK

Init ==
    /\ ConfigInit /\ HandleInit /\ InferenceInit /\ SensorsInit
    /\ at = "file"
    /\ level = "info"
    /\ running = TRUE

(***************************************************************************)
(* The configuration.                                                      *)
(***************************************************************************)
Goes(from, to) == at = from /\ at' = to

OthersUnchanged == UNCHANGED <<handleVars, inferenceVars, sensorVars, running>>

\* The file is opened, or is not there.
Open ==
    /\ at = "file"
    /\ at' \in {"lines", "construct"}
    /\ UNCHANGED <<configVars, level>> /\ OthersUnchanged

ReadsLine ==
    /\ Goes("lines", "lines")
    /\ ReadLine
    /\ level' = level /\ OthersUnchanged

Loads ==
    /\ Goes("lines", "level")
    /\ LoadFromFile
    /\ level' = level /\ OthersUnchanged

\* Fault: the level is what the file says.
LevelAsSaid(said) == IF said.text = "" THEN "info" ELSE said.text

\* What is no level leaves INFO.
LevelOf(said) ==
    IF ~said.more /\ Lower[said.text] \in Levels THEN Lower[said.text] ELSE "info"

\* main reads the file again, for the level.  What was read is forgotten.
SetsLevel ==
    /\ Goes("level", "construct")
    /\ level' = IF Level \in DOMAIN values THEN LevelOf(values[Level]) ELSE "info"
    /\ read' = <<>> /\ section' = "" /\ values' = Nothing
    /\ cfg' = cfg /\ OthersUnchanged

(***************************************************************************)
(* The objects and the threads.                                            *)
(***************************************************************************)
Constructs ==
    /\ Goes("construct", "start")
    /\ InferenceManager(cfg[Model] \in ModelFiles)
    /\ UNCHANGED <<configVars, sensorVars, level, running>>

Starts ==
    /\ Goes("start", "running")
    /\ SensorsStart
    /\ UNCHANGED <<configVars, inferenceVars, level, running>>

\* The telemetry thread
Collects ==
    /\ Goes("running", "running")
    /\ (running /\ CollectBegins) \/ CollectReads
    /\ UNCHANGED <<configVars, handleVars, inferenceVars, level, running>>

\* The control loop
Infers ==
    /\ Goes("running", "running")
    /\ (running /\ RunInference) \/ RunReturns
    /\ UNCHANGED <<configVars, handleVars, sensorVars, level, running>>

\* However the shutdown begins
Quits ==
    /\ Goes("running", "running")
    /\ running' = FALSE
    /\ UNCHANGED <<configVars, handleVars, inferenceVars, sensorVars, level>>

\* Both threads have been joined; sensors.stop()
Stops ==
    /\ Goes("running", "stopped")
    /\ ~running /\ reading = 0 /\ ~inferring
    /\ SensorsStop
    /\ UNCHANGED <<configVars, inferenceVars, level, running>>

\* main returns: the destructors of the controller and of the sensors, which
\* stop again
Returns ==
    /\ Goes("stopped", "ended")
    /\ Close(Owner)
    /\ UNCHANGED <<configVars, inferenceVars, sensorVars, level, running>>

\* The process may also end at any step, of an exception, a crash or killed:
\* Windows closes what it left open.
Ended == at = "ended" /\ UNCHANGED vars

Next ==
    \/ Open \/ ReadsLine \/ Loads \/ SetsLevel \/ Constructs \/ Starts
    \/ Collects \/ Infers \/ Quits \/ Stops \/ Returns \/ Ended

Spec == Init /\ [][Next]_vars

(***************************************************************************)
(* Properties.                                                             *)
(***************************************************************************)

\* Every handle is closed exactly once, although the sensors are stopped by
\* main and by their destructor, and whichever of the calls that get them
\* fail; and the request asks for execution during an inference only, also
\* if the inference fails, so that the machine may sleep between two.
Released ==
    /\ Owned
    /\ asserted => inferring /\ Valid("request")
    /\ at = "ended" => \A w \in Owner : open[w] = 0
==============================================================================
