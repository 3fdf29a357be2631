------------------------------ MODULE Supervisor ------------------------------
(***************************************************************************)
(* What the watchdog promises, without its threads, timers and shared      *)
(* memory: it runs one agent at a time, ends when the agent has, as far as *)
(* it knows, ended well, and starts a failed agent again at most           *)
(* MaxRecoveries times, each time from a machine put back on the fail-safe *)
(* power scheme.  Watchdog implements this specification.                  *)
(***************************************************************************)
EXTENDS Naturals

CONSTANTS
    MaxRecoveries, \* config::MAX_RECOVERY_ATTEMPTS, a natural number
    LaunchMayFail, \* the agent's process may fail to start, a Boolean
    ResetMayFail,  \* the power scheme may fail to be set, a Boolean
    VerdictMayFail \* how an agent ended may not be learnt, a Boolean

VARIABLES
    phase,  \* what the watchdog is up to
    agent,  \* the agent's process, or how it ended
    failures, \* failed runs of the agent so far
    safe    \* the fail-safe scheme was set and no agent has run since

supVars == <<phase, agent, failures, safe>>

SupTypeOK ==
    /\ phase \in {"launching", "supervising", "finished", "gaveUp"}
    /\ agent \in {"none", "running", "clean", "failed"}
    /\ failures \in 0..MaxRecoveries + 1
    /\ safe \in BOOLEAN

SupInit ==
    /\ phase = "launching"
    /\ agent = "none"
    /\ failures = 0
    /\ safe = FALSE

Launch ==
    /\ phase = "launching"
    /\ phase' = "supervising"
    /\ agent' = "running"
    /\ safe' = FALSE
    /\ UNCHANGED failures

LaunchFails ==
    /\ LaunchMayFail
    /\ phase = "launching"
    /\ phase' = "gaveUp"
    /\ UNCHANGED <<agent, failures, safe>>

\* By itself, or because the watchdog terminates it.
AgentEnds ==
    /\ agent = "running"
    /\ agent' \in {"clean", "failed"}
    /\ UNCHANGED <<phase, failures, safe>>

\* A failed agent, too, if the watchdog cannot tell.
Conclude ==
    /\ phase = "supervising"
    /\ agent = "clean" \/ (VerdictMayFail /\ agent = "failed")
    /\ phase' = "finished"
    /\ UNCHANGED <<agent, failures, safe>>

Recover ==
    /\ phase = "supervising"
    /\ agent = "failed"
    /\ failures' = failures + 1
    /\ phase' = IF failures' > MaxRecoveries THEN "gaveUp" ELSE "launching"
    /\ \/ safe' = TRUE
       \/ ResetMayFail /\ safe' = FALSE
    /\ UNCHANGED agent

SupNext == Launch \/ LaunchFails \/ AgentEnds \/ Conclude \/ Recover

\* What must never happen does not.
SupSafety == SupInit /\ [][SupNext]_supVars

\* The agent may run for ever; the watchdog does what it has to.
SupSpec ==
    /\ SupSafety
    /\ WF_supVars(Launch \/ LaunchFails)
    /\ WF_supVars(Conclude)
    /\ WF_supVars(Recover)
==============================================================================
