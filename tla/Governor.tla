------------------------------- MODULE Governor -------------------------------
(***************************************************************************)
(* The process governor (agent/governor.cpp): scan after scan it puts      *)
(* limits on every process that is neither in the foreground nor excluded, *)
(* and takes them off a process that has come to the foreground.  While a  *)
(* scan goes through its list, the user switches windows and processes     *)
(* start and end.  No scan begins while the machine is suspended or saves  *)
(* its battery.                                                            *)
(*                                                                         *)
(* Limits (EcoQoS, memory priority, CPU sets, priority class) go together  *)
(* and end with the process; a process is its PID and its executable.      *)
(***************************************************************************)
EXTENDS Naturals

CONSTANTS
    Pids,    \* the PIDs there are
    Nobody,  \* PID 0: no window in the foreground; no handle
    Failing  \* the calls that may fail

ASSUME GovernorAssumption ==
    /\ Nobody \notin Pids
    /\ Failing \subseteq {"snapshot", "list", "open", "restore", "limit"}

VARIABLES
    proc,     \* each PID's process, by its executable
    front,    \* the PID of the foreground window
    paused,   \* g_suspended or g_battery_saver
    limited,  \* the PIDs whose process bears the limits
    lastSeen, \* m_last_foreground_pid
    at,       \* where govern is
    seen,     \* foreground_pid
    moved,    \* foreground_changed
    listed,   \* what is left of the list, each PID's executable as of its making
    opened,   \* the process govern holds a handle of, to limit it
    missed,   \* the arrival in the foreground that a failed call has lost,
    recycled, \* the excluded processes that got the PID of an ordinary one in the
              \* list, and
    inherited \* those with the limits of an agent that had another exclusion list;
              \* for the properties only

environmentVars == <<proc, front, paused>>
scanVars == <<at, seen, moved, listed, opened>>
pidVars == <<recycled, inherited>>
vars == <<environmentVars, limited, lastSeen, scanVars, missed, pidVars>>

\* Executables, by whether their name is on the exclusion list
Executables == {"excluded", "ordinary"}
Processes == [Pids -> Executables \union {"none"}]
Unlisted == [p \in Pids |-> "none"]

Alive == {p \in Pids : proc[p] # "none"}
Listed == {p \in Pids : listed[p] # "none"}

TypeOK ==
    /\ proc \in Processes
    /\ front \in Alive \union {Nobody}
    /\ paused \in BOOLEAN
    /\ limited \subseteq Alive
    /\ lastSeen \in Pids \union {Nobody}
    /\ at \in {"idle", "sampled", "list", "limit"}
    /\ seen \in Pids \union {Nobody}
    /\ moved \in BOOLEAN
    /\ listed \in Processes
    /\ opened \in Pids \union {Nobody}
    /\ missed \in Pids \union {Nobody}
    /\ recycled \subseteq Alive
    /\ inherited \subseteq limited
    /\ at = "limit" <=> opened # Nobody
    /\ at # "list" /\ at # "limit" => Listed = {}

\* The governor is constructed; an agent before it has left its limits where
\* they were.
Init ==
    /\ proc \in Processes
    /\ front \in Alive \union {Nobody}
    /\ paused \in BOOLEAN
    /\ limited \in SUBSET Alive
    /\ inherited = {p \in limited : proc[p] = "excluded"}
    /\ lastSeen = Nobody
    /\ at = "idle" /\ seen = Nobody /\ moved = FALSE
    /\ listed = Unlisted /\ opened = Nobody
    /\ missed = Nobody
    /\ recycled = {}

(***************************************************************************)
(* govern.                                                                 *)
(***************************************************************************)
Succeeds(call) == IF call \in Failing THEN BOOLEAN ELSE {TRUE}

\* OpenProcess, of whatever process has the PID by now
OpenResults(p) == IF p \in Alive THEN Succeeds("open") ELSE {FALSE}

Returns ==
    /\ at' = "idle" /\ seen' = Nobody /\ moved' = FALSE
    /\ listed' = Unlisted /\ opened' = Nobody

\* Fault: the last PID is updated before it is compared.
GovernSampleUpdatesFirst ==
    /\ at = "idle" /\ ~paused
    /\ at' = "sampled"
    /\ seen' = front
    /\ lastSeen' = front
    /\ moved' = (front # lastSeen')
    /\ missed' = Nobody
    /\ UNCHANGED <<environmentVars, limited, listed, opened, pidVars>>

\* governor_thread begins a scan: GetForegroundWindow; a change is noted at once
\* and acted on later.
GovernSample ==
    /\ at = "idle" /\ ~paused
    /\ at' = "sampled"
    /\ seen' = front
    /\ moved' = (front # lastSeen)
    /\ lastSeen' = front
    /\ missed' = IF moved' THEN Nobody ELSE missed
    /\ UNCHANGED <<environmentVars, limited, listed, opened, pidVars>>

\* CreateToolhelp32Snapshot
GovernSnapshot ==
    /\ at = "sampled"
    /\ at' = "list"
    /\ listed' = proc
    /\ UNCHANGED <<environmentVars, limited, lastSeen, seen, moved, opened, missed,
                   pidVars>>

\* if (!hSnapshot) return;
GovernSnapshotFails ==
    /\ at = "sampled"
    /\ FALSE \in Succeeds("snapshot")
    /\ missed' = IF moved THEN seen ELSE missed
    /\ Returns
    /\ UNCHANGED <<environmentVars, limited, lastSeen, pidVars>>

\* The entry p of the list is dealt with.
Passed(p) == listed' = [listed EXCEPT ![p] = "none"]

\* The foreground's entry: a process that is new there gets its limits
\* taken off.
GovernForeground(p) ==
    /\ at = "list" /\ p \in Listed
    /\ p = seen
    /\ \E openOk \in OpenResults(p), restoreOk \in Succeeds("restore") :
          LET ok == openOk /\ restoreOk
              restored == IF moved /\ ok THEN {p} ELSE {}
          IN  /\ limited' = limited \ restored
              /\ inherited' = inherited \ restored
              /\ missed' = IF moved /\ ~ok THEN p ELSE missed
    /\ Passed(p)
    /\ UNCHANGED <<environmentVars, lastSeen, at, seen, moved, opened, recycled>>

\* The exclusion list
GovernExcluded(p) ==
    /\ at = "list" /\ p \in Listed
    /\ p # seen
    /\ listed[p] = "excluded"
    /\ Passed(p)
    /\ UNCHANGED <<environmentVars, limited, lastSeen, at, seen, moved, opened,
                   missed, pidVars>>

\* Fault: the foreground is looked up again for each entry.
GovernOpenLooksAgain(p) ==
    /\ at = "list" /\ p \in Listed
    /\ p # front
    /\ listed[p] = "ordinary"
    /\ \E ok \in OpenResults(p) :
          IF ok THEN at' = "limit" /\ opened' = p ELSE UNCHANGED <<at, opened>>
    /\ Passed(p)
    /\ UNCHANGED <<environmentVars, limited, lastSeen, seen, moved, missed, pidVars>>

\* Fault: names are compared as they are written, and do not match.
GovernOpenAny(p) ==
    /\ at = "list" /\ p \in Listed
    /\ p # seen
    /\ \E ok \in OpenResults(p) :
          IF ok THEN at' = "limit" /\ opened' = p ELSE UNCHANGED <<at, opened>>
    /\ Passed(p)
    /\ UNCHANGED <<environmentVars, limited, lastSeen, seen, moved, missed, pidVars>>

\* Any other: it is opened, if that can be done.
GovernOpen(p) ==
    /\ at = "list" /\ p \in Listed
    /\ p # seen
    /\ listed[p] = "ordinary"
    /\ \E ok \in OpenResults(p) :
          IF ok THEN at' = "limit" /\ opened' = p ELSE UNCHANGED <<at, opened>>
    /\ Passed(p)
    /\ UNCHANGED <<environmentVars, limited, lastSeen, seen, moved, missed, pidVars>>

\* Fault: a process that has ended meanwhile is limited by its PID.
GovernLimitByPid ==
    /\ at = "limit"
    /\ limited' = limited \union {opened}
    /\ at' = "list"
    /\ opened' = Nobody
    /\ UNCHANGED <<environmentVars, lastSeen, seen, moved, listed, missed, pidVars>>

\* apply_limits; it is of no use if the process has ended.
GovernLimit ==
    /\ at = "limit"
    /\ \E ok \in Succeeds("limit") :
          limited' = IF ok THEN limited \union ({opened} \intersect Alive) ELSE limited
    /\ at' = "list"
    /\ opened' = Nobody
    /\ UNCHANGED <<environmentVars, lastSeen, seen, moved, listed, missed, pidVars>>

\* Process32First or Process32Next has no more; that it has failed looks no
\* different.
GovernEnd ==
    /\ at = "list"
    /\ Listed = {} \/ FALSE \in Succeeds("list")
    /\ missed' = IF moved /\ seen \in Listed THEN seen ELSE missed
    /\ Returns
    /\ UNCHANGED <<environmentVars, limited, lastSeen, pidVars>>

(***************************************************************************)
(* The user and the other processes.                                       *)
(***************************************************************************)
SwitchWindow ==
    /\ front' \in (Alive \union {Nobody}) \ {front}
    /\ UNCHANGED <<proc, paused, limited, lastSeen, scanVars, missed, pidVars>>

\* The machine is suspended or resumes; the battery saver comes on or goes off.
PauseOrResume ==
    /\ paused' = ~paused
    /\ UNCHANGED <<proc, front, limited, lastSeen, scanVars, missed, pidVars>>

\* A PID is not given out while a handle keeps the old process.
ProcessStarts(p) ==
    /\ proc[p] = "none" /\ p # opened
    /\ \E e \in Executables :
          /\ proc' = [proc EXCEPT ![p] = e]
          /\ recycled' = IF e = "excluded" /\ listed[p] = "ordinary"
                         THEN recycled \union {p} ELSE recycled
    /\ UNCHANGED <<front, paused, limited, lastSeen, scanVars, missed, inherited>>

ProcessEnds(p) ==
    /\ p \in Alive
    /\ proc' = [proc EXCEPT ![p] = "none"]
    /\ limited' = limited \ {p}
    /\ recycled' = recycled \ {p} /\ inherited' = inherited \ {p}
    /\ front' \in IF front = p THEN (Alive \ {p}) \union {Nobody} ELSE {front}
    /\ UNCHANGED <<paused, lastSeen, scanVars, missed>>

(***************************************************************************)
(* The specification.                                                      *)
(***************************************************************************)
GovernNext ==
    \/ GovernSample \/ GovernSnapshot \/ GovernSnapshotFails
    \/ \E p \in Pids : GovernForeground(p) \/ GovernExcluded(p) \/ GovernOpen(p)
    \/ GovernLimit \/ GovernEnd

EnvironmentNext ==
    \/ SwitchWindow \/ PauseOrResume
    \/ \E p \in Pids : ProcessStarts(p) \/ ProcessEnds(p)

Next == GovernNext \/ EnvironmentNext

\* governor_thread runs, and takes another look at the two flags after each
\* interval: it goes on with a scan, and begins one unless paused.
Spec == Init /\ [][Next]_vars /\ WF_vars(GovernNext)

(***************************************************************************)
(* Properties.                                                             *)
(***************************************************************************)

\* "These processes will never be throttled or moved to E-cores"
\* (nanoloop_config.ini): an excluded process never bears the limits, unless
\* it was given the PID of one the scan had listed under another name, or has
\* them from an earlier agent with another list.
ExcludedSpared ==
    \A p \in limited : proc[p] = "excluded" => p \in recycled \union inherited

\* Between two scans the process that m_last_foreground_pid says was restored
\* does not bear the limits, however the user switched during the scans and
\* whatever the PIDs: only a call that failed on its arrival can have lost it.
\* If it did, the next scans, seeing no change, would not restore it.
CacheTruthful == at = "idle" /\ lastSeen \in limited => lastSeen = missed

\* A process that stays in the foreground is free of the limits in the end, with
\* the same exception, if pausing comes to an end: however long the machine was
\* paused, and whatever the user did then, the change is noticed after it.
ForegroundFreed ==
    \A p \in Pids :
        <>[](front = p /\ missed # p /\ ~paused) => <>[](p \notin limited)
==============================================================================
