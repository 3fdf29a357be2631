---------------------------- MODULE GovernorProofs ----------------------------
(***************************************************************************)
(* Safety of the process governor, for any set of PIDs, whatever calls     *)
(* fail and however the user switches windows, the machine is paused and   *)
(* processes come and go while a scan goes through its list.               *)
(***************************************************************************)
EXTENDS Governor, TLAPS

(***************************************************************************)
(* Types.                                                                  *)
(***************************************************************************)

\* The governor starts well-typed.
LEMMA TypeInit == Init => TypeOK
<1>. SUFFICES ASSUME Init PROVE TypeOK
  OBVIOUS
<1>1. moved \in BOOLEAN /\ paused \in BOOLEAN
  BY Zenon DEF Init
<1>2. listed \in Processes /\ Listed = {}
  BY DEF Init, Unlisted, Processes, Listed
<1>. QED
  BY <1>1, <1>2 DEF Init, TypeOK, Alive

\* A step of the governor keeps the types.
LEMMA GovernTypeStep ==
    ASSUME TypeOK, GovernNext
    PROVE  TypeOK'
<1>. USE GovernorAssumption DEF TypeOK, environmentVars, pidVars, Alive, Listed, Processes
<1>1. CASE GovernSample
  <2>1. moved' \in BOOLEAN  BY Zenon, <1>1 DEF GovernSample
  <2>. QED  BY <1>1, <2>1 DEF GovernSample
<1>2. CASE GovernSnapshot  BY <1>2 DEF GovernSnapshot
<1>3. CASE GovernSnapshotFails
  BY <1>3 DEF GovernSnapshotFails, Returns, Unlisted
<1>4. ASSUME NEW p \in Pids, GovernForeground(p) PROVE TypeOK'
  BY <1>4 DEF GovernForeground, Passed
<1>5. ASSUME NEW p \in Pids, GovernExcluded(p) PROVE TypeOK'
  BY <1>5 DEF GovernExcluded, Passed
<1>6. ASSUME NEW p \in Pids, GovernOpen(p) PROVE TypeOK'
  BY <1>6 DEF GovernOpen, Passed
<1>7. CASE GovernLimit  BY <1>7 DEF GovernLimit
<1>8. CASE GovernEnd  BY <1>8 DEF GovernEnd, Returns, Unlisted
<1>. QED
  BY <1>1, <1>2, <1>3, <1>4, <1>5, <1>6, <1>7, <1>8 DEF GovernNext

\* So does a step of the user or of another process.
LEMMA EnvironmentTypeStep ==
    ASSUME TypeOK, EnvironmentNext
    PROVE  TypeOK'
<1>. USE GovernorAssumption DEF TypeOK, scanVars, pidVars, Alive, Listed, Processes, Executables
<1>1. CASE SwitchWindow  BY <1>1 DEF SwitchWindow
<1>2. CASE PauseOrResume
  <2>1. paused' \in BOOLEAN  BY Zenon, <1>2 DEF PauseOrResume
  <2>. QED  BY <1>2, <2>1 DEF PauseOrResume
<1>3. ASSUME NEW p \in Pids, ProcessStarts(p) PROVE TypeOK'
  BY <1>3 DEF ProcessStarts
<1>4. ASSUME NEW p \in Pids, ProcessEnds(p) PROVE TypeOK'
  BY <1>4 DEF ProcessEnds
<1>. QED  BY <1>1, <1>2, <1>3, <1>4 DEF EnvironmentNext

\* So does every step.
LEMMA TypeStep ==
    ASSUME TypeOK, [Next]_vars
    PROVE  TypeOK'
<1>1. CASE UNCHANGED vars
  BY <1>1 DEF vars, environmentVars, pidVars, scanVars, TypeOK, Alive, Listed
<1>. QED
  BY <1>1, GovernTypeStep, EnvironmentTypeStep DEF Next

\* Every variable of the governor's model keeps its type; in particular the
\* limits are on live processes only, and the list is empty outside a scan.
THEOREM GovernorTypeCorrect == Spec => []TypeOK
BY TypeInit, TypeStep, PTL DEF Spec

(***************************************************************************)
(* The exclusion list.  A process that this governor has put limits on, or *)
(* is about to, is ordinary or has taken over the PID of one that was: for *)
(* what is left of the list and for the open handle the same is known as   *)
(* for the limits.                                                         *)
(***************************************************************************)
ExclusionInv ==
    /\ ExcludedSpared
    /\ \A p \in Pids : listed[p] = "ordinary" /\ proc[p] = "excluded" => p \in recycled
    /\ opened # Nobody /\ proc[opened] = "excluded" => opened \in recycled

\* A step of the governor spares the excluded processes.
LEMMA GovernExclusionStep ==
    ASSUME TypeOK, ExclusionInv, GovernNext
    PROVE  ExclusionInv'
<1>. USE GovernorAssumption
     DEF TypeOK, ExclusionInv, ExcludedSpared, environmentVars, pidVars, Alive, Listed, Processes
<1>1. CASE GovernSample  BY <1>1 DEF GovernSample
<1>2. CASE GovernSnapshot  BY <1>2 DEF GovernSnapshot
<1>3. CASE GovernSnapshotFails
  BY <1>3 DEF GovernSnapshotFails, Returns, Unlisted
<1>4. ASSUME NEW p \in Pids, GovernForeground(p) PROVE ExclusionInv'
  BY <1>4 DEF GovernForeground, Passed
<1>5. ASSUME NEW p \in Pids, GovernExcluded(p) PROVE ExclusionInv'
  BY <1>5 DEF GovernExcluded, Passed
<1>6. ASSUME NEW p \in Pids, GovernOpen(p) PROVE ExclusionInv'
  BY <1>6 DEF GovernOpen, Passed
<1>7. CASE GovernLimit  BY <1>7 DEF GovernLimit
<1>8. CASE GovernEnd  BY <1>8 DEF GovernEnd, Returns, Unlisted
<1>. QED
  BY <1>1, <1>2, <1>3, <1>4, <1>5, <1>6, <1>7, <1>8 DEF GovernNext

\* So does a step of the user or of another process.
LEMMA EnvironmentExclusionStep ==
    ASSUME TypeOK, ExclusionInv, EnvironmentNext
    PROVE  ExclusionInv'
<1>. USE GovernorAssumption
     DEF TypeOK, ExclusionInv, ExcludedSpared, scanVars, pidVars, Alive, Listed, Processes
<1>1. CASE SwitchWindow  BY <1>1 DEF SwitchWindow
<1>2. CASE PauseOrResume  BY <1>2 DEF PauseOrResume
<1>3. ASSUME NEW p \in Pids, ProcessStarts(p) PROVE ExclusionInv'
  BY <1>3 DEF ProcessStarts
<1>4. ASSUME NEW p \in Pids, ProcessEnds(p) PROVE ExclusionInv'
  BY <1>4 DEF ProcessEnds
<1>. QED  BY <1>1, <1>2, <1>3, <1>4 DEF EnvironmentNext

\* An excluded process never bears the limits, unless it took over the PID of
\* an ordinary one while the scan still had that one in its list, or an earlier
\* agent, with another list, has left the limits on it.
THEOREM ExcludedAreSpared == Spec => []ExcludedSpared
<1>1. Init => ExclusionInv
  BY GovernorAssumption DEF Init, ExclusionInv, ExcludedSpared, Listed, Unlisted
<1>2. TypeOK /\ ExclusionInv /\ UNCHANGED vars => ExclusionInv'
  BY DEF vars, environmentVars, pidVars, scanVars, ExclusionInv, ExcludedSpared, Listed
<1>3. TypeOK /\ ExclusionInv /\ [Next]_vars => ExclusionInv'
  BY <1>2, GovernExclusionStep, EnvironmentExclusionStep DEF Next
<1>4. ExclusionInv => ExcludedSpared
  BY DEF ExclusionInv
<1>. QED  BY <1>1, <1>3, <1>4, TypeInit, TypeStep, PTL DEF Spec

(***************************************************************************)
(* The process last seen in the foreground.  It is the one the scan has    *)
(* sampled; until the scan has dealt with its entry it may still bear the  *)
(* limits, if it is new there.  Nothing the scan limits is that process.   *)
(***************************************************************************)
CacheInv ==
    /\ at = "idle" => ~moved
    /\ at # "idle" => lastSeen = seen
    /\ opened # Nobody => opened # seen
    /\ \/ lastSeen \notin limited
       \/ lastSeen = missed
       \/ moved /\ (at = "sampled" \/ lastSeen \in Listed)

\* A step of the governor keeps what it remembers of the foreground right.
LEMMA GovernCacheStep ==
    ASSUME TypeOK, CacheInv, GovernNext
    PROVE  CacheInv'
<1>. USE GovernorAssumption
     DEF TypeOK, CacheInv, environmentVars, pidVars, Alive, Listed, Processes
<1>1. CASE GovernSample  BY <1>1 DEF GovernSample
<1>2. CASE GovernSnapshot  BY <1>2 DEF GovernSnapshot
<1>3. CASE GovernSnapshotFails
  BY <1>3 DEF GovernSnapshotFails, Returns, Unlisted
<1>4. ASSUME NEW p \in Pids, GovernForeground(p) PROVE CacheInv'
  BY <1>4 DEF GovernForeground, Passed
<1>5. ASSUME NEW p \in Pids, GovernExcluded(p) PROVE CacheInv'
  BY <1>5 DEF GovernExcluded, Passed
<1>6. ASSUME NEW p \in Pids, GovernOpen(p) PROVE CacheInv'
  BY <1>6 DEF GovernOpen, Passed
<1>7. CASE GovernLimit  BY <1>7 DEF GovernLimit
<1>8. CASE GovernEnd  BY <1>8 DEF GovernEnd, Returns, Unlisted
<1>. QED
  BY <1>1, <1>2, <1>3, <1>4, <1>5, <1>6, <1>7, <1>8 DEF GovernNext

\* So does a step of the user or of another process.
LEMMA EnvironmentCacheStep ==
    ASSUME TypeOK, CacheInv, EnvironmentNext
    PROVE  CacheInv'
<1>. USE GovernorAssumption
     DEF TypeOK, CacheInv, scanVars, pidVars, Alive, Listed, Processes
<1>1. CASE SwitchWindow  BY <1>1 DEF SwitchWindow
<1>2. CASE PauseOrResume  BY <1>2 DEF PauseOrResume
<1>3. ASSUME NEW p \in Pids, ProcessStarts(p) PROVE CacheInv'
  BY <1>3 DEF ProcessStarts
<1>4. ASSUME NEW p \in Pids, ProcessEnds(p) PROVE CacheInv'
  BY <1>4 DEF ProcessEnds
<1>. QED  BY <1>1, <1>2, <1>3, <1>4 DEF EnvironmentNext

\* Between two scans the process m_last_foreground_pid names is free of the
\* limits, unless a failed call lost its arrival, whatever the user does.
THEOREM CacheIsTruthful == Spec => []CacheTruthful
<1>1. Init => CacheInv
  BY GovernorAssumption DEF Init, CacheInv, Alive
<1>2. TypeOK /\ CacheInv /\ UNCHANGED vars => CacheInv'
  BY DEF vars, environmentVars, pidVars, scanVars, CacheInv, Listed
<1>3. TypeOK /\ CacheInv /\ [Next]_vars => CacheInv'
  BY <1>2, GovernCacheStep, EnvironmentCacheStep DEF Next
<1>4. CacheInv => CacheTruthful
  BY DEF CacheInv, CacheTruthful
<1>. QED  BY <1>1, <1>3, <1>4, TypeInit, TypeStep, PTL DEF Spec
==============================================================================
