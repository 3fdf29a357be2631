---------------------------- MODULE WatchdogProofs ----------------------------
(***************************************************************************)
(* Theorems about Watchdog for every value of its constants.  A step lemma *)
(* has one case for each action of Next; the inductive invariants are      *)
(* TypeInv, PlacesInv, SafeInv and TimingInv, each on top of the first.    *)
(***************************************************************************)
EXTENDS Watchdog, TLAPS

\* The assumptions on the constants, one by one.
LEMMA Constants ==
    /\ PollPeriod \in Nat /\ DelayLimit \in Nat /\ Cooldown \in Nat
    /\ OpenWait \in Nat /\ Interval \in Nat /\ YieldWait \in Nat
    /\ MonitorLate \in Nat /\ AgentLate \in Nat /\ MaxRecoveries \in Nat
    /\ StaleTimeout \in Nat /\ StaleTimeout > 0 /\ Horizon \in Nat
    /\ StaleTimeout < Horizon
    /\ OpenWait + MonitorLate < Horizon /\ PollPeriod + MonitorLate < Horizon
    /\ Interval + AgentLate < Horizon /\ YieldWait + AgentLate < Horizon
    /\ \A d \in SuspendLengths : d \in Nat
BY HeartbeatAssumption, WatchdogAssumption DEF HeartbeatAssumption, WatchdogAssumption

(***************************************************************************)
(* The type invariant.  The attempts stay in bounds because the watchdog   *)
(* gives up in the step that spends the last one.  Boolean variables and   *)
(* the others are treated apart.                                           *)
(***************************************************************************)
AttemptsLeft == main # "stop1" => recoveries <= MaxRecoveries

BooleansOK ==
    {ticked, active, cooling, hung, running, suspended, saver} \subseteq BOOLEAN

PlacesOK ==
    /\ writer \in Holding
    /\ reader \in Holding
    /\ main \in MainPlaces
    /\ mon \in MonitorPlaces
    /\ proc \in {"none", "alive", "clean", "failed"}
    /\ ctl \in CtlPlaces
    /\ scheme \in {"user", "nanoloop", "balanced"}

TimersOK ==
    /\ tickAge \in Age /\ seen \in Age /\ loopAge \in Age
    /\ monTimer \in Age /\ ctlTimer \in Age /\ backoffTimer \in Age
    /\ cooldown \in 0..Cooldown
    /\ recoveries \in 0..MaxRecoveries + 1

TypeInv == BooleansOK /\ PlacesOK /\ TimersOK /\ AttemptsLeft

\* TypeInv strengthens the type invariant.
LEMMA TypeInvType == TypeInv => TypeOK
BY DEF TypeInv, BooleansOK, PlacesOK, TimersOK, TypeOK, HeartbeatTypeOK

\* Watchdog starts well-typed.
LEMMA TypeInit == Init => TypeInv
<1>1. Init => BooleansOK
  BY DEF Init, HeartbeatInit, BooleansOK
<1>2. Init => PlacesOK
  BY DEF Init, HeartbeatInit, PlacesOK, Holding, MainPlaces, MonitorPlaces,
         MonitorBusy, CtlPlaces
<1>3. Init => TimersOK /\ AttemptsLeft
  BY Constants DEF Init, HeartbeatInit, TimersOK, AttemptsLeft, Age
<1>. QED  BY <1>1, <1>2, <1>3 DEF TypeInv

\* No step makes a flag anything but a flag.
LEMMA BooleansStep ==
    ASSUME TypeInv, [Next]_vars
    PROVE  BooleansOK'
<1>. USE DEF TypeInv, BooleansOK, heartbeatVars, monitorVars, agentVars, mainVars
<1>1. CASE MainLaunch  BY <1>1, Zenon DEF MainLaunch
<1>2. CASE MainLaunchFails  BY <1>2, Zenon DEF MainLaunchFails
<1>3. CASE MainNotice  BY <1>3, Zenon DEF MainNotice
<1>4. CASE MainJoin  BY <1>4, Zenon DEF MainJoin
<1>5. CASE MainFinish  BY <1>5, Zenon DEF MainFinish
<1>6. CASE MainRecover  BY <1>6, Zenon DEF MainRecover
<1>7. CASE MainRestart  BY <1>7, Zenon DEF MainRestart
<1>8. CASE MonitorOpen
BY <1>8, Zenon DEF MonitorOpen, ReaderOpen, SectionExists
<1>9. CASE MonitorGiveUp
BY <1>9, Zenon DEF MonitorGiveUp, MonitorReturns, ReaderClose, Released
<1>10. CASE MonitorTop
  <2>1. cooling' \in BOOLEAN  BY <1>10, Constants, SMT DEF MonitorTop, TimersOK
  <2>. QED  BY <1>10, <2>1 DEF MonitorTop
<1>11. CASE MonitorStopped
BY <1>11, Zenon DEF MonitorStopped, MonitorReturns, ReaderClose, Released
<1>12. CASE MonitorSeesExit
BY <1>12, Zenon DEF MonitorSeesExit, MonitorReturns, ReaderClose, Released
<1>13. CASE MonitorPoll  BY <1>13, Zenon DEF MonitorPoll, MonitorSleeps
<1>14. CASE MonitorLoad  BY <1>14, Zenon DEF MonitorLoad, MonitorSleeps
<1>15. CASE MonitorCompare  BY <1>15, Zenon DEF MonitorCompare, MonitorSleeps
<1>16. CASE MonitorKill
BY <1>16, Zenon DEF MonitorKill, MonitorReturns, AgentGone, Released
<1>17. CASE MonitorWake  BY <1>17, Zenon DEF MonitorWake
<1>18. CASE AgentInit  BY <1>18, Zenon DEF AgentInit
<1>19. CASE CtlBoot  BY <1>19, Zenon DEF CtlBoot, WriterOpen
<1>20. CASE CtlLoop  BY <1>20, Zenon DEF CtlLoop, CtlAwake
<1>21. CASE CtlReturn
BY <1>21, Zenon DEF CtlReturn, CtlAwake, WriterClose, Released
<1>22. CASE CtlTick  BY <1>22, Zenon DEF CtlTick, WriterTick
<1>23. CASE AgentExit  BY <1>23, Zenon DEF AgentExit, AgentGone
<1>24. CASE CtlHang  BY <1>24, Zenon DEF CtlHang
<1>25. CASE AgentCrash
BY <1>25, Zenon DEF AgentCrash, AgentGone, WriterClose, Released
<1>26. CASE AgentQuit  BY <1>26, Zenon DEF AgentQuit
<1>27. CASE WindowProcSuspend  BY <1>27, Zenon DEF WindowProcSuspend
<1>28. CASE WindowProcSaver  BY <1>28, Zenon DEF WindowProcSaver
<1>29. CASE Tick
BY <1>29, Zenon DEF Tick, ClockAdvance, TimersAdvance, Untimed
<1>30. CASE SystemSleep
BY <1>30, Zenon DEF SystemSleep, ClockAdvance, TimersAdvance, Untimed
<1>31. CASE UNCHANGED vars  BY <1>31 DEF vars
<1>. QED  BY <1>1, <1>2, <1>3, <1>4, <1>5, <1>6, <1>7, <1>8, <1>9, <1>10,
     <1>11, <1>12, <1>13, <1>14, <1>15, <1>16, <1>17, <1>18, <1>19, <1>20,
     <1>21, <1>22, <1>23, <1>24, <1>25, <1>26, <1>27, <1>28, <1>29, <1>30,
     <1>31 DEF Next, MainNext, MonitorNext, CtlNext, EnvNext

\* No step takes a thread, a process or a handle to an unknown place.
LEMMA PlacesStep ==
    ASSUME TypeInv, [Next]_vars
    PROVE  PlacesOK'
<1>. USE DEF TypeInv, PlacesOK, heartbeatVars, monitorVars, agentVars, mainVars,
             Holding, MainPlaces, MonitorPlaces, MonitorBusy, CtlPlaces
<1>1. CASE MainLaunch  BY <1>1 DEF MainLaunch
<1>2. CASE MainLaunchFails  BY <1>2 DEF MainLaunchFails
<1>3. CASE MainNotice  BY <1>3 DEF MainNotice
<1>4. CASE MainJoin  BY <1>4 DEF MainJoin
<1>5. CASE MainFinish  BY <1>5 DEF MainFinish
<1>6. CASE MainRecover  BY <1>6 DEF MainRecover
<1>7. CASE MainRestart  BY <1>7 DEF MainRestart
<1>8. CASE MonitorOpen  BY <1>8 DEF MonitorOpen, ReaderOpen, SectionExists
<1>9. CASE MonitorGiveUp
BY <1>9 DEF MonitorGiveUp, MonitorReturns, ReaderClose, Released
<1>10. CASE MonitorTop  BY <1>10 DEF MonitorTop
<1>11. CASE MonitorStopped
BY <1>11 DEF MonitorStopped, MonitorReturns, ReaderClose, Released
<1>12. CASE MonitorSeesExit
BY <1>12 DEF MonitorSeesExit, MonitorReturns, ReaderClose, Released
<1>13. CASE MonitorPoll  BY <1>13 DEF MonitorPoll, MonitorSleeps
<1>14. CASE MonitorLoad  BY <1>14 DEF MonitorLoad, MonitorSleeps
<1>15. CASE MonitorCompare  BY <1>15 DEF MonitorCompare, MonitorSleeps
<1>16. CASE MonitorKill
BY <1>16 DEF MonitorKill, MonitorReturns, AgentGone, Released
<1>17. CASE MonitorWake  BY <1>17 DEF MonitorWake
<1>18. CASE AgentInit  BY <1>18 DEF AgentInit
<1>19. CASE CtlBoot  BY <1>19 DEF CtlBoot, WriterOpen
<1>20. CASE CtlLoop  BY <1>20 DEF CtlLoop, CtlAwake
<1>21. CASE CtlReturn  BY <1>21 DEF CtlReturn, CtlAwake, WriterClose, Released
<1>22. CASE CtlTick  BY <1>22 DEF CtlTick, WriterTick
<1>23. CASE AgentExit  BY <1>23 DEF AgentExit, AgentGone
<1>24. CASE CtlHang  BY <1>24 DEF CtlHang
<1>25. CASE AgentCrash
BY <1>25 DEF AgentCrash, AgentGone, WriterClose, Released
<1>26. CASE AgentQuit  BY <1>26 DEF AgentQuit
<1>27. CASE WindowProcSuspend  BY <1>27 DEF WindowProcSuspend
<1>28. CASE WindowProcSaver  BY <1>28 DEF WindowProcSaver
<1>29. CASE Tick  BY <1>29 DEF Tick, ClockAdvance, TimersAdvance, Untimed
<1>30. CASE SystemSleep
BY <1>30 DEF SystemSleep, ClockAdvance, TimersAdvance, Untimed
<1>31. CASE UNCHANGED vars  BY <1>31 DEF vars
<1>. QED  BY <1>1, <1>2, <1>3, <1>4, <1>5, <1>6, <1>7, <1>8, <1>9, <1>10,
     <1>11, <1>12, <1>13, <1>14, <1>15, <1>16, <1>17, <1>18, <1>19, <1>20,
     <1>21, <1>22, <1>23, <1>24, <1>25, <1>26, <1>27, <1>28, <1>29, <1>30,
     <1>31 DEF Next, MainNext, MonitorNext, CtlNext, EnvNext

\* No step takes a timer, an age or the attempts out of bounds.
LEMMA TimersStep ==
    ASSUME TypeInv, [Next]_vars
    PROVE  TimersOK' /\ AttemptsLeft'
<1>. USE Constants DEF TypeInv, TimersOK, AttemptsLeft, Age, heartbeatVars,
                       monitorVars, agentVars, mainVars
<1>1. CASE MainLaunch  BY <1>1 DEF MainLaunch
<1>2. CASE MainLaunchFails  BY <1>2 DEF MainLaunchFails
<1>3. CASE MainNotice  BY <1>3 DEF MainNotice
<1>4. CASE MainJoin  BY <1>4 DEF MainJoin
<1>5. CASE MainFinish  BY <1>5 DEF MainFinish
<1>6. CASE MainRecover  BY <1>6 DEF MainRecover
<1>7. CASE MainRestart  BY <1>7 DEF MainRestart
<1>8. CASE MonitorOpen  BY <1>8 DEF MonitorOpen, ReaderOpen, SectionExists
<1>9. CASE MonitorGiveUp
BY <1>9 DEF MonitorGiveUp, MonitorReturns, ReaderClose, Released
<1>10. CASE MonitorTop  BY <1>10 DEF MonitorTop
<1>11. CASE MonitorStopped
BY <1>11 DEF MonitorStopped, MonitorReturns, ReaderClose, Released
<1>12. CASE MonitorSeesExit
BY <1>12 DEF MonitorSeesExit, MonitorReturns, ReaderClose, Released
<1>13. CASE MonitorPoll  BY <1>13 DEF MonitorPoll, MonitorSleeps
<1>14. CASE MonitorLoad  BY <1>14 DEF MonitorLoad, MonitorSleeps
<1>15. CASE MonitorCompare  BY <1>15 DEF MonitorCompare, MonitorSleeps
<1>16. CASE MonitorKill
BY <1>16 DEF MonitorKill, MonitorReturns, AgentGone, Released
<1>17. CASE MonitorWake  BY <1>17 DEF MonitorWake
<1>18. CASE AgentInit  BY <1>18 DEF AgentInit
<1>19. CASE CtlBoot  BY <1>19 DEF CtlBoot, WriterOpen
<1>20. CASE CtlLoop  BY <1>20 DEF CtlLoop, CtlAwake
<1>21. CASE CtlReturn  BY <1>21 DEF CtlReturn, CtlAwake, WriterClose, Released
<1>22. CASE CtlTick  BY <1>22 DEF CtlTick, WriterTick
<1>23. CASE AgentExit  BY <1>23 DEF AgentExit, AgentGone
<1>24. CASE CtlHang  BY <1>24 DEF CtlHang
<1>25. CASE AgentCrash
BY <1>25 DEF AgentCrash, AgentGone, WriterClose, Released
<1>26. CASE AgentQuit  BY <1>26 DEF AgentQuit
<1>27. CASE WindowProcSuspend  BY <1>27 DEF WindowProcSuspend
<1>28. CASE WindowProcSaver  BY <1>28 DEF WindowProcSaver
<1>29. CASE Tick
BY <1>29 DEF Tick, ClockAdvance, TimersAdvance, Untimed, Later
<1>30. CASE SystemSleep
BY <1>30 DEF SystemSleep, ClockAdvance, TimersAdvance, Untimed, Later
<1>31. CASE UNCHANGED vars  BY <1>31 DEF vars
<1>. QED  BY <1>1, <1>2, <1>3, <1>4, <1>5, <1>6, <1>7, <1>8, <1>9, <1>10,
     <1>11, <1>12, <1>13, <1>14, <1>15, <1>16, <1>17, <1>18, <1>19, <1>20,
     <1>21, <1>22, <1>23, <1>24, <1>25, <1>26, <1>27, <1>28, <1>29, <1>30,
     <1>31 DEF Next, MainNext, MonitorNext, CtlNext, EnvNext

\* Every variable of the watchdog and of the agent keeps its type, the
\* number of recoveries its bound MaxRecoveries + 1.
THEOREM TypeCorrect == Spec => []TypeOK
<1>1. TypeInv /\ [Next]_vars => TypeInv'
  BY BooleansStep, PlacesStep, TimersStep DEF TypeInv
<1>2. Spec => []TypeInv
  BY TypeInit, <1>1, PTL DEF Spec
<1>. QED  BY <1>2, TypeInvType, PTL

(***************************************************************************)
(* The section of a dead agent is gone before its successor starts: the    *)
(* reader lives no longer than its thread, the writer no longer than its   *)
(* process, and the main thread waits for both.                            *)
(***************************************************************************)
PlacesInv ==
    /\ proc # "alive" => writer = "none"
    /\ proc # "alive" <=> ctl = "none"
    /\ ctl = "done" => writer = "none"
    /\ mon \in {"off", "open", "done"} => reader = "none"
    /\ main \notin {"wait", "join"} => mon \in {"off", "done"}
    /\ main # "wait" => proc # "alive"
    /\ proc = "none" => main \in {"start", "stop1"}
    /\ ctl \in {"init", "boot"} => writer = "none" /\ reader = "none"

\* The section's contents do not outlive its last handle.
ContentsInv == ticked => writer # "none" \/ reader # "none"

\* No step breaks the nesting of handles, threads and processes.
LEMMA NestingStep ==
    ASSUME TypeInv, PlacesInv, [Next]_vars
    PROVE  PlacesInv'
<1>. USE DEF TypeInv, PlacesOK, PlacesInv, heartbeatVars, monitorVars, agentVars,
             mainVars, Holding
<1>1. CASE MainLaunch  BY <1>1 DEF MainLaunch
<1>2. CASE MainLaunchFails  BY <1>2 DEF MainLaunchFails
<1>3. CASE MainNotice  BY <1>3 DEF MainNotice
<1>4. CASE MainJoin  BY <1>4 DEF MainJoin
<1>5. CASE MainFinish  BY <1>5 DEF MainFinish
<1>6. CASE MainRecover  BY <1>6 DEF MainRecover
<1>7. CASE MainRestart  BY <1>7 DEF MainRestart
<1>8. CASE MonitorOpen  BY <1>8 DEF MonitorOpen, ReaderOpen, SectionExists
<1>9. CASE MonitorGiveUp
BY <1>9 DEF MonitorGiveUp, MonitorReturns, ReaderClose, Released
<1>10. CASE MonitorTop  BY <1>10 DEF MonitorTop
<1>11. CASE MonitorStopped
BY <1>11 DEF MonitorStopped, MonitorReturns, ReaderClose, Released
<1>12. CASE MonitorSeesExit
BY <1>12 DEF MonitorSeesExit, MonitorReturns, ReaderClose, Released
<1>13. CASE MonitorPoll  BY <1>13 DEF MonitorPoll, MonitorSleeps
<1>14. CASE MonitorLoad  BY <1>14 DEF MonitorLoad, MonitorSleeps
<1>15. CASE MonitorCompare  BY <1>15 DEF MonitorCompare, MonitorSleeps
<1>16. CASE MonitorKill
BY <1>16 DEF MonitorKill, MonitorReturns, AgentGone, Released
<1>17. CASE MonitorWake  BY <1>17 DEF MonitorWake
<1>18. CASE AgentInit  BY <1>18 DEF AgentInit
<1>19. CASE CtlBoot  BY <1>19 DEF CtlBoot, WriterOpen
<1>20. CASE CtlLoop  BY <1>20 DEF CtlLoop, CtlAwake
<1>21. CASE CtlReturn  BY <1>21 DEF CtlReturn, CtlAwake, WriterClose, Released
<1>22. CASE CtlTick  BY <1>22 DEF CtlTick, WriterTick
<1>23. CASE AgentExit  BY <1>23 DEF AgentExit, AgentGone
<1>24. CASE CtlHang  BY <1>24 DEF CtlHang
<1>25. CASE AgentCrash
BY <1>25 DEF AgentCrash, AgentGone, WriterClose, Released
<1>26. CASE AgentQuit  BY <1>26 DEF AgentQuit
<1>27. CASE WindowProcSuspend  BY <1>27 DEF WindowProcSuspend
<1>28. CASE WindowProcSaver  BY <1>28 DEF WindowProcSaver
<1>29. CASE Tick  BY <1>29 DEF Tick, ClockAdvance, TimersAdvance, Untimed
<1>30. CASE SystemSleep
BY <1>30 DEF SystemSleep, ClockAdvance, TimersAdvance, Untimed
<1>31. CASE UNCHANGED vars  BY <1>31 DEF vars
<1>. QED  BY <1>1, <1>2, <1>3, <1>4, <1>5, <1>6, <1>7, <1>8, <1>9, <1>10,
     <1>11, <1>12, <1>13, <1>14, <1>15, <1>16, <1>17, <1>18, <1>19, <1>20,
     <1>21, <1>22, <1>23, <1>24, <1>25, <1>26, <1>27, <1>28, <1>29, <1>30,
     <1>31 DEF Next, MainNext, MonitorNext, CtlNext, EnvNext

\* No step leaves contents behind in a section without handles.
LEMMA ContentsStep ==
    ASSUME TypeInv, PlacesInv, ContentsInv, [Next]_vars
    PROVE  ContentsInv'
<1>. USE DEF TypeInv, BooleansOK, PlacesOK, PlacesInv, ContentsInv, heartbeatVars,
             monitorVars, agentVars, mainVars, Holding
<1>1. CASE MainLaunch  BY <1>1 DEF MainLaunch
<1>2. CASE MainLaunchFails  BY <1>2 DEF MainLaunchFails
<1>3. CASE MainNotice  BY <1>3 DEF MainNotice
<1>4. CASE MainJoin  BY <1>4 DEF MainJoin
<1>5. CASE MainFinish  BY <1>5 DEF MainFinish
<1>6. CASE MainRecover  BY <1>6 DEF MainRecover
<1>7. CASE MainRestart  BY <1>7 DEF MainRestart
<1>8. CASE MonitorOpen  BY <1>8 DEF MonitorOpen, ReaderOpen, SectionExists
<1>9. CASE MonitorGiveUp
BY <1>9 DEF MonitorGiveUp, MonitorReturns, ReaderClose, Released
<1>10. CASE MonitorTop  BY <1>10 DEF MonitorTop
<1>11. CASE MonitorStopped
BY <1>11 DEF MonitorStopped, MonitorReturns, ReaderClose, Released
<1>12. CASE MonitorSeesExit
BY <1>12 DEF MonitorSeesExit, MonitorReturns, ReaderClose, Released
<1>13. CASE MonitorPoll  BY <1>13 DEF MonitorPoll, MonitorSleeps
<1>14. CASE MonitorLoad  BY <1>14 DEF MonitorLoad, MonitorSleeps
<1>15. CASE MonitorCompare  BY <1>15 DEF MonitorCompare, MonitorSleeps
<1>16. CASE MonitorKill
BY <1>16 DEF MonitorKill, MonitorReturns, AgentGone, Released
<1>17. CASE MonitorWake  BY <1>17 DEF MonitorWake
<1>18. CASE AgentInit  BY <1>18 DEF AgentInit
<1>19. CASE CtlBoot  BY <1>19 DEF CtlBoot, WriterOpen
<1>20. CASE CtlLoop  BY <1>20 DEF CtlLoop, CtlAwake
<1>21. CASE CtlReturn  BY <1>21 DEF CtlReturn, CtlAwake, WriterClose, Released
<1>22. CASE CtlTick  BY <1>22 DEF CtlTick, WriterTick
<1>23. CASE AgentExit  BY <1>23 DEF AgentExit, AgentGone
<1>24. CASE CtlHang  BY <1>24 DEF CtlHang
<1>25. CASE AgentCrash
BY <1>25 DEF AgentCrash, AgentGone, WriterClose, Released
<1>26. CASE AgentQuit  BY <1>26 DEF AgentQuit
<1>27. CASE WindowProcSuspend  BY <1>27 DEF WindowProcSuspend
<1>28. CASE WindowProcSaver  BY <1>28 DEF WindowProcSaver
<1>29. CASE Tick  BY <1>29 DEF Tick, ClockAdvance, TimersAdvance, Untimed
<1>30. CASE SystemSleep
BY <1>30 DEF SystemSleep, ClockAdvance, TimersAdvance, Untimed
<1>31. CASE UNCHANGED vars  BY <1>31 DEF vars
<1>. QED  BY <1>1, <1>2, <1>3, <1>4, <1>5, <1>6, <1>7, <1>8, <1>9, <1>10,
     <1>11, <1>12, <1>13, <1>14, <1>15, <1>16, <1>17, <1>18, <1>19, <1>20,
     <1>21, <1>22, <1>23, <1>24, <1>25, <1>26, <1>27, <1>28, <1>29, <1>30,
     <1>31 DEF Next, MainNext, MonitorNext, CtlNext, EnvNext

\* An agent that starts never finds a section, let alone a tick, of the
\* agent before it.
THEOREM NoStaleSections == Spec => []NoStaleSection
<1>1. Init => TypeInv /\ PlacesInv /\ ContentsInv
  BY TypeInit DEF Init, HeartbeatInit, PlacesInv, ContentsInv
<1>2. TypeInv /\ PlacesInv /\ ContentsInv /\ [Next]_vars
        => TypeInv' /\ PlacesInv' /\ ContentsInv'
  BY BooleansStep, PlacesStep, TimersStep, NestingStep, ContentsStep DEF TypeInv
<1>3. PlacesInv /\ ContentsInv => NoStaleSection
  BY DEF PlacesInv, ContentsInv, NoStaleSection, SectionExists
<1>. QED  BY <1>1, <1>2, <1>3, PTL DEF Spec

(***************************************************************************)
(* The fail-safe scheme.                                                   *)
(***************************************************************************)

\* No step undoes the reset of the power scheme while no agent runs.
LEMMA FailSafeStep ==
    ASSUME "apifail" \notin Env, TypeInv, PlacesInv, FailSafeAsserted, [Next]_vars
    PROVE  FailSafeAsserted'
<1>. USE DEF TypeInv, PlacesOK, PlacesInv, FailSafeAsserted, heartbeatVars,
             monitorVars, agentVars, mainVars
<1>1. CASE MainLaunch  BY <1>1 DEF MainLaunch
<1>2. CASE MainLaunchFails  BY <1>2 DEF MainLaunchFails
<1>3. CASE MainNotice  BY <1>3 DEF MainNotice
<1>4. CASE MainJoin  BY <1>4 DEF MainJoin
<1>5. CASE MainFinish  BY <1>5 DEF MainFinish
<1>6. CASE MainRecover  BY <1>6 DEF MainRecover
<1>7. CASE MainRestart  BY <1>7 DEF MainRestart
<1>8. CASE MonitorOpen  BY <1>8 DEF MonitorOpen, ReaderOpen, SectionExists
<1>9. CASE MonitorGiveUp
BY <1>9 DEF MonitorGiveUp, MonitorReturns, ReaderClose, Released
<1>10. CASE MonitorTop  BY <1>10 DEF MonitorTop
<1>11. CASE MonitorStopped
BY <1>11 DEF MonitorStopped, MonitorReturns, ReaderClose, Released
<1>12. CASE MonitorSeesExit
BY <1>12 DEF MonitorSeesExit, MonitorReturns, ReaderClose, Released
<1>13. CASE MonitorPoll  BY <1>13 DEF MonitorPoll, MonitorSleeps
<1>14. CASE MonitorLoad  BY <1>14 DEF MonitorLoad, MonitorSleeps
<1>15. CASE MonitorCompare  BY <1>15 DEF MonitorCompare, MonitorSleeps
<1>16. CASE MonitorKill
BY <1>16 DEF MonitorKill, MonitorReturns, AgentGone, Released
<1>17. CASE MonitorWake  BY <1>17 DEF MonitorWake
<1>18. CASE AgentInit  BY <1>18 DEF AgentInit
<1>19. CASE CtlBoot  BY <1>19 DEF CtlBoot, WriterOpen
<1>20. CASE CtlLoop  BY <1>20 DEF CtlLoop, CtlAwake
<1>21. CASE CtlReturn  BY <1>21 DEF CtlReturn, CtlAwake, WriterClose, Released
<1>22. CASE CtlTick  BY <1>22 DEF CtlTick, WriterTick
<1>23. CASE AgentExit  BY <1>23 DEF AgentExit, AgentGone
<1>24. CASE CtlHang  BY <1>24 DEF CtlHang
<1>25. CASE AgentCrash
BY <1>25 DEF AgentCrash, AgentGone, WriterClose, Released
<1>26. CASE AgentQuit  BY <1>26 DEF AgentQuit
<1>27. CASE WindowProcSuspend  BY <1>27 DEF WindowProcSuspend
<1>28. CASE WindowProcSaver  BY <1>28 DEF WindowProcSaver
<1>29. CASE Tick  BY <1>29 DEF Tick, ClockAdvance, TimersAdvance, Untimed
<1>30. CASE SystemSleep
BY <1>30 DEF SystemSleep, ClockAdvance, TimersAdvance, Untimed
<1>31. CASE UNCHANGED vars  BY <1>31 DEF vars
<1>. QED  BY <1>1, <1>2, <1>3, <1>4, <1>5, <1>6, <1>7, <1>8, <1>9, <1>10,
     <1>11, <1>12, <1>13, <1>14, <1>15, <1>16, <1>17, <1>18, <1>19, <1>20,
     <1>21, <1>22, <1>23, <1>24, <1>25, <1>26, <1>27, <1>28, <1>29, <1>30,
     <1>31 DEF Next, MainNext, MonitorNext, CtlNext, EnvNext

\* If setting the power scheme works, a failed agent is always followed by
\* the fail-safe scheme, at every recovery and when the watchdog gives up.
THEOREM FailSafeAlways ==
    ASSUME "apifail" \notin Env
    PROVE  Spec => []FailSafeAsserted
<1>1. Init => TypeInv /\ PlacesInv /\ FailSafeAsserted
  BY TypeInit DEF Init, HeartbeatInit, PlacesInv, FailSafeAsserted
<1>2. TypeInv /\ PlacesInv /\ FailSafeAsserted /\ [Next]_vars
        => TypeInv' /\ PlacesInv' /\ FailSafeAsserted'
  BY BooleansStep, PlacesStep, TimersStep, NestingStep, FailSafeStep DEF TypeInv
<1>. QED  BY <1>1, <1>2, PTL DEF Spec

(***************************************************************************)
(* No false kill.  Where the control loop is and for how long bounds the   *)
(* age of its last tick; the monitor's lateness bounds what that age grows *)
(* by between the load of last_tick_time and the comparison.               *)
(***************************************************************************)
Responsive == proc = "alive" /\ ~hung

AgentInv ==
    /\ ~suspended /\ ~saver /\ ctl # "yield"
    /\ ctl \in {"init", "boot", "top"} => ~ticked
    /\ ctl \in {"work", "wait"} /\ ticked => writer = "view"
    /\ Responsive /\ ctl = "wait" => ctlTimer <= Interval + AgentLate
    /\ Responsive /\ ctl \in {"work", "done"} => ctlTimer <= AgentLate
    /\ Responsive /\ ticked /\ ctl = "wait" => tickAge <= ctlTimer
    /\ Responsive /\ ticked /\ ctl \in {"work", "done"}
          => tickAge <= Interval + AgentLate + ctlTimer

MonitorInv ==
    /\ mon \in MonitorBusy => monTimer <= MonitorLate
    /\ mon = "sleep" => monTimer <= PollPeriod + MonitorLate
    /\ mon = "compare" /\ Responsive => seen <= TickGap + monTimer
    /\ NoFalseKill

TimingInv == AgentInv /\ MonitorInv

\* A responsive agent's last tick is at most TickGap old.
LEMMA TickAgeBound ==
    ASSUME TypeInv, PlacesInv, AgentInv, Responsive, ticked
    PROVE  tickAge <= TickGap
BY Constants DEF TypeInv, PlacesOK, TimersOK, PlacesInv, AgentInv, Responsive, TickGap,
                 CtlPlaces, Age

\* No step of a responsive agent, and no time, lets its tick grow older.
LEMMA AgentStep ==
    ASSUME NeverYields, TypeInv, PlacesInv, ContentsInv, AgentInv, [Next]_vars
    PROVE  AgentInv'
<1>. USE Constants DEF TypeInv, BooleansOK, PlacesOK, TimersOK, PlacesInv, ContentsInv,
           AgentInv, Responsive, CtlPlaces, Age, heartbeatVars, monitorVars, agentVars,
           mainVars, NeverYields
<1>1. CASE MainLaunch  BY <1>1 DEF MainLaunch
<1>2. CASE MainLaunchFails  BY <1>2 DEF MainLaunchFails
<1>3. CASE MainNotice  BY <1>3 DEF MainNotice
<1>4. CASE MainJoin  BY <1>4 DEF MainJoin
<1>5. CASE MainFinish  BY <1>5 DEF MainFinish
<1>6. CASE MainRecover  BY <1>6 DEF MainRecover
<1>7. CASE MainRestart  BY <1>7 DEF MainRestart
<1>8. CASE MonitorOpen  BY <1>8 DEF MonitorOpen, ReaderOpen, SectionExists
<1>9. CASE MonitorGiveUp
BY <1>9 DEF MonitorGiveUp, MonitorReturns, ReaderClose, Released
<1>10. CASE MonitorTop  BY <1>10 DEF MonitorTop
<1>11. CASE MonitorStopped
BY <1>11 DEF MonitorStopped, MonitorReturns, ReaderClose, Released
<1>12. CASE MonitorSeesExit
BY <1>12 DEF MonitorSeesExit, MonitorReturns, ReaderClose, Released
<1>13. CASE MonitorPoll  BY <1>13 DEF MonitorPoll, MonitorSleeps
<1>14. CASE MonitorLoad  BY <1>14 DEF MonitorLoad, MonitorSleeps
<1>15. CASE MonitorCompare  BY <1>15 DEF MonitorCompare, MonitorSleeps
<1>16. CASE MonitorKill
BY <1>16 DEF MonitorKill, MonitorReturns, AgentGone, Released
<1>17. CASE MonitorWake  BY <1>17 DEF MonitorWake
<1>18. CASE AgentInit  BY <1>18 DEF AgentInit
<1>19. CASE CtlBoot  BY <1>19 DEF CtlBoot, WriterOpen
<1>20. CASE CtlLoop  BY <1>20 DEF CtlLoop, CtlAwake
<1>21. CASE CtlReturn  BY <1>21 DEF CtlReturn, CtlAwake, WriterClose, Released
<1>22. CASE CtlTick  BY <1>22 DEF CtlTick, WriterTick
<1>23. CASE AgentExit  BY <1>23 DEF AgentExit, AgentGone
<1>24. CASE CtlHang  BY <1>24 DEF CtlHang
<1>25. CASE AgentCrash
BY <1>25 DEF AgentCrash, AgentGone, WriterClose, Released
<1>26. CASE AgentQuit  BY <1>26 DEF AgentQuit
<1>27. CASE WindowProcSuspend  BY <1>27 DEF WindowProcSuspend
<1>28. CASE WindowProcSaver  BY <1>28 DEF WindowProcSaver
<1>29. CASE Tick
BY <1>29 DEF Tick, ClockAdvance, TimersAdvance, Untimed, Later, CtlPunctual,
     CtlDue
<1>30. CASE SystemSleep
BY <1>30 DEF SystemSleep, ClockAdvance, TimersAdvance, Untimed
<1>31. CASE UNCHANGED vars  BY <1>31 DEF vars
<1>. QED  BY <1>1, <1>2, <1>3, <1>4, <1>5, <1>6, <1>7, <1>8, <1>9, <1>10,
     <1>11, <1>12, <1>13, <1>14, <1>15, <1>16, <1>17, <1>18, <1>19, <1>20,
     <1>21, <1>22, <1>23, <1>24, <1>25, <1>26, <1>27, <1>28, <1>29, <1>30,
     <1>31 DEF Next, MainNext, MonitorNext, CtlNext, EnvNext

\* The monitor compares in time and kills only what hangs.
LEMMA MonitorStep ==
    ASSUME NeverYields, TimeoutSuffices, TypeInv, PlacesInv, AgentInv, MonitorInv,
           [Next]_vars
    PROVE  MonitorInv'
<1>. USE Constants DEF TypeInv, BooleansOK, PlacesOK, TimersOK, PlacesInv, MonitorInv,
           NoFalseKill, Responsive, TickGap, MonitorPlaces, MonitorBusy, Age,
           heartbeatVars, monitorVars, agentVars, mainVars, NeverYields
<1>1. CASE MainLaunch  BY <1>1 DEF MainLaunch
<1>2. CASE MainLaunchFails  BY <1>2 DEF MainLaunchFails
<1>3. CASE MainNotice  BY <1>3 DEF MainNotice
<1>4. CASE MainJoin  BY <1>4 DEF MainJoin
<1>5. CASE MainFinish  BY <1>5 DEF MainFinish
<1>6. CASE MainRecover  BY <1>6 DEF MainRecover
<1>7. CASE MainRestart  BY <1>7 DEF MainRestart
<1>8. CASE MonitorOpen  BY <1>8 DEF MonitorOpen, ReaderOpen, SectionExists
<1>9. CASE MonitorGiveUp
BY <1>9 DEF MonitorGiveUp, MonitorReturns, ReaderClose, Released
<1>10. CASE MonitorTop  BY <1>10 DEF MonitorTop
<1>11. CASE MonitorStopped
BY <1>11 DEF MonitorStopped, MonitorReturns, ReaderClose, Released
<1>12. CASE MonitorSeesExit
BY <1>12 DEF MonitorSeesExit, MonitorReturns, ReaderClose, Released
<1>13. CASE MonitorPoll  BY <1>13 DEF MonitorPoll, MonitorSleeps
<1>14. CASE MonitorLoad  BY <1>14, TickAgeBound DEF MonitorLoad, MonitorSleeps
<1>15. CASE MonitorCompare
BY <1>15 DEF MonitorCompare, MonitorSleeps, Fresh, TimeoutSuffices
<1>16. CASE MonitorKill
BY <1>16 DEF MonitorKill, MonitorReturns, AgentGone, Released
<1>17. CASE MonitorWake  BY <1>17 DEF MonitorWake
<1>18. CASE AgentInit  BY <1>18 DEF AgentInit
<1>19. CASE CtlBoot  BY <1>19 DEF CtlBoot, WriterOpen
<1>20. CASE CtlLoop  BY <1>20 DEF CtlLoop, CtlAwake
<1>21. CASE CtlReturn  BY <1>21 DEF CtlReturn, CtlAwake, WriterClose, Released
<1>22. CASE CtlTick  BY <1>22 DEF CtlTick, WriterTick
<1>23. CASE AgentExit  BY <1>23 DEF AgentExit, AgentGone
<1>24. CASE CtlHang  BY <1>24 DEF CtlHang
<1>25. CASE AgentCrash
BY <1>25 DEF AgentCrash, AgentGone, WriterClose, Released
<1>26. CASE AgentQuit  BY <1>26 DEF AgentQuit
<1>27. CASE WindowProcSuspend  BY <1>27 DEF WindowProcSuspend
<1>28. CASE WindowProcSaver  BY <1>28 DEF WindowProcSaver
<1>29. CASE Tick
BY <1>29 DEF Tick, ClockAdvance, TimersAdvance, Untimed, Later,
     MonitorPunctual, MonitorDue
<1>30. CASE SystemSleep
BY <1>30 DEF SystemSleep, ClockAdvance, TimersAdvance, Untimed
<1>31. CASE UNCHANGED vars  BY <1>31 DEF vars
<1>. QED  BY <1>1, <1>2, <1>3, <1>4, <1>5, <1>6, <1>7, <1>8, <1>9, <1>10,
     <1>11, <1>12, <1>13, <1>14, <1>15, <1>16, <1>17, <1>18, <1>19, <1>20,
     <1>21, <1>22, <1>23, <1>24, <1>25, <1>26, <1>27, <1>28, <1>29, <1>30,
     <1>31 DEF Next, MainNext, MonitorNext, CtlNext, EnvNext

\* Whatever the lengths of the intervals, if the timeout exceeds the gap
\* between two ticks of a late agent and the lateness of the monitor, the
\* watchdog terminates no agent but one that hangs.
THEOREM NoFalseKills ==
    ASSUME NeverYields, TimeoutSuffices
    PROVE  Spec => []NoFalseKill
<1>. DEFINE Inv == TypeInv /\ PlacesInv /\ ContentsInv /\ TimingInv
<1>1. Init => Inv
  BY TypeInit, Constants DEF Init, HeartbeatInit, PlacesInv, ContentsInv, TimingInv,
     AgentInv, MonitorInv, Responsive, NoFalseKill, MonitorBusy
<1>2. Inv /\ [Next]_vars => Inv'
  BY BooleansStep, PlacesStep, TimersStep, NestingStep, ContentsStep, AgentStep,
     MonitorStep DEF TypeInv, TimingInv
<1>3. Inv => NoFalseKill
  BY DEF TimingInv, MonitorInv
<1>. QED  BY <1>1, <1>2, <1>3, PTL DEF Spec

(***************************************************************************)
(* Watchdog implements Supervisor.                                         *)
(***************************************************************************)

\* A well-placed first state is one of Supervisor's.
LEMMA SupervisedInit == Init => Sup!SupInit
BY DEF Init, Sup!SupInit

\* Every step is one of Supervisor's, or invisible to it.
LEMMA SupervisedStep ==
    ASSUME TypeInv, PlacesInv, [Next]_vars
    PROVE  [Sup!SupNext]_(Sup!supVars)
<1>. USE DEF TypeInv, PlacesOK, PlacesInv, MainPlaces, heartbeatVars, monitorVars,
             agentVars, mainVars, Sup!SupNext, Sup!supVars, Sup!Launch, Sup!LaunchFails,
             Sup!AgentEnds, Sup!Conclude, Sup!Recover
<1>1. CASE MainLaunch  BY <1>1 DEF MainLaunch
<1>2. CASE MainLaunchFails  BY <1>2 DEF MainLaunchFails
<1>3. CASE MainNotice  BY <1>3 DEF MainNotice
<1>4. CASE MainJoin  BY <1>4 DEF MainJoin
<1>5. CASE MainFinish  BY <1>5 DEF MainFinish
<1>6. CASE MainRecover  BY <1>6 DEF MainRecover
<1>7. CASE MainRestart  BY <1>7 DEF MainRestart
<1>8. CASE MonitorOpen  BY <1>8 DEF MonitorOpen, ReaderOpen, SectionExists
<1>9. CASE MonitorGiveUp
BY <1>9 DEF MonitorGiveUp, MonitorReturns, ReaderClose, Released
<1>10. CASE MonitorTop  BY <1>10 DEF MonitorTop
<1>11. CASE MonitorStopped
BY <1>11 DEF MonitorStopped, MonitorReturns, ReaderClose, Released
<1>12. CASE MonitorSeesExit
BY <1>12 DEF MonitorSeesExit, MonitorReturns, ReaderClose, Released
<1>13. CASE MonitorPoll  BY <1>13 DEF MonitorPoll, MonitorSleeps
<1>14. CASE MonitorLoad  BY <1>14 DEF MonitorLoad, MonitorSleeps
<1>15. CASE MonitorCompare  BY <1>15 DEF MonitorCompare, MonitorSleeps
<1>16. CASE MonitorKill
BY <1>16 DEF MonitorKill, MonitorReturns, AgentGone, Released
<1>17. CASE MonitorWake  BY <1>17 DEF MonitorWake
<1>18. CASE AgentInit  BY <1>18 DEF AgentInit
<1>19. CASE CtlBoot  BY <1>19 DEF CtlBoot, WriterOpen
<1>20. CASE CtlLoop  BY <1>20 DEF CtlLoop, CtlAwake
<1>21. CASE CtlReturn  BY <1>21 DEF CtlReturn, CtlAwake, WriterClose, Released
<1>22. CASE CtlTick  BY <1>22 DEF CtlTick, WriterTick
<1>23. CASE AgentExit  BY <1>23 DEF AgentExit, AgentGone
<1>24. CASE CtlHang  BY <1>24 DEF CtlHang
<1>25. CASE AgentCrash
BY <1>25 DEF AgentCrash, AgentGone, WriterClose, Released
<1>26. CASE AgentQuit  BY <1>26 DEF AgentQuit
<1>27. CASE WindowProcSuspend  BY <1>27 DEF WindowProcSuspend
<1>28. CASE WindowProcSaver  BY <1>28 DEF WindowProcSaver
<1>29. CASE Tick  BY <1>29 DEF Tick, ClockAdvance, TimersAdvance, Untimed
<1>30. CASE SystemSleep
BY <1>30 DEF SystemSleep, ClockAdvance, TimersAdvance, Untimed
<1>31. CASE UNCHANGED vars  BY <1>31 DEF vars
<1>. QED  BY <1>1, <1>2, <1>3, <1>4, <1>5, <1>6, <1>7, <1>8, <1>9, <1>10,
     <1>11, <1>12, <1>13, <1>14, <1>15, <1>16, <1>17, <1>18, <1>19, <1>20,
     <1>21, <1>22, <1>23, <1>24, <1>25, <1>26, <1>27, <1>28, <1>29, <1>30,
     <1>31 DEF Next, MainNext, MonitorNext, CtlNext, EnvNext

\* What the watchdog does, its main thread, its monitor and the agent
\* interleaved, is what Supervisor allows: it launches only after a failure it
\* has recovered from, and at most MaxRecoveries + 1 times.
THEOREM SupervisedSafely == Spec => Sup!SupSafety
<1>1. Init => TypeInv /\ PlacesInv
  BY TypeInit DEF Init, HeartbeatInit, PlacesInv
<1>2. TypeInv /\ PlacesInv /\ [Next]_vars => TypeInv' /\ PlacesInv'
  BY BooleansStep, PlacesStep, TimersStep, NestingStep DEF TypeInv
<1>. QED  BY <1>1, <1>2, SupervisedInit, SupervisedStep, PTL DEF Spec, Sup!SupSafety

(***************************************************************************)
(* The deadline of a hang.  A monitor that is never too late never cools   *)
(* down, so every pass through its loop compares; each place of the loop   *)
(* bounds the age of the tick by how long the monitor has been there.      *)
(***************************************************************************)
Watched == ticked /\ proc = "alive"

PassInv ==
    /\ cooldown = 0 /\ ~cooling
    /\ mon \in MonitorBusy => monTimer <= MonitorLate
    /\ mon = "sleep" => monTimer <= PollPeriod + MonitorLate
    /\ mon = "top" => loopAge <= MonitorLate + PollPeriod + monTimer
    /\ mon \in {"poll", "load", "compare", "kill"} => loopAge <= monTimer
    /\ mon = "sleep" => loopAge <= MonitorLate + monTimer

WatchInv ==
    /\ mon = "retry" => reader # "view"
    /\ Watched /\ mon = "open" => tickAge <= monTimer
    /\ Watched /\ mon = "compare" => tickAge <= seen
    /\ Watched /\ mon = "sleep" => tickAge < StaleTimeout + monTimer
    /\ Watched /\ mon \in {"top", "poll", "load", "compare", "kill"}
          => tickAge < StaleTimeout + PollPeriod + monTimer

\* No pass of a punctual monitor starts a cooldown.
LEMMA PassStep ==
    ASSUME "suspend" \notin Env, MonitorKeepsUp, TypeInv, PassInv, [Next]_vars
    PROVE  PassInv'
<1>. USE Constants DEF TypeInv, BooleansOK, PlacesOK, TimersOK, PassInv, MonitorPlaces,
           MonitorBusy, Age, heartbeatVars, monitorVars, agentVars, mainVars
<1>1. CASE MainLaunch  BY <1>1 DEF MainLaunch
<1>2. CASE MainLaunchFails  BY <1>2 DEF MainLaunchFails
<1>3. CASE MainNotice  BY <1>3 DEF MainNotice
<1>4. CASE MainJoin  BY <1>4 DEF MainJoin
<1>5. CASE MainFinish  BY <1>5 DEF MainFinish
<1>6. CASE MainRecover  BY <1>6 DEF MainRecover
<1>7. CASE MainRestart  BY <1>7 DEF MainRestart
<1>8. CASE MonitorOpen  BY <1>8 DEF MonitorOpen, ReaderOpen, SectionExists
<1>9. CASE MonitorGiveUp
BY <1>9 DEF MonitorGiveUp, MonitorReturns, ReaderClose, Released
<1>10. CASE MonitorTop  BY <1>10 DEF MonitorTop, MonitorKeepsUp
<1>11. CASE MonitorStopped
BY <1>11 DEF MonitorStopped, MonitorReturns, ReaderClose, Released
<1>12. CASE MonitorSeesExit
BY <1>12 DEF MonitorSeesExit, MonitorReturns, ReaderClose, Released
<1>13. CASE MonitorPoll  BY <1>13 DEF MonitorPoll, MonitorSleeps
<1>14. CASE MonitorLoad  BY <1>14 DEF MonitorLoad, MonitorSleeps
<1>15. CASE MonitorCompare  BY <1>15 DEF MonitorCompare, MonitorSleeps
<1>16. CASE MonitorKill
BY <1>16 DEF MonitorKill, MonitorReturns, AgentGone, Released
<1>17. CASE MonitorWake  BY <1>17 DEF MonitorWake
<1>18. CASE AgentInit  BY <1>18 DEF AgentInit
<1>19. CASE CtlBoot  BY <1>19 DEF CtlBoot, WriterOpen
<1>20. CASE CtlLoop  BY <1>20 DEF CtlLoop, CtlAwake
<1>21. CASE CtlReturn  BY <1>21 DEF CtlReturn, CtlAwake, WriterClose, Released
<1>22. CASE CtlTick  BY <1>22 DEF CtlTick, WriterTick
<1>23. CASE AgentExit  BY <1>23 DEF AgentExit, AgentGone
<1>24. CASE CtlHang  BY <1>24 DEF CtlHang
<1>25. CASE AgentCrash
BY <1>25 DEF AgentCrash, AgentGone, WriterClose, Released
<1>26. CASE AgentQuit  BY <1>26 DEF AgentQuit
<1>27. CASE WindowProcSuspend  BY <1>27 DEF WindowProcSuspend
<1>28. CASE WindowProcSaver  BY <1>28 DEF WindowProcSaver
<1>29. CASE Tick
BY <1>29 DEF Tick, ClockAdvance, TimersAdvance, Untimed, Later,
     MonitorPunctual, MonitorDue
<1>30. CASE SystemSleep
BY <1>30 DEF SystemSleep, ClockAdvance, TimersAdvance, Untimed
<1>31. CASE UNCHANGED vars  BY <1>31 DEF vars
<1>. QED  BY <1>1, <1>2, <1>3, <1>4, <1>5, <1>6, <1>7, <1>8, <1>9, <1>10,
     <1>11, <1>12, <1>13, <1>14, <1>15, <1>16, <1>17, <1>18, <1>19, <1>20,
     <1>21, <1>22, <1>23, <1>24, <1>25, <1>26, <1>27, <1>28, <1>29, <1>30,
     <1>31 DEF Next, MainNext, MonitorNext, CtlNext, EnvNext

\* No tick grows old under the eyes of the monitor.
LEMMA WatchStep ==
    ASSUME "suspend" \notin Env, MonitorKeepsUp, TypeInv, PlacesInv, ContentsInv,
           PassInv, WatchInv, [Next]_vars
    PROVE  WatchInv'
<1>. USE Constants DEF TypeInv, BooleansOK, PlacesOK, TimersOK, PlacesInv, ContentsInv,
           PassInv, WatchInv, Watched, MonitorPlaces, MonitorBusy, Age, heartbeatVars,
           monitorVars, agentVars, mainVars
<1>1. CASE MainLaunch  BY <1>1 DEF MainLaunch
<1>2. CASE MainLaunchFails  BY <1>2 DEF MainLaunchFails
<1>3. CASE MainNotice  BY <1>3 DEF MainNotice
<1>4. CASE MainJoin  BY <1>4 DEF MainJoin
<1>5. CASE MainFinish  BY <1>5 DEF MainFinish
<1>6. CASE MainRecover  BY <1>6 DEF MainRecover
<1>7. CASE MainRestart  BY <1>7 DEF MainRestart
<1>8. CASE MonitorOpen
BY <1>8 DEF MonitorOpen, ReaderOpen, SectionExists, MonitorKeepsUp
<1>9. CASE MonitorGiveUp
BY <1>9 DEF MonitorGiveUp, MonitorReturns, ReaderClose, Released
<1>10. CASE MonitorTop  BY <1>10 DEF MonitorTop
<1>11. CASE MonitorStopped
BY <1>11 DEF MonitorStopped, MonitorReturns, ReaderClose, Released
<1>12. CASE MonitorSeesExit
BY <1>12 DEF MonitorSeesExit, MonitorReturns, ReaderClose, Released
<1>13. CASE MonitorPoll  BY <1>13 DEF MonitorPoll, MonitorSleeps
<1>14. CASE MonitorLoad  BY <1>14 DEF MonitorLoad, MonitorSleeps
<1>15. CASE MonitorCompare  BY <1>15 DEF MonitorCompare, MonitorSleeps, Fresh
<1>16. CASE MonitorKill
BY <1>16 DEF MonitorKill, MonitorReturns, AgentGone, Released
<1>17. CASE MonitorWake  BY <1>17 DEF MonitorWake
<1>18. CASE AgentInit  BY <1>18 DEF AgentInit
<1>19. CASE CtlBoot  BY <1>19 DEF CtlBoot, WriterOpen
<1>20. CASE CtlLoop  BY <1>20 DEF CtlLoop, CtlAwake
<1>21. CASE CtlReturn  BY <1>21 DEF CtlReturn, CtlAwake, WriterClose, Released
<1>22. CASE CtlTick  BY <1>22 DEF CtlTick, WriterTick
<1>23. CASE AgentExit  BY <1>23 DEF AgentExit, AgentGone
<1>24. CASE CtlHang  BY <1>24 DEF CtlHang
<1>25. CASE AgentCrash
BY <1>25 DEF AgentCrash, AgentGone, WriterClose, Released
<1>26. CASE AgentQuit  BY <1>26 DEF AgentQuit
<1>27. CASE WindowProcSuspend  BY <1>27 DEF WindowProcSuspend
<1>28. CASE WindowProcSaver  BY <1>28 DEF WindowProcSaver
<1>29. CASE Tick
BY <1>29 DEF Tick, ClockAdvance, TimersAdvance, Untimed, Later,
     MonitorPunctual, MonitorDue
<1>30. CASE SystemSleep
BY <1>30 DEF SystemSleep, ClockAdvance, TimersAdvance, Untimed
<1>31. CASE UNCHANGED vars  BY <1>31 DEF vars
<1>. QED  BY <1>1, <1>2, <1>3, <1>4, <1>5, <1>6, <1>7, <1>8, <1>9, <1>10,
     <1>11, <1>12, <1>13, <1>14, <1>15, <1>16, <1>17, <1>18, <1>19, <1>20,
     <1>21, <1>22, <1>23, <1>24, <1>25, <1>26, <1>27, <1>28, <1>29, <1>30,
     <1>31 DEF Next, MainNext, MonitorNext, CtlNext, EnvNext

\* Whatever hangs, and whenever it does so after its first tick, a monitor
\* that is attached and punctual ends it within the timeout, one poll and
\* its own lateness.
THEOREM HangDeadlines ==
    ASSUME "suspend" \notin Env, MonitorKeepsUp
    PROVE  Spec => []HangDeadline
<1>. DEFINE Inv == TypeInv /\ PlacesInv /\ ContentsInv /\ PassInv /\ WatchInv
<1>1. Init => Inv
  BY TypeInit, Constants DEF Init, HeartbeatInit, PlacesInv, ContentsInv, PassInv,
     WatchInv, Watched, MonitorBusy
<1>2. Inv /\ [Next]_vars => Inv'
  BY BooleansStep, PlacesStep, TimersStep, NestingStep, ContentsStep, PassStep,
     WatchStep DEF TypeInv
<1>3. Inv => HangDeadline
  <2>. SUFFICES ASSUME Inv, reader = "view", Watched
                PROVE  tickAge < StaleTimeout + PollPeriod + MonitorLate
    BY DEF HangDeadline, Watched
  <2>1. mon \in {"top", "poll", "load", "compare", "kill", "sleep"}
    BY DEF TypeInv, PlacesOK, MonitorPlaces, MonitorBusy, PlacesInv, WatchInv
  <2>. QED  BY <2>1, Constants DEF TypeInv, TimersOK, Age, PassInv, WatchInv, MonitorBusy
<1>. QED  BY <1>1, <1>2, <1>3, PTL DEF Spec
==============================================================================
