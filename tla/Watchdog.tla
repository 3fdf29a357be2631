------------------------------- MODULE Watchdog -------------------------------
(***************************************************************************)
(* The watchdog process (watchdog/main.cpp: its main thread and one        *)
(* monitor thread per launch of the agent), the agent process as far as    *)
(* the watchdog can see it (agent/main.cpp: control_loop, WindowProc, the  *)
(* quit paths), the section they share and the active power scheme.        *)
(*                                                                         *)
(* Time is discrete and relative: every stored GetTickCount64() value is   *)
(* an age (see Heartbeat), every Sleep or wait_for a timer that counts up. *)
(* A thread that is not hung acts at most MonitorLate (AgentLate) after it *)
(* is due; Tick respects that, a system sleep does not.  Suspension of the *)
(* machine, crashes, hangs, battery saver and failing system calls happen  *)
(* when Env, a parameter of the model, lets them.                          *)
(***************************************************************************)
EXTENDS Heartbeat, Integers

CONSTANTS
    PollPeriod,     \* Sleep(1000) in monitor_heartbeat
    DelayLimit,     \* elapsed > 3000
    Cooldown,       \* cooldown_until = current_tick + 2000
    OpenWait,       \* 30 x Sleep(100) before the monitor gives up
    Interval,       \* upper bound of recommended_interval_ms
    YieldWait,      \* wait_for(1000) of the suspended control loop
    MonitorLate,    \* scheduling delay of the monitor, body included
    AgentLate,      \* scheduling delay of the agent, evaluate .. commit included
    MaxRecoveries,  \* config::MAX_RECOVERY_ATTEMPTS
    SuspendLengths, \* lengths of a system sleep
    Env             \* what the environment may do

Environment ==
    {"hang", "crash", "quit", "suspend", "saver", "createfail", "apifail"}

ASSUME WatchdogAssumption ==
    /\ {PollPeriod, DelayLimit, Cooldown, OpenWait, Interval, YieldWait,
        MonitorLate, AgentLate, MaxRecoveries} \subseteq Nat
    /\ SuspendLengths \subseteq Nat
    /\ Env \subseteq Environment
    /\ \A due \in {PollPeriod, OpenWait} : due + MonitorLate < Horizon
    /\ \A due \in {Interval, YieldWait} : due + AgentLate < Horizon

VARIABLES
    main,         \* where the watchdog's main thread is
    active,       \* monitor_active
    mon,          \* where the monitor thread is
    seen,         \* now - last_time, as is_alive computes it
    loopAge,      \* now - last_tick
    cooldown,     \* cooldown_until - now, 0 if past
    cooling,      \* current_tick < cooldown_until, as of the loop's top
    monTimer,     \* time the monitor has slept, or is late
    proc,         \* the agent process, or the exit code it left
    hung,         \* the control loop is stuck in a call that does not return
    ctl,          \* where the agent's control loop is
    ctlTimer,     \* time since it got there
    running,      \* g_running
    suspended,    \* g_suspended
    saver,        \* g_battery_saver
    recoveries,   \* recoveryCount
    backoffTimer, \* time slept in the exponential backoff
    scheme        \* the active power scheme

monitorVars == <<mon, seen, loopAge, cooldown, cooling, monTimer>>
agentVars == <<proc, hung, ctl, ctlTimer, running, suspended, saver>>
mainVars == <<main, active, recoveries, backoffTimer>>
vars == <<heartbeatVars, monitorVars, agentVars, mainVars, scheme>>

MainPlaces == {"start", "wait", "join", "assess", "backoff", "stop0", "stop1"}
MonitorBusy == {"open", "top", "poll", "load", "compare", "kill"}
MonitorPlaces == MonitorBusy \union {"off", "retry", "sleep", "done"}
CtlPlaces == {"none", "init", "boot", "top", "work", "wait", "yield", "done"}

TypeOK ==
    /\ HeartbeatTypeOK
    /\ main \in MainPlaces
    /\ active \in BOOLEAN
    /\ mon \in MonitorPlaces
    /\ seen \in Age
    /\ loopAge \in Age
    /\ cooldown \in 0..Cooldown
    /\ cooling \in BOOLEAN
    /\ monTimer \in Age
    /\ proc \in {"none", "alive", "clean", "failed"}
    /\ hung \in BOOLEAN
    /\ ctl \in CtlPlaces
    /\ ctlTimer \in Age
    /\ running \in BOOLEAN
    /\ suspended \in BOOLEAN
    /\ saver \in BOOLEAN
    /\ recoveries \in 0..MaxRecoveries + 1
    /\ backoffTimer \in Age
    /\ scheme \in {"user", "nanoloop", "balanced"}

Init ==
    /\ HeartbeatInit
    /\ main = "start" /\ active = FALSE /\ recoveries = 0 /\ backoffTimer = 0
    /\ mon = "off" /\ seen = 0 /\ loopAge = 0
    /\ cooldown = 0 /\ cooling = FALSE /\ monTimer = 0
    /\ proc = "none" /\ hung = FALSE /\ ctl = "none" /\ ctlTimer = 0
    /\ running = FALSE /\ suspended = FALSE /\ saver = FALSE
    /\ scheme = "user"

(***************************************************************************)
(* The main thread.                                                        *)
(***************************************************************************)

\* StartAgent succeeds; the monitor thread is started with the flag set.
MainLaunch ==
    /\ main = "start"
    /\ main' = "wait"
    /\ active' = TRUE
    /\ mon' = "open" /\ monTimer' = 0 /\ seen' = 0 /\ loopAge' = 0
    /\ cooldown' = 0 /\ cooling' = FALSE
    /\ proc' = "alive" /\ hung' = FALSE /\ ctl' = "init" /\ ctlTimer' = 0
    /\ running' = TRUE /\ suspended' = FALSE /\ saver' = FALSE
    /\ UNCHANGED <<heartbeatVars, recoveries, backoffTimer, scheme>>

\* StartAgent fails: return 1, at the first launch or at a later one.
MainLaunchFails ==
    /\ "createfail" \in Env
    /\ main = "start"
    /\ main' = "stop1"
    /\ UNCHANGED <<heartbeatVars, monitorVars, agentVars, active, recoveries,
                   backoffTimer, scheme>>

\* WaitForSingleObject returns; monitor_active = false.
MainNotice ==
    /\ main = "wait"
    /\ proc # "alive"
    /\ main' = "join"
    /\ active' = FALSE
    /\ UNCHANGED <<heartbeatVars, monitorVars, agentVars, recoveries,
                   backoffTimer, scheme>>

\* Fault: the monitor thread is detached instead of joined.
MainJoinDetached ==
    /\ main = "join"
    /\ main' = "assess"
    /\ UNCHANGED <<heartbeatVars, monitorVars, agentVars, active, recoveries,
                   backoffTimer, scheme>>

\* heartbeat_thread.join()
MainJoin ==
    /\ main = "join"
    /\ mon = "done"
    /\ main' = "assess"
    /\ UNCHANGED <<heartbeatVars, monitorVars, agentVars, active, recoveries,
                   backoffTimer, scheme>>

\* exitCode == 0: return 0.  It is 0 too if GetExitCodeProcess fails, which
\* nobody looks at.
MainFinish ==
    /\ main = "assess"
    /\ proc = "clean" \/ "apifail" \in Env
    /\ main' = "stop0"
    /\ UNCHANGED <<heartbeatVars, monitorVars, agentVars, active, recoveries,
                   backoffTimer, scheme>>

\* Fault: the attempts are counted out before this one is counted.
MainRecoverUncounted ==
    /\ main = "assess"
    /\ proc # "clean"
    /\ recoveries' = recoveries + 1
    /\ scheme' = "balanced"
    /\ main' = IF recoveries > MaxRecoveries THEN "stop1" ELSE "backoff"
    /\ backoffTimer' = 0
    /\ UNCHANGED <<heartbeatVars, monitorVars, agentVars, active>>

\* Fault: the watchdog gives up before it asserts the fail-safe scheme.
MainRecoverGivesUpFirst ==
    /\ main = "assess"
    /\ proc # "clean"
    /\ recoveries' = recoveries + 1
    /\ scheme' = IF recoveries' > MaxRecoveries THEN scheme ELSE "balanced"
    /\ main' = IF recoveries' > MaxRecoveries THEN "stop1" ELSE "backoff"
    /\ backoffTimer' = 0
    /\ UNCHANGED <<heartbeatVars, monitorVars, agentVars, active>>

\* Fault: the exit code is not looked at.
MainRecoverAlways ==
    /\ main = "assess"
    /\ recoveries' = recoveries + 1
    /\ scheme' = "balanced"
    /\ main' = IF recoveries' > MaxRecoveries THEN "stop1" ELSE "backoff"
    /\ backoffTimer' = 0
    /\ UNCHANGED <<heartbeatVars, monitorVars, agentVars, active>>

\* The fail-safe scheme is asserted before the attempts are counted out.
MainRecover ==
    /\ main = "assess"
    /\ proc # "clean"
    /\ recoveries' = recoveries + 1
    /\ \/ scheme' = "balanced"
       \/ "apifail" \in Env /\ scheme' = scheme
    /\ main' = IF recoveries' > MaxRecoveries THEN "stop1" ELSE "backoff"
    /\ backoffTimer' = 0
    /\ UNCHANGED <<heartbeatVars, monitorVars, agentVars, active>>

\* wait_seconds = (int)pow(2, recoveryCount), in seconds like every timer
Backoff(n) == 2^n

\* Sleep(wait_seconds * 1000) ends; recoveryCount <= maxRecoveries holds.
MainRestart ==
    /\ main = "backoff"
    /\ backoffTimer >= Backoff(recoveries)
    /\ main' = "start"
    /\ backoffTimer' = 0
    /\ UNCHANGED <<heartbeatVars, monitorVars, agentVars, active, recoveries,
                   scheme>>

(***************************************************************************)
(* The monitor thread, monitor_heartbeat.  Its timer restarts where it     *)
(* goes to sleep and counts the lateness from where it should wake, so it  *)
(* wakes and runs through the loop's body within MonitorLate.              *)
(***************************************************************************)

\* The reader is constructed, once; then last_tick and cooldown_until.
MonitorOpen ==
    /\ mon = "open"
    /\ ReaderOpen
    /\ mon' = IF reader' = "view" THEN "top" ELSE "retry"
    /\ loopAge' = 0
    /\ monTimer' = 0
    /\ UNCHANGED <<seen, cooldown, cooling, agentVars, mainVars, scheme>>

\* monitor_heartbeat returns: its locals go.
MonitorReturns ==
    /\ mon' = "done"
    /\ seen' = 0 /\ loopAge' = 0 /\ cooldown' = 0 /\ cooling' = FALSE
    /\ monTimer' = 0

\* Fault: the monitor waits for the section without a limit.
MonitorGiveUpNever ==
    /\ mon = "retry"
    /\ reader = "view"
    /\ MonitorReturns
    /\ ReaderClose
    /\ UNCHANGED <<agentVars, mainVars, scheme>>

\* The loop re-evaluates reader.valid(), whose answer cannot change, and
\* does not look at active.
MonitorGiveUp ==
    /\ mon = "retry"
    /\ monTimer >= OpenWait
    /\ MonitorReturns
    /\ ReaderClose
    /\ UNCHANGED <<agentVars, mainVars, scheme>>

\* Fault: last_tick is not updated, so one late pass makes all passes late.
MonitorTopKeepsLastTick ==
    /\ mon = "top"
    /\ active
    /\ LET left == IF loopAge > DelayLimit THEN Cooldown ELSE cooldown
       IN  cooldown' = left /\ cooling' = (left > 0)
    /\ mon' = "poll"
    /\ UNCHANGED <<heartbeatVars, seen, loopAge, monTimer, agentVars, mainVars,
                   scheme>>

\* while (active); a late pass starts the cooldown.
MonitorTop ==
    /\ mon = "top"
    /\ active
    /\ LET left == IF loopAge > DelayLimit THEN Cooldown ELSE cooldown
       IN  cooldown' = left /\ cooling' = (left > 0)
    /\ loopAge' = 0
    /\ mon' = "poll"
    /\ UNCHANGED <<heartbeatVars, seen, monTimer, agentVars, mainVars, scheme>>

MonitorStopped ==
    /\ mon = "top"
    /\ ~active
    /\ MonitorReturns
    /\ ReaderClose
    /\ UNCHANGED <<agentVars, mainVars, scheme>>

\* GetExitCodeProcess says the process has gone.
MonitorSeesExit ==
    /\ mon = "poll"
    /\ proc # "alive"
    /\ MonitorReturns
    /\ ReaderClose
    /\ UNCHANGED <<agentVars, mainVars, scheme>>

\* Sleep(1000), with is_alive() behind or skipped.
MonitorSleeps ==
    /\ mon' = "sleep"
    /\ monTimer' = 0
    /\ seen' = 0
    /\ UNCHANGED <<heartbeatVars, loopAge, cooldown, cooling>>

\* Fault: the heartbeat is checked during the cooldown instead of after it.
MonitorPollSwapped ==
    /\ mon = "poll"
    /\ proc = "alive" \/ "apifail" \in Env
    /\ \/ ~cooling /\ MonitorSleeps
       \/ /\ cooling
          /\ mon' = "load"
          /\ UNCHANGED <<heartbeatVars, seen, loopAge, cooldown, cooling, monTimer>>
    /\ UNCHANGED <<agentVars, mainVars, scheme>>

\* The agent runs, or GetExitCodeProcess fails; the cooldown is judged by the
\* current_tick of the loop's top.
MonitorPoll ==
    /\ mon = "poll"
    /\ proc = "alive" \/ "apifail" \in Env
    /\ \/ cooling /\ MonitorSleeps
       \/ /\ ~cooling
          /\ mon' = "load"
          /\ UNCHANGED <<heartbeatVars, seen, loopAge, cooldown, cooling, monTimer>>
    /\ UNCHANGED <<agentVars, mainVars, scheme>>

\* Fault: a last_tick_time of 0 is taken for a time.
MonitorLoadNoGrace ==
    /\ mon = "load"
    /\ seen' = IF ticked THEN tickAge ELSE Horizon
    /\ mon' = "compare"
    /\ UNCHANGED <<heartbeatVars, loopAge, cooldown, cooling, monTimer>>
    /\ UNCHANGED <<agentVars, mainVars, scheme>>

\* is_alive loads last_tick_time; 0 stands for an agent yet to tick.
MonitorLoad ==
    /\ mon = "load"
    /\ \/ ~ticked /\ MonitorSleeps
       \/ /\ ticked
          /\ seen' = tickAge
          /\ mon' = "compare"
          /\ UNCHANGED <<heartbeatVars, loopAge, cooldown, cooling, monTimer>>
    /\ UNCHANGED <<agentVars, mainVars, scheme>>

\* is_alive reads the clock, after the load, and compares.
MonitorCompare ==
    /\ mon = "compare"
    /\ \/ Fresh(seen) /\ MonitorSleeps
       \/ /\ ~Fresh(seen)
          /\ mon' = "kill"
          /\ seen' = 0
          /\ UNCHANGED <<heartbeatVars, loopAge, cooldown, cooling, monTimer>>
    /\ UNCHANGED <<agentVars, mainVars, scheme>>

\* Sleep(1000) ends.
MonitorWake ==
    /\ mon = "sleep"
    /\ monTimer >= PollPeriod
    /\ mon' = "top"
    /\ monTimer' = monTimer - PollPeriod
    /\ UNCHANGED <<heartbeatVars, seen, loopAge, cooldown, cooling, agentVars,
                   mainVars, scheme>>

(***************************************************************************)
(* The agent process.                                                      *)
(***************************************************************************)

\* The process ends: its threads and flags go, its handles are closed.
AgentGone(exit) ==
    /\ proc' = exit
    /\ hung' = FALSE /\ ctl' = "none" /\ ctlTimer' = 0
    /\ running' = FALSE /\ suspended' = FALSE /\ saver' = FALSE

\* TerminateProcess(hProcess, 0xDEAD) on a process that may have exited by
\* now, whose exit code then stands; its result is ignored.  The monitor
\* returns and its reader is destroyed.
MonitorKill ==
    /\ mon = "kill"
    /\ MonitorReturns
    /\ reader' = "none"
    /\ \/ proc = "alive" /\ AgentGone("failed") /\ writer' = "none"
       \/ /\ proc # "alive" \/ "apifail" \in Env
          /\ UNCHANGED <<agentVars, writer>>
    /\ Released(writer')
    /\ UNCHANGED <<mainVars, scheme>>

\* ActuatorManager's constructor finds or duplicates the scheme and sets
\* it active, ignoring failures; later the threads are started.
AgentInit ==
    /\ ctl = "init"
    /\ ctl' = "boot"
    /\ ctlTimer' = 0
    /\ \/ scheme' = "nanoloop"
       \/ "apifail" \in Env /\ scheme' = scheme
    /\ UNCHANGED <<heartbeatVars, monitorVars, mainVars, proc, hung, running,
                   suspended, saver>>

\* control_loop starts by constructing its HeartbeatWriter.
CtlBoot ==
    /\ ctl = "boot" /\ ~hung
    /\ WriterOpen
    /\ "apifail" \in Env \/ writer' = "view"
    /\ ctl' = "top"
    /\ ctlTimer' = 0
    /\ UNCHANGED <<monitorVars, mainVars, proc, hung, running, suspended, saver,
                   scheme>>

\* A wait_for of the control loop returns.  The interval may be shorter than
\* one unit of time; the yielding wait ends early only with its predicate.
CtlAwake ==
    \/ ctl \in {"top", "wait"}
    \/ /\ ctl = "yield"
       /\ ctlTimer >= YieldWait \/ ~running \/ (~suspended /\ ~saver)

\* while (g_running): work, or yield without a tick.
CtlLoop ==
    /\ CtlAwake /\ ~hung
    /\ running
    /\ ctl' = IF suspended \/ saver THEN "yield" ELSE "work"
    /\ ctlTimer' = 0
    /\ UNCHANGED <<heartbeatVars, monitorVars, mainVars, proc, hung, running,
                   suspended, saver, scheme>>

\* The loop ends and its HeartbeatWriter is destroyed.
CtlReturn ==
    /\ CtlAwake /\ ~hung
    /\ ~running
    /\ ctl' = "done"
    /\ ctlTimer' = 0
    /\ WriterClose
    /\ UNCHANGED <<monitorVars, mainVars, proc, hung, running, suspended, saver,
                   scheme>>

\* evaluate .. commit_changes have returned: tick, then wait_for.
CtlTick ==
    /\ ctl = "work" /\ ~hung
    /\ WriterTick
    /\ ctl' = "wait"
    /\ ctlTimer' = 0
    /\ UNCHANGED <<monitorVars, mainVars, proc, hung, running, suspended, saver,
                   scheme>>

\* main joins the other threads, stops the sensors and returns 0.
AgentExit ==
    /\ ctl = "done"
    /\ AgentGone("clean")
    /\ UNCHANGED <<heartbeatVars, monitorVars, mainVars, scheme>>

(***************************************************************************)
(* The environment of the agent.                                           *)
(***************************************************************************)

\* A call made by the control loop does not return.
CtlHang ==
    /\ "hang" \in Env
    /\ ctl \in {"boot", "work"} /\ ~hung
    /\ hung' = TRUE
    /\ UNCHANGED <<heartbeatVars, monitorVars, mainVars, proc, ctl, ctlTimer,
                   running, suspended, saver, scheme>>

\* The process dies with an exit code other than 0.
AgentCrash ==
    /\ "crash" \in Env
    /\ proc = "alive"
    /\ AgentGone("failed")
    /\ WriterClose
    /\ UNCHANGED <<monitorVars, mainVars, scheme>>

\* Ctrl-C, or the end of the message loop: g_running.exchange(false).
AgentQuit ==
    /\ "quit" \in Env
    /\ proc = "alive" /\ ctl # "init"
    /\ running
    /\ running' = FALSE
    /\ UNCHANGED <<heartbeatVars, monitorVars, mainVars, proc, hung, ctl, ctlTimer,
                   suspended, saver, scheme>>

\* WM_POWERBROADCAST: suspend and resume, if they reach the window at all.
WindowProcSuspend ==
    /\ "suspend" \in Env
    /\ proc = "alive" /\ ctl # "init"
    /\ suspended' = ~suspended
    /\ UNCHANGED <<heartbeatVars, monitorVars, mainVars, proc, hung, ctl, ctlTimer,
                   running, saver, scheme>>

\* PBT_POWERSETTINGCHANGE for GUID_POWER_SAVING_STATUS
WindowProcSaver ==
    /\ "saver" \in Env
    /\ proc = "alive" /\ ctl # "init"
    /\ saver' = ~saver
    /\ UNCHANGED <<heartbeatVars, monitorVars, mainVars, proc, hung, ctl, ctlTimer,
                   running, suspended, scheme>>

(***************************************************************************)
(* Time.                                                                   *)
(***************************************************************************)

\* What GetTickCount64() measures.
ClockAdvance(d) ==
    /\ tickAge' = Later(ticked, tickAge, d)
    /\ seen' = Later(mon = "compare", seen, d)
    /\ loopAge' = Later(mon \in MonitorPlaces \ {"off", "open", "done"}, loopAge, d)
    /\ cooldown' = IF cooldown > d THEN cooldown - d ELSE 0

\* What Sleep, wait_for and the scheduler measure.
TimersAdvance(d) ==
    /\ monTimer' = Later(mon \notin {"off", "done"}, monTimer, d)
    /\ ctlTimer' = Later(proc = "alive", ctlTimer, d)
    /\ backoffTimer' = Later(main = "backoff", backoffTimer, d)

Untimed ==
    UNCHANGED <<writer, reader, ticked, main, active, mon, cooling, proc, hung,
                ctl, running, suspended, saver, recoveries, scheme>>

MonitorDue ==
    IF mon = "retry" THEN OpenWait ELSE IF mon = "sleep" THEN PollPeriod ELSE 0

CtlDue ==
    IF ctl = "wait" THEN Interval ELSE IF ctl = "yield" THEN YieldWait ELSE 0

MonitorPunctual ==
    mon \notin {"off", "done"} => monTimer < MonitorDue + MonitorLate

\* Starting the process may take any time, a hung thread takes for ever.
CtlPunctual ==
    ctl \in {"top", "work", "wait", "yield", "done"} /\ ~hung
        => ctlTimer < CtlDue + AgentLate

Tick ==
    /\ MonitorPunctual
    /\ CtlPunctual
    /\ ClockAdvance(1)
    /\ TimersAdvance(1)
    /\ Untimed

\* The machine sleeps: no thread runs and no wait makes progress, but
\* GetTickCount64() goes on.
SystemSleep ==
    /\ "suspend" \in Env
    /\ \E d \in SuspendLengths : ClockAdvance(d)
    /\ UNCHANGED <<monTimer, ctlTimer, backoffTimer>>
    /\ Untimed

(***************************************************************************)
(* The specification.                                                      *)
(***************************************************************************)
MainNext ==
    \/ MainLaunch \/ MainLaunchFails \/ MainNotice \/ MainJoin
    \/ MainFinish \/ MainRecover \/ MainRestart

MonitorNext ==
    \/ MonitorOpen \/ MonitorGiveUp \/ MonitorTop \/ MonitorStopped
    \/ MonitorSeesExit \/ MonitorPoll \/ MonitorLoad \/ MonitorCompare
    \/ MonitorKill \/ MonitorWake

CtlNext == AgentInit \/ CtlBoot \/ CtlLoop \/ CtlReturn \/ CtlTick \/ AgentExit

EnvNext ==
    CtlHang \/ AgentCrash \/ AgentQuit \/ WindowProcSuspend \/ WindowProcSaver

Next == MainNext \/ MonitorNext \/ CtlNext \/ EnvNext \/ Tick \/ SystemSleep

\* Threads that can run are run, and time passes; nothing is assumed of
\* the environment.
Fairness ==
    /\ WF_vars(MainNext)
    /\ WF_vars(MonitorNext)
    /\ WF_vars(CtlNext)
    /\ WF_vars(Tick)

Spec == Init /\ [][Next]_vars /\ Fairness

(***************************************************************************)
(* Properties.                                                             *)
(***************************************************************************)

\* The longest a responsive agent that does not yield leaves last_tick_time
\* alone: it wakes late, and works late or, if it quits, is late to exit.
TickGap == Interval + 2 * AgentLate

\* The timeout leaves room for that and for a late monitor.
TimeoutSuffices == TickGap + MonitorLate < StaleTimeout

\* A monitor as late as it may be is not taken for one that slept, and
\* attaches in time.
MonitorKeepsUp ==
    /\ PollPeriod + 2 * MonitorLate <= DelayLimit
    /\ MonitorLate < StaleTimeout + PollPeriod

\* Neither does the machine sleep nor is battery saver switched on.
NeverYields == Env \intersect {"suspend", "saver"} = {}

\* The monitor terminates only an agent that hangs: however the load of
\* last_tick_time, the clock, the kill and the agent's own ticks, quit and
\* exit interleave, a responsive agent is never killed (monitor_heartbeat,
\* is_alive(5000) and TerminateProcess against control_loop's tick()).
NoFalseKill == mon = "kill" /\ proc = "alive" => hung

\* A heartbeat the monitor watches is never as old as the timeout, one poll
\* and the monitor's lateness together: by then an agent whose ticks stopped
\* has been terminated (monitor_heartbeat's loop, cooldown included).
HangDeadline ==
    reader = "view" /\ ticked /\ proc = "alive"
        => tickAge < StaleTimeout + PollPeriod + MonitorLate

\* A newly started agent never finds the section of its predecessor, whose
\* old tick would have it killed on sight: the join before the restart sees
\* to it that the last handle is closed.
NoStaleSection == ctl \in {"init", "boot"} => ~SectionExists /\ ~ticked

\* From the recovery of a failed agent until its successor takes over, and
\* for good once the watchdog gives up, the fail-safe scheme is active.
FailSafeAsserted ==
    proc = "failed" /\ main \in {"backoff", "start", "stop1"} => scheme = "balanced"

\* Dead agents do not stay unattended: the watchdog relaunches the agent or
\* stops (WaitForSingleObject, join and backoff all come to an end).
Attended == proc \in {"clean", "failed"} ~> main \in {"wait", "stop0", "stop1"} /\
                                            (main = "wait" => proc = "alive")

\* An agent that hangs after its first tick, in view of the monitor, does
\* not live on.
HangEnds ==
    (hung /\ ticked /\ reader = "view") ~> ~(hung /\ ticked /\ reader = "view")

\* "Wait up to 3 seconds for the agent's heartbeat section to initialize":
\* if the section is there during the wait, the monitor gets to read it.
SectionNoticed ==
    (mon = "retry" /\ writer = "view") ~> (reader = "view" \/ proc # "alive")

\* Watchdog implements Supervisor: the launch covers the backoff before it,
\* supervision lasts until the verdict on the exit code.
Sup == INSTANCE Supervisor WITH
    phase <- CASE main \in {"start", "backoff"} -> "launching"
               [] main \in {"wait", "join", "assess"} -> "supervising"
               [] main = "stop0" -> "finished"
               [] main = "stop1" -> "gaveUp",
    agent <- IF proc = "alive" THEN "running" ELSE proc,
    failures <- recoveries,
    safe <- main \in {"start", "backoff", "stop1"} /\ scheme = "balanced",
    LaunchMayFail <- "createfail" \in Env,
    ResetMayFail <- "apifail" \in Env,
    VerdictMayFail <- "apifail" \in Env

\* However monitor, agent and main thread interleave, the watchdog launches,
\* recovers, gives up and concludes as Supervisor says.
Supervised == Sup!SupSpec
==============================================================================
