----------------------------- MODULE AgentThreads -----------------------------
(***************************************************************************)
(* The threads of the agent process and how they are stopped               *)
(* (agent/main.cpp): the telemetry, control and governor threads, the main *)
(* thread with its message loop, and the console control handler, which    *)
(* Windows runs on a thread of its own.  They share g_running, the two     *)
(* flags that make the workers pause, g_shutdown_mutex, g_shutdown_cv and  *)
(* the sensors.                                                            *)
(*                                                                         *)
(* One action is one step another thread can interleave with: an access to *)
(* an atomic, taking the mutex, waiting on the condition variable.         *)
(***************************************************************************)
EXTENDS Naturals, FiniteSets

CONSTANTS
    Workers,  \* the threads joined by main
    control,  \* the one that runs control_loop
    telemetry,\* the one that reads the sensors
    MaxEvents \* bounds what comes from outside, see events

ASSUME ThreadsAssumption ==
    /\ {control, telemetry} \subseteq Workers
    /\ {"free", "main", "ctrl"} \intersect Workers = {}
    /\ MaxEvents \in Nat

VARIABLES
    running, \* g_running
    paused,  \* g_suspended || g_battery_saver
    mutex,   \* who holds g_shutdown_mutex, or "free"
    at,      \* where each worker is
    yields,  \* the control loop waits because it is paused
    notified,\* the waiting workers that a notify_all has reached
    mainAt,  \* where the main thread is
    ctrlAt,  \* where the console control handler is
    quit,    \* WM_QUIT is in the main thread's queue
    query,   \* m_query is open
    events   \* console events, power messages and spurious wakeups so far

vars == <<running, paused, mutex, at, yields, notified, mainAt, ctrlAt, quit,
          query, events>>

WorkerPlaces ==
    {"check", "flags", "work", "lock", "pred", "enter", "wait", "relock",
     "unlock", "done"}

MainPlaces == {"pump", "exchange", "lock", "notify", "unlock", "join", "stop", "done"}
CtrlPlaces == {"idle", "exchange", "lock", "notify", "unlock", "post"}

\* Every variable has its type, and the mutex is with the thread that is
\* where it holds it: unique_lock, wait_for and lock_guard hand it on.
TypeOK ==
    /\ running \in BOOLEAN
    /\ paused \in BOOLEAN
    /\ mutex \in Workers \union {"free", "main", "ctrl"}
    /\ at \in [Workers -> WorkerPlaces]
    /\ yields \in BOOLEAN
    /\ notified \subseteq Workers
    /\ mainAt \in MainPlaces
    /\ ctrlAt \in CtrlPlaces
    /\ quit \in BOOLEAN
    /\ query \in BOOLEAN
    /\ events \in 0..MaxEvents
    /\ \A w \in Workers : mutex = w <=> at[w] \in {"pred", "enter", "unlock"}
    /\ mutex = "main" <=> mainAt \in {"notify", "unlock"}
    /\ mutex = "ctrl" <=> ctrlAt \in {"notify", "unlock"}

\* main has started the sensors and the threads and pumps messages.
Init ==
    /\ running = TRUE
    /\ paused = FALSE
    /\ mutex = "free"
    /\ at = [w \in Workers |-> "check"]
    /\ yields = FALSE
    /\ notified = {}
    /\ mainAt = "pump"
    /\ ctrlAt = "idle"
    /\ quit = FALSE
    /\ query \in BOOLEAN  \* PdhOpenQuery may have failed
    /\ events = 0

(***************************************************************************)
(* The workers.                                                            *)
(***************************************************************************)
Goes(w, place) == at' = [at EXCEPT ![w] = place]

\* while (g_running)
WorkerCheck(w) ==
    /\ at[w] = "check"
    /\ Goes(w, IF running THEN "flags" ELSE "done")
    /\ UNCHANGED <<running, paused, mutex, yields, notified, mainAt, ctrlAt,
                   quit, query, events>>

\* The pausing workers skip their work; the control loop waits in another
\* wait_for than the one that follows its work.
WorkerFlags(w) ==
    /\ at[w] = "flags"
    /\ Goes(w, IF paused THEN "lock" ELSE "work")
    /\ yields' = IF w = control THEN paused ELSE yields
    /\ UNCHANGED <<running, paused, mutex, notified, mainAt, ctrlAt, quit, query,
                   events>>

\* A collection, an evaluation with its actuations, or a scan.
WorkerWork(w) ==
    /\ at[w] = "work"
    /\ Goes(w, "lock")
    /\ UNCHANGED <<running, paused, mutex, yields, notified, mainAt, ctrlAt,
                   quit, query, events>>

\* std::unique_lock, before the wait and when the wait is over
WorkerLock(w) ==
    /\ at[w] \in {"lock", "relock"}
    /\ mutex = "free"
    /\ mutex' = w
    /\ Goes(w, "pred")
    /\ UNCHANGED <<running, paused, yields, notified, mainAt, ctrlAt, quit,
                   query, events>>

\* The predicate of the wait_for the worker is in
Satisfied(w) == ~running \/ (w = control /\ yields /\ ~paused)

\* wait_for evaluates the predicate with the mutex held.
WorkerPred(w) ==
    /\ at[w] = "pred"
    /\ Goes(w, IF Satisfied(w) THEN "unlock" ELSE "enter")
    /\ UNCHANGED <<running, paused, mutex, yields, notified, mainAt, ctrlAt,
                   quit, query, events>>

\* It releases the mutex and is among those who wait, in one step.
WorkerEnter(w) ==
    /\ at[w] = "enter"
    /\ Goes(w, "wait")
    /\ mutex' = "free"
    /\ notified' = notified \ {w}
    /\ UNCHANGED <<running, paused, yields, mainAt, ctrlAt, quit, query,
                   events>>

\* A notification: the mutex and the predicate are next.
WorkerWakes(w) ==
    /\ at[w] = "wait"
    /\ w \in notified
    /\ Goes(w, "relock")
    /\ UNCHANGED <<running, paused, mutex, yields, notified, mainAt, ctrlAt,
                   quit, query, events>>

\* A condition variable may wake without a reason, but not for ever within
\* one time limit.
WorkerWakesSpuriously(w) ==
    /\ at[w] = "wait"
    /\ w \notin notified
    /\ events < MaxEvents
    /\ events' = events + 1
    /\ Goes(w, "relock")
    /\ UNCHANGED <<running, paused, mutex, yields, notified, mainAt, ctrlAt,
                   quit, query>>

\* Fault: no time limit on the wait of the pausing control loop.
WorkerTimesOutUnlessYielding(w) ==
    /\ at[w] = "wait"
    /\ ~(w = control /\ yields)
    /\ mutex = "free"
    /\ mutex' = w
    /\ Goes(w, "unlock")
    /\ UNCHANGED <<running, paused, yields, notified, mainAt, ctrlAt, quit,
                   query, events>>

\* Fault: the wait that times out returns without the mutex.
WorkerTimesOutUnlocked(w) ==
    /\ at[w] = "wait"
    /\ Goes(w, "unlock")
    /\ UNCHANGED <<running, paused, mutex, yields, notified, mainAt, ctrlAt,
                   quit, query, events>>

\* The time is up: wait_for takes the mutex and returns.
WorkerTimesOut(w) ==
    /\ at[w] = "wait"
    /\ mutex = "free"
    /\ mutex' = w
    /\ Goes(w, "unlock")
    /\ UNCHANGED <<running, paused, yields, notified, mainAt, ctrlAt, quit,
                   query, events>>

\* The lock goes out of scope.
WorkerUnlock(w) ==
    /\ at[w] = "unlock"
    /\ mutex' = "free"
    /\ Goes(w, "check")
    /\ notified' = notified \ {w}
    /\ UNCHANGED <<running, paused, yields, mainAt, ctrlAt, quit, query,
                   events>>

(***************************************************************************)
(* The console control handler: Ctrl-C and Ctrl-Break.                     *)
(***************************************************************************)
CtrlEvent ==
    /\ ctrlAt = "idle"
    /\ mainAt # "done"
    /\ events < MaxEvents
    /\ events' = events + 1
    /\ ctrlAt' = "exchange"
    /\ UNCHANGED <<running, paused, mutex, at, yields, notified, mainAt, quit,
                   query>>

\* if (g_running.exchange(false))
CtrlExchange ==
    /\ ctrlAt = "exchange"
    /\ running' = FALSE
    /\ ctrlAt' = IF running THEN "lock" ELSE "idle"
    /\ UNCHANGED <<paused, mutex, at, yields, notified, mainAt, quit, query,
                   events>>

Waiting == {w \in Workers : at[w] = "wait"}

\* Fault: the handler notifies without taking the mutex.
CtrlLockNot ==
    /\ ctrlAt = "lock"
    /\ notified' = notified \union Waiting
    /\ ctrlAt' = "post"
    /\ UNCHANGED <<running, paused, mutex, at, yields, mainAt, quit, query,
                   events>>

CtrlLock ==
    /\ ctrlAt = "lock"
    /\ mutex = "free"
    /\ mutex' = "ctrl"
    /\ ctrlAt' = "notify"
    /\ UNCHANGED <<running, paused, at, yields, notified, mainAt, quit, query,
                   events>>

\* g_shutdown_cv.notify_all()
CtrlNotify ==
    /\ ctrlAt = "notify"
    /\ notified' = notified \union Waiting
    /\ ctrlAt' = "unlock"
    /\ UNCHANGED <<running, paused, mutex, at, yields, mainAt, quit, query,
                   events>>

CtrlUnlock ==
    /\ ctrlAt = "unlock"
    /\ mutex' = "free"
    /\ ctrlAt' = "post"
    /\ UNCHANGED <<running, paused, at, yields, notified, mainAt, quit, query,
                   events>>

\* Fault: the handler leaves the message loop to find out by itself.
CtrlPostNot ==
    /\ ctrlAt = "post"
    /\ ctrlAt' = "idle"
    /\ UNCHANGED <<running, paused, mutex, at, yields, notified, mainAt, quit,
                   query, events>>

\* PostThreadMessage(s_mainThreadId, WM_QUIT, 0, 0)
CtrlPost ==
    /\ ctrlAt = "post"
    /\ quit' = TRUE
    /\ ctrlAt' = "idle"
    /\ UNCHANGED <<running, paused, mutex, at, yields, notified, mainAt, query,
                   events>>

(***************************************************************************)
(* The main thread.                                                        *)
(***************************************************************************)

\* WindowProc: suspend, resume, battery saver on and off
MainPowerMessage ==
    /\ mainAt = "pump"
    /\ events < MaxEvents
    /\ events' = events + 1
    /\ paused' = ~paused
    /\ UNCHANGED <<running, mutex, at, yields, notified, mainAt, ctrlAt, quit,
                   query>>

\* GetMessage returns 0 on the WM_QUIT of the handler, or on the one of
\* WM_DESTROY.
MainQuits ==
    /\ mainAt = "pump"
    /\ \/ quit /\ UNCHANGED events
       \/ events < MaxEvents /\ events' = events + 1
    /\ mainAt' = "exchange"
    /\ UNCHANGED <<running, paused, mutex, at, yields, notified, ctrlAt, quit,
                   query>>

MainExchange ==
    /\ mainAt = "exchange"
    /\ running' = FALSE
    /\ mainAt' = IF running THEN "lock" ELSE "join"
    /\ UNCHANGED <<paused, mutex, at, yields, notified, ctrlAt, quit, query,
                   events>>

MainLock ==
    /\ mainAt = "lock"
    /\ mutex = "free"
    /\ mutex' = "main"
    /\ mainAt' = "notify"
    /\ UNCHANGED <<running, paused, at, yields, notified, ctrlAt, quit, query,
                   events>>

MainNotify ==
    /\ mainAt = "notify"
    /\ notified' = notified \union Waiting
    /\ mainAt' = "unlock"
    /\ UNCHANGED <<running, paused, mutex, at, yields, ctrlAt, quit, query,
                   events>>

MainUnlock ==
    /\ mainAt = "unlock"
    /\ mutex' = "free"
    /\ mainAt' = "join"
    /\ UNCHANGED <<running, paused, at, yields, notified, ctrlAt, quit, query,
                   events>>

\* Fault: the telemetry thread is not waited for.
MainJoinSome ==
    /\ mainAt = "join"
    /\ \A w \in Workers \ {telemetry} : at[w] = "done"
    /\ mainAt' = "stop"
    /\ UNCHANGED <<running, paused, mutex, at, yields, notified, ctrlAt, quit,
                   query, events>>

\* telemetry.join(); ai.join(); gov.join()
MainJoin ==
    /\ mainAt = "join"
    /\ \A w \in Workers : at[w] = "done"
    /\ mainAt' = "stop"
    /\ UNCHANGED <<running, paused, mutex, at, yields, notified, ctrlAt, quit,
                   query, events>>

\* sensors.stop(): the hook's callbacks ran in this thread's message loop,
\* so none is in flight; the query is closed.
MainStop ==
    /\ mainAt = "stop"
    /\ query' = FALSE
    /\ mainAt' = "done"
    /\ UNCHANGED <<running, paused, mutex, at, yields, notified, ctrlAt, quit,
                   events>>

(***************************************************************************)
(* The specification.                                                      *)
(***************************************************************************)
WorkerNext(w) ==
    \/ WorkerCheck(w) \/ WorkerFlags(w) \/ WorkerWork(w) \/ WorkerLock(w)
    \/ WorkerPred(w) \/ WorkerEnter(w) \/ WorkerWakes(w) \/ WorkerTimesOut(w)
    \/ WorkerUnlock(w)

CtrlNext ==
    \/ CtrlExchange \/ CtrlLock \/ CtrlNotify \/ CtrlUnlock \/ CtrlPost

MainSteps ==
    \/ MainExchange \/ MainLock \/ MainNotify \/ MainUnlock \/ MainJoin \/ MainStop

MainPumpsQuit == quit /\ MainQuits

Next ==
    \/ \E w \in Workers : WorkerNext(w) \/ WorkerWakesSpuriously(w)
    \/ CtrlEvent \/ CtrlNext
    \/ MainPowerMessage \/ MainQuits \/ MainSteps

\* No thread is starved, of the mutex neither; a timeout does come.
Fairness ==
    /\ \A w \in Workers : SF_vars(WorkerNext(w))
    /\ SF_vars(CtrlNext)
    /\ SF_vars(MainSteps)
    /\ WF_vars(MainPumpsQuit)

Spec == Init /\ [][Next]_vars /\ Fairness

(***************************************************************************)
(* Properties.                                                             *)
(***************************************************************************)

\* Once the thread that stopped g_running has notified, no worker is left
\* waiting without a notification: the shutdown does not depend on the
\* waits' time limits (exchange, lock_guard and notify_all against wait_for
\* and its predicate).
NoLostWakeup ==
    ~running /\ {mainAt, ctrlAt} \intersect {"lock", "notify"} = {}
        => Waiting \subseteq notified

\* No thread works, on the sensors' query, the database or the actuators,
\* when main has closed the query and is about to destroy them.
NoWorkAfterStop == mainAt = "done" => \A w \in Workers : at[w] = "done"

\* Ctrl-C, a second Ctrl-C and WM_QUIT in whatever order: a shutdown once
\* begun is completed.
ShutdownCompletes == ~running ~> mainAt = "done"

\* Nothing notifies the control loop of a resume; it works again all the same.
ResumeTakesEffect ==
    <>[](running /\ ~paused) => []<>(at[control] = "work")
==============================================================================
