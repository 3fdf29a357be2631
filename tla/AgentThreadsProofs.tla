-------------------------- MODULE AgentThreadsProofs --------------------------
(***************************************************************************)
(* Safety of the agent's threads, for any set of workers and any number of *)
(* events from outside.  TypeOK, which says who holds the mutex, is        *)
(* inductive; the properties of the shutdown are proved on top of it.      *)
(***************************************************************************)
EXTENDS AgentThreads, TLAPS

(***************************************************************************)
(* Types, and who holds the mutex.                                         *)
(***************************************************************************)

\* The threads start well-typed, the mutex free.
LEMMA TypeInit == Init => TypeOK
<1>. SUFFICES ASSUME Init PROVE TypeOK
  OBVIOUS
<1>1. running \in BOOLEAN /\ paused \in BOOLEAN /\ yields \in BOOLEAN
      /\ quit \in BOOLEAN /\ query \in BOOLEAN
  BY Zenon DEF Init
<1>2. at \in [Workers -> WorkerPlaces]
      /\ \A w \in Workers : mutex = w <=> at[w] \in {"pred", "enter", "unlock"}
  BY ThreadsAssumption DEF Init, WorkerPlaces
<1>3. mutex \in Workers \union {"free", "main", "ctrl"} /\ notified \subseteq Workers
  BY DEF Init
<1>4. /\ mainAt \in MainPlaces
      /\ ctrlAt \in CtrlPlaces
      /\ mutex = "main" <=> mainAt \in {"notify", "unlock"}
      /\ mutex = "ctrl" <=> ctrlAt \in {"notify", "unlock"}
  BY DEF Init, MainPlaces, CtrlPlaces
<1>5. events \in 0..MaxEvents
  BY ThreadsAssumption DEF Init
<1>. QED
  BY <1>1, <1>2, <1>3, <1>4, <1>5 DEF TypeOK

\* A step of a worker keeps the types and hands the mutex on.
LEMMA WorkerTypeStep ==
    ASSUME TypeOK, NEW w \in Workers, WorkerNext(w) \/ WorkerWakesSpuriously(w)
    PROVE  TypeOK'
<1>. USE ThreadsAssumption DEF TypeOK, WorkerPlaces, Goes
<1>1. CASE WorkerCheck(w)  BY <1>1 DEF WorkerCheck
<1>2. CASE WorkerFlags(w)  BY <1>2 DEF WorkerFlags
<1>3. CASE WorkerWork(w)  BY <1>3 DEF WorkerWork
<1>4. CASE WorkerLock(w)  BY <1>4 DEF WorkerLock
<1>5. CASE WorkerPred(w)  BY <1>5 DEF WorkerPred
<1>6. CASE WorkerEnter(w)  BY <1>6 DEF WorkerEnter
<1>7. CASE WorkerWakes(w)  BY <1>7 DEF WorkerWakes
<1>8. CASE WorkerTimesOut(w)  BY <1>8 DEF WorkerTimesOut
<1>9. CASE WorkerUnlock(w)  BY <1>9 DEF WorkerUnlock
<1>10. CASE WorkerWakesSpuriously(w)  BY <1>10 DEF WorkerWakesSpuriously
<1>. QED
  BY <1>1, <1>2, <1>3, <1>4, <1>5, <1>6, <1>7, <1>8, <1>9, <1>10 DEF WorkerNext

\* So does every step.
LEMMA TypeStep ==
    ASSUME TypeOK, [Next]_vars
    PROVE  TypeOK'
<1>. USE ThreadsAssumption DEF TypeOK, MainPlaces, CtrlPlaces
<1>1. CASE \E w \in Workers : WorkerNext(w) \/ WorkerWakesSpuriously(w)
  BY <1>1, WorkerTypeStep
<1>2. CASE CtrlEvent  BY <1>2 DEF CtrlEvent
<1>3. CASE CtrlExchange  BY <1>3 DEF CtrlExchange
<1>4. CASE CtrlLock  BY <1>4 DEF CtrlLock
<1>5. CASE CtrlNotify  BY <1>5 DEF CtrlNotify, Waiting
<1>6. CASE CtrlUnlock  BY <1>6 DEF CtrlUnlock
<1>7. CASE CtrlPost  BY <1>7 DEF CtrlPost
<1>8. CASE MainPowerMessage  BY <1>8 DEF MainPowerMessage
<1>9. CASE MainQuits  BY <1>9 DEF MainQuits
<1>10. CASE MainExchange  BY <1>10 DEF MainExchange
<1>11. CASE MainLock  BY <1>11 DEF MainLock
<1>12. CASE MainNotify  BY <1>12 DEF MainNotify, Waiting
<1>13. CASE MainUnlock  BY <1>13 DEF MainUnlock
<1>14. CASE MainJoin  BY <1>14 DEF MainJoin
<1>15. CASE MainStop  BY <1>15 DEF MainStop
<1>16. CASE UNCHANGED vars  BY <1>16 DEF vars
<1>. QED
  BY <1>1, <1>2, <1>3, <1>4, <1>5, <1>6, <1>7, <1>8, <1>9, <1>10, <1>11, <1>12, <1>13,
     <1>14, <1>15, <1>16 DEF Next, CtrlNext, MainSteps

\* Every variable of the agent's threads keeps its type, and the mutex is
\* held by one thread at a time, the one whose code is inside it.
THEOREM ThreadsTypeCorrect == Spec => []TypeOK
BY TypeInit, TypeStep, PTL DEF Spec

(***************************************************************************)
(* The notification of the shutdown.  Once it is out, no worker is between *)
(* a predicate it found false and its wait either: the notifying thread    *)
(* held the mutex, and predicates evaluated since then find g_running      *)
(* false.                                                                  *)
(***************************************************************************)
Notified == ~running /\ {mainAt, ctrlAt} \intersect {"lock", "notify"} = {}

WakeInv ==
    Notified => /\ Waiting \subseteq notified
                /\ \A w \in Workers : at[w] # "enter"

\* A worker's step does not break the notification.
LEMMA WorkerWakeStep ==
    ASSUME TypeOK, WakeInv, NEW w \in Workers,
           WorkerNext(w) \/ WorkerWakesSpuriously(w)
    PROVE  WakeInv'
<1>. USE DEF TypeOK, WakeInv, Notified, Waiting, WorkerPlaces, Goes
<1>1. CASE WorkerCheck(w)  BY <1>1 DEF WorkerCheck
<1>2. CASE WorkerFlags(w)  BY <1>2 DEF WorkerFlags
<1>3. CASE WorkerWork(w)  BY <1>3 DEF WorkerWork
<1>4. CASE WorkerLock(w)  BY <1>4 DEF WorkerLock
<1>5. CASE WorkerPred(w)  BY <1>5 DEF WorkerPred, Satisfied
<1>6. CASE WorkerEnter(w)  BY <1>6 DEF WorkerEnter
<1>7. CASE WorkerWakes(w)  BY <1>7 DEF WorkerWakes
<1>8. CASE WorkerTimesOut(w)  BY <1>8 DEF WorkerTimesOut
<1>9. CASE WorkerUnlock(w)  BY <1>9 DEF WorkerUnlock
<1>10. CASE WorkerWakesSpuriously(w)  BY <1>10 DEF WorkerWakesSpuriously
<1>. QED
  BY <1>1, <1>2, <1>3, <1>4, <1>5, <1>6, <1>7, <1>8, <1>9, <1>10 DEF WorkerNext

\* Neither does any other.
LEMMA WakeStep ==
    ASSUME TypeOK, WakeInv, [Next]_vars
    PROVE  WakeInv'
<1>. USE ThreadsAssumption DEF TypeOK, WakeInv, Notified, Waiting
<1>1. CASE \E w \in Workers : WorkerNext(w) \/ WorkerWakesSpuriously(w)
  BY <1>1, WorkerWakeStep
<1>2. CASE CtrlEvent  BY <1>2 DEF CtrlEvent
<1>3. CASE CtrlExchange  BY <1>3 DEF CtrlExchange
<1>4. CASE CtrlLock  BY <1>4 DEF CtrlLock
<1>5. CASE CtrlNotify  BY <1>5 DEF CtrlNotify
<1>6. CASE CtrlUnlock  BY <1>6 DEF CtrlUnlock
<1>7. CASE CtrlPost  BY <1>7 DEF CtrlPost
<1>8. CASE MainPowerMessage  BY <1>8 DEF MainPowerMessage
<1>9. CASE MainQuits  BY <1>9 DEF MainQuits
<1>10. CASE MainExchange  BY <1>10 DEF MainExchange
<1>11. CASE MainLock  BY <1>11 DEF MainLock
<1>12. CASE MainNotify  BY <1>12 DEF MainNotify
<1>13. CASE MainUnlock  BY <1>13 DEF MainUnlock
<1>14. CASE MainJoin  BY <1>14 DEF MainJoin
<1>15. CASE MainStop  BY <1>15 DEF MainStop
<1>16. CASE UNCHANGED vars  BY <1>16 DEF vars
<1>. QED
  BY <1>1, <1>2, <1>3, <1>4, <1>5, <1>6, <1>7, <1>8, <1>9, <1>10, <1>11, <1>12, <1>13,
     <1>14, <1>15, <1>16 DEF Next, CtrlNext, MainSteps

\* No worker misses the shutdown, whoever begins it, whatever else wakes the
\* workers and however many they are.
THEOREM NoWakeupLost == Spec => []NoLostWakeup
<1>1. Init => WakeInv
  BY DEF Init, WakeInv, Notified
<1>2. WakeInv => NoLostWakeup
  BY DEF WakeInv, Notified, NoLostWakeup
<1>. QED  BY <1>1, <1>2, TypeInit, TypeStep, WakeStep, PTL DEF Spec

(***************************************************************************)
(* The end of the workers.                                                 *)
(***************************************************************************)
JoinInv ==
    mainAt \in {"stop", "done"} => \A w \in Workers : at[w] = "done"

\* A worker that has returned does not come back.
LEMMA JoinStep ==
    ASSUME TypeOK, JoinInv, [Next]_vars
    PROVE  JoinInv'
<1>. USE DEF TypeOK, JoinInv
<1>1. ASSUME NEW w \in Workers, WorkerNext(w) \/ WorkerWakesSpuriously(w)
      PROVE  JoinInv'
  BY <1>1 DEF WorkerNext, WorkerWakesSpuriously, WorkerCheck, WorkerFlags, WorkerWork,
              WorkerLock, WorkerPred, WorkerEnter, WorkerWakes, WorkerTimesOut,
              WorkerUnlock
<1>2. CASE CtrlEvent \/ CtrlNext
  BY <1>2 DEF CtrlEvent, CtrlNext, CtrlExchange, CtrlLock, CtrlNotify, CtrlUnlock,
              CtrlPost
<1>3. CASE MainPowerMessage \/ MainQuits
  BY <1>3 DEF MainPowerMessage, MainQuits
<1>4. CASE MainSteps
  BY <1>4 DEF MainSteps, MainExchange, MainLock, MainNotify, MainUnlock, MainJoin,
              MainStop
<1>5. CASE UNCHANGED vars  BY <1>5 DEF vars
<1>. QED  BY <1>1, <1>2, <1>3, <1>4, <1>5 DEF Next

\* When the sensors have been stopped nobody is left to use them.
THEOREM NobodyWorksAfterStop == Spec => []NoWorkAfterStop
<1>1. Init => JoinInv
  BY DEF Init, JoinInv
<1>2. JoinInv => NoWorkAfterStop
  BY DEF JoinInv, NoWorkAfterStop
<1>. QED  BY <1>1, <1>2, TypeInit, TypeStep, JoinStep, PTL DEF Spec
==============================================================================
