----------------------------- MODULE ControlLoop -----------------------------
(***************************************************************************)
(* What the control loop computes: the stress score, the interval to the   *)
(* next iteration, whether the measurements have changed enough to act     *)
(* (agent/controller.cpp), and which adjustments the deadband lets through *)
(* (agent/actuators.cpp).  An iteration is one step here; PowerSchemes     *)
(* takes the commit apart, TagDatabase the snapshot.                       *)
(*                                                                         *)
(* Real numbers are scaled so that the code's arithmetic is exact in       *)
(* integers: weights in thousandths, the stress score in 2000ths of a      *)
(* percent, adjustments in 1600ths of a percent.  Measurements are whole   *)
(* percents, counts and degrees; they are never NaN here.                  *)
(***************************************************************************)
EXTENDS Integers

CONSTANTS
    Snapshots,    \* what TagDatabase::get_snapshot may return
    QueueNorm,    \* log1p(queue) / log1p(50) * 100, clamped, by queue
    Weights,      \* config::SSS_*_WEIGHT
    Epsilon,      \* config::DIRTY_FLAG_EPSILON
    HighDeadband, MediumDeadband, LowDeadband, \* as adjustments
    MinInterval, MaxInterval, \* in whichever order
    None,         \* no adjustment: has_value is false
    Answers       \* what the model may answer, as adjustments

\* What the stress is made of; "rest" stands for the five other tags, which
\* make a snapshot dirty all the same.
Measures == {"cpu", "queue", "thermal", "gpu", "disk"}
Tags == Measures \union {"rest"}
Actuators == {"PerformanceBoost", "ProcessorFloor"}
AdjustmentSets == [Actuators -> Int \union {None}]

\* The whole of a stress score; of an adjustment it is 160000.
Full == 200000

\* What an int holds
Int32 == (-2147483647 - 1)..2147483647

\* load_from_file accepts weights whose sum is about 1, and any intervals,
\* deadbands and epsilon; intervals too far apart for an int are left out.
ASSUME ControlAssumption ==
    /\ Snapshots \subseteq [Tags -> Nat]
    /\ \A s \in Snapshots : s["queue"] \in DOMAIN QueueNorm
    /\ QueueNorm \in [DOMAIN QueueNorm -> 0..100]
    /\ Weights \in [Measures -> Int]
    /\ Weights["cpu"] + Weights["queue"] + Weights["thermal"] + Weights["gpu"]
          + Weights["disk"] \in 991..1009
    /\ Epsilon \in Int
    /\ {HighDeadband, MediumDeadband, LowDeadband} \subseteq Int
    /\ MinInterval \in Int /\ MaxInterval \in Int
    /\ MaxInterval - MinInterval \in Int32
    /\ None \notin Int
    /\ Answers \subseteq AdjustmentSets

VARIABLES
    snap,       \* the snapshot of the latest iteration
    lastState,  \* m_last_state
    lastStress, \* m_last_stress_score
    basis,      \* "none" as long as m_first_run, or where the last
                \* adjustments came from
    interval,   \* interval_ms
    applied,    \* m_last_applied_values
    wanted,     \* the last adjustments; for the properties only
    failed      \* those that could not be written; for the properties only

vars == <<snap, lastState, lastStress, basis, interval, applied, wanted, failed>>

\* Between the two bounds
Intervals == (MinInterval..MaxInterval) \union (MaxInterval..MinInterval)

TypeOK ==
    /\ snap \in Snapshots
    /\ lastState \in Snapshots
    /\ lastStress \in 0..Full
    /\ basis \in {"none", "policy", "model"}
    /\ interval \in Intervals
    /\ applied \in AdjustmentSets
    /\ wanted \in AdjustmentSets
    /\ failed \subseteq Actuators

Nothing == [a \in Actuators |-> None]

Init ==
    /\ snap \in Snapshots
    /\ lastState = snap
    /\ lastStress = 0
    /\ basis = "none"
    /\ interval = MaxInterval
    /\ applied = Nothing
    /\ wanted = Nothing
    /\ failed = {}

(***************************************************************************)
(* Controller.                                                             *)
(***************************************************************************)
Clamp(x, low, high) == IF x < low THEN low ELSE IF x > high THEN high ELSE x

\* calculate_stress_score, before its last line; at 60 degrees and below
\* there is no thermal pressure, at 100 it is full.
WeightedSum(s) ==
    2 * Weights["cpu"] * s["cpu"]
    + 2 * Weights["queue"] * QueueNorm[s["queue"]]
    + 5 * Weights["thermal"] * Clamp(s["thermal"] - 60, 0, 40)
    + 2 * Weights["gpu"] * s["gpu"]
    + 2 * Weights["disk"] * s["disk"]

\* Fault: the weighted sum is taken as it is.
StressUnclamped(s) == WeightedSum(s)

Stress(s) == Clamp(WeightedSum(s), 0, Full)

\* A quotient as (int) makes a whole number of it: towards zero
Truncate(x, y) == IF x < 0 THEN -((-x) \div y) ELSE x \div y

\* The higher the stress, the nearer to MinInterval
Interval(stress) ==
    Truncate(Full * MaxInterval - stress * (MaxInterval - MinInterval), Full)

Distance(x, y) == IF x > y THEN x - y ELSE y - x

\* is_dirty
Dirty(s) == \E t \in Tags : Distance(s[t], lastState[t]) > Epsilon

\* compute_adjustments when there is no answer from the model
Policy(stress) ==
    LET low == (30 * Full) \div 100
        high == (70 * Full) \div 100
        ratio == IF stress >= high THEN high - low
                 ELSE IF stress <= low THEN 0
                 ELSE stress - low
    IN  [a \in Actuators |-> IF a = "PerformanceBoost" THEN 2 * ratio ELSE ratio]

(***************************************************************************)
(* ActuatorManager.                                                        *)
(***************************************************************************)

\* calculate_deadband
Deadband(stress) ==
    IF 100 * stress >= 70 * Full THEN HighDeadband
    ELSE IF 100 * stress >= 30 * Full THEN MediumDeadband
    ELSE LowDeadband

\* Fault: the distance may be negative.
ShouldApplyUpward(a, value, deadband) ==
    applied[a] = None \/ value - applied[a] >= deadband

ShouldApply(a, value, deadband) ==
    applied[a] = None \/ Distance(value, applied[a]) >= deadband

\* commit_changes of these adjustments; some of the writes may fail.
Commit(adjustments, deadband) ==
    LET queued == {a \in Actuators : adjustments[a] # None}
        tried  == {a \in queued : ShouldApply(a, adjustments[a], deadband)}
    IN  /\ wanted' = adjustments
        /\ \E lost \in SUBSET tried :
              /\ failed' = lost
              /\ applied' = [a \in Actuators |->
                                IF a \in tried \ lost THEN adjustments[a]
                                ELSE applied[a]]

(***************************************************************************)
(* Iterations of control_loop.                                             *)
(***************************************************************************)

\* Fault: the state is remembered whether it was acted on or not.
EvaluateCleanRemembers(s) ==
    /\ basis # "none" /\ ~Dirty(s)
    /\ snap' = s
    /\ interval' = Interval(Stress(s))
    /\ lastState' = s
    /\ lastStress' = Stress(s)
    /\ UNCHANGED <<basis, applied, wanted, failed>>

\* evaluate finds nothing new: no adjustments, the commit has nothing to do.
EvaluateClean(s) ==
    /\ basis # "none" /\ ~Dirty(s)
    /\ snap' = s
    /\ interval' = Interval(Stress(s))
    /\ UNCHANGED <<lastState, lastStress, basis, applied, wanted, failed>>

\* evaluate computes adjustments and the commit takes them.
EvaluateDirty(s) ==
    /\ basis = "none" \/ Dirty(s)
    /\ snap' = s
    /\ interval' = Interval(Stress(s))
    /\ lastState' = s
    /\ lastStress' = Stress(s)
    /\ \/ basis' = "policy" /\ Commit(Policy(Stress(s)), Deadband(Stress(s)))
       \/ /\ basis' = "model"
          /\ \E answer \in Answers : Commit(answer, Deadband(Stress(s)))

Next == \E s \in Snapshots : EvaluateClean(s) \/ EvaluateDirty(s)

Spec == Init /\ [][Next]_vars

(***************************************************************************)
(* Properties.                                                             *)
(***************************************************************************)

\* The interval stays between the two bounds, whichever is the larger one and
\* whatever the measurements, with weights that add up to more than 1 too; a
\* part of TypeOK.
IntervalBounded == interval \in Intervals

\* What is applied is the last adjustment or differs from it by less than the
\* deadband of its stress, unless writing it failed: queueing, deadband and
\* commit never lose an adjustment (evaluate, queue_adjustments, should_apply).
Settled ==
    \A a \in Actuators \ failed :
        wanted[a] # None =>
            /\ applied[a] # None
            /\ \/ applied[a] = wanted[a]
               \/ Distance(applied[a], wanted[a]) < Deadband(lastStress)

\* By how much a tag may have moved when the snapshot is not dirty
Tolerance == IF Epsilon < 0 THEN 0 ELSE Epsilon

\* What bounds a step of the queue's logarithm between two lengths that
\* differ by no more than Tolerance
QueueSteps ==
    {step \in 0..100 :
        \A i, j \in DOMAIN QueueNorm :
            Distance(i, j) <= Tolerance => Distance(QueueNorm[i], QueueNorm[j]) <= step}

Weight(m) == Distance(Weights[m], 0)

\* How far the stress moves while no tag moves by more than Tolerance
Sensitivity(step) ==
    2 * Weight("cpu") * Tolerance + 2 * Weight("queue") * step
    + 5 * Weight("thermal") * Tolerance + 2 * Weight("gpu") * Tolerance
    + 2 * Weight("disk") * Tolerance

\* Measurements that creep, each time by too little to act on, do not take
\* the machine away from what the policy wants for them: never further than
\* one deadband and the drift that Tolerance allows.
Tracks ==
    basis = "policy" =>
        \A step \in QueueSteps : \A a \in Actuators \ failed :
            LET away  == Distance(applied[a], Policy(Stress(snap))[a])
                drift == 2 * Sensitivity(step)
            IN  away <= drift \/ away < Deadband(lastStress) + drift
==============================================================================
