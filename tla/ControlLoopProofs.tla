--------------------------- MODULE ControlLoopProofs ---------------------------
(***************************************************************************)
(* The control loop's arithmetic, for any measurements, any weights the    *)
(* configuration accepts, any deadbands, epsilon and intervals, with no    *)
(* order between them, any answers of the model and any writes that fail.  *)
(***************************************************************************)
EXTENDS ControlLoop, TLAPS

(***************************************************************************)
(* The helpers.                                                            *)
(***************************************************************************)

\* The scale of the stress
LEMMA FullScale == Full \in Nat /\ Full > 0
BY DEF Full

\* A clamped number is between the bounds.
LEMMA ClampBounds ==
    ASSUME NEW x \in Int, NEW low \in Int, NEW high \in Int, low <= high
    PROVE  Clamp(x, low, high) \in low..high
BY DEF Clamp

\* The stress score is one, whatever the weights add up to.
LEMMA StressRange ==
    ASSUME NEW s \in Snapshots
    PROVE  Stress(s) \in 0..Full
<1>1. /\ s["cpu"] \in Nat /\ s["gpu"] \in Nat /\ s["disk"] \in Nat
      /\ s["thermal"] \in Nat /\ QueueNorm[s["queue"]] \in Int
  BY ControlAssumption DEF Tags, Measures
<1>2. /\ Weights["cpu"] \in Int /\ Weights["queue"] \in Int /\ Weights["thermal"] \in Int
      /\ Weights["gpu"] \in Int /\ Weights["disk"] \in Int
  BY ControlAssumption DEF Measures
<1>3. Clamp(s["thermal"] - 60, 0, 40) \in Int
  BY <1>1 DEF Clamp
<1>4. WeightedSum(s) \in Int
  BY <1>1, <1>2, <1>3 DEF WeightedSum
<1>. QED  BY <1>4, FullScale DEF Stress, Clamp

\* A quotient between two whole numbers is between them when truncated.
LEMMA TruncateBounds ==
    ASSUME NEW x \in Int, NEW low \in Int, NEW high \in Int,
           x \in Full * low .. Full * high
    PROVE  Truncate(x, Full) \in low..high
<1>1. \A n \in Int : n \div Full \in Int /\ Full * (n \div Full) <= n
                     /\ n < Full * (n \div Full) + Full
  BY FullScale
<1>2. \A m, n \in Int : Full * m < Full * n => m < n
  BY FullScale
<1>3. CASE x >= 0
  <2>. DEFINE q == x \div Full
  <2>1. q \in Int /\ Full * q <= x /\ x < Full * q + Full
    BY <1>1
  <2>2. Truncate(x, Full) = q
    BY <1>3 DEF Truncate
  <2>. HIDE DEF q
  <2>3. Full * q < Full * (high + 1) /\ Full * low < Full * (q + 1)
    BY <2>1, FullScale
  <2>. QED  BY <1>2, <2>1, <2>2, <2>3
<1>4. CASE x < 0
  <2>. DEFINE q == (-x) \div Full
  <2>1. q \in Int /\ Full * q <= -x /\ -x < Full * q + Full
    BY <1>1
  <2>2. Truncate(x, Full) = -q
    BY <1>4 DEF Truncate
  <2>. HIDE DEF q
  <2>3. Full * q < Full * (1 - low) /\ Full * (-high) < Full * (q + 1)
    BY <2>1, FullScale
  <2>4. q < 1 - low /\ -high < q + 1
    BY <1>2, <2>1, <2>3
  <2>. QED  BY <2>1, <2>2, <2>4
<1>. QED  BY <1>3, <1>4

\* An interval interpolated between two bounds is between them, in whichever
\* order they are.
LEMMA IntervalRange ==
    ASSUME NEW stress \in 0..Full
    PROVE  Interval(stress) \in Intervals
<1>. DEFINE span == MaxInterval - MinInterval
            x == Full * MaxInterval - stress * span
            rest == Full - stress
<1>1. span \in Int /\ MinInterval \in Int /\ MaxInterval = MinInterval + span
  BY ControlAssumption
<1>2. stress \in Nat /\ rest \in Nat /\ Full \in Nat /\ Full > 0 /\ Full = stress + rest
  BY FullScale
<1>3. Interval(stress) = Truncate(x, Full)
  BY DEF Interval
<1>. HIDE DEF span, rest
<1>4. /\ stress * span \in Int /\ rest * span \in Int
      /\ span >= 0 => stress * span >= 0 /\ rest * span >= 0
      /\ span <= 0 => stress * span <= 0 /\ rest * span <= 0
  BY <1>1, <1>2
<1>5. /\ x = Full * MaxInterval - stress * span
      /\ x = Full * MinInterval + rest * span
  BY <1>1, <1>2
<1>6. Full * MinInterval \in Int /\ Full * MaxInterval \in Int /\ MaxInterval \in Int
  BY <1>1, <1>2
<1>7. \/ x \in Full * MinInterval .. Full * MaxInterval
      \/ x \in Full * MaxInterval .. Full * MinInterval
  BY <1>1, <1>4, <1>5, <1>6
<1>8. x \in Int
  BY <1>4, <1>6
<1>. HIDE DEF x
<1>. QED  BY <1>1, <1>3, <1>6, <1>7, <1>8, TruncateBounds DEF Intervals

\* A deadband is a number.
LEMMA DeadbandRange ==
    ASSUME NEW stress \in 0..Full
    PROVE  Deadband(stress) \in Int
BY ControlAssumption, FullScale DEF Deadband

\* The fallback policy has an adjustment for both.
LEMMA PolicyType ==
    ASSUME NEW stress \in 0..Full
    PROVE  Policy(stress) \in AdjustmentSets
BY FullScale DEF Policy, AdjustmentSets

(***************************************************************************)
(* The properties.                                                         *)
(***************************************************************************)
Inv == TypeOK /\ IntervalBounded /\ Settled

\* The loop starts well-typed, with nothing wanted.
LEMMA InvInit == Init => Inv
<1>. SUFFICES ASSUME Init PROVE Inv
  OBVIOUS
<1>1. Nothing \in AdjustmentSets
  BY DEF Nothing, AdjustmentSets
<1>2. IntervalBounded
  BY ControlAssumption DEF Init, IntervalBounded, Intervals
<1>3. Settled
  BY DEF Init, Settled, Nothing
<1>. QED
  BY <1>1, <1>2, <1>3, FullScale, ControlAssumption
  DEF Init, Inv, TypeOK, IntervalBounded

\* A commit leaves no wanted adjustment unapplied that is further than the
\* deadband from what is applied, unless writing it failed.
LEMMA CommitSettles ==
    ASSUME TypeOK, NEW adjustments \in AdjustmentSets, NEW deadband \in Int,
           Commit(adjustments, deadband)
    PROVE  /\ wanted' = adjustments
           /\ failed' \subseteq Actuators
           /\ applied' \in AdjustmentSets
           /\ \A a \in Actuators \ failed' :
                 adjustments[a] # None =>
                     /\ applied'[a] # None
                     /\ \/ applied'[a] = adjustments[a]
                        \/ Distance(applied'[a], adjustments[a]) < deadband
<1>. DEFINE tried == {a \in Actuators : /\ adjustments[a] # None
                                       /\ ShouldApply(a, adjustments[a], deadband)}
<1>1. PICK lost \in SUBSET tried :
        /\ failed' = lost
        /\ applied' = [a \in Actuators |->
                          IF a \in tried \ lost THEN adjustments[a] ELSE applied[a]]
  BY DEF Commit
<1>2. wanted' = adjustments
  BY DEF Commit
<1>3. applied' \in AdjustmentSets
  BY <1>1 DEF TypeOK, AdjustmentSets
<1>4. ASSUME NEW a \in Actuators \ failed', adjustments[a] # None
      PROVE  /\ applied'[a] # None
             /\ \/ applied'[a] = adjustments[a]
                \/ Distance(applied'[a], adjustments[a]) < deadband
  <2>1. adjustments[a] \in Int /\ applied[a] \in Int \union {None}
    BY <1>4 DEF TypeOK, AdjustmentSets
  <2>2. CASE a \in tried
    <3>1. applied'[a] = adjustments[a]
      BY <1>1, <1>4, <2>2
    <3>. QED  BY <3>1, <1>4
  <2>3. CASE a \notin tried
    <3>1. applied'[a] = applied[a]
      BY <1>1, <1>4, <2>3
    <3>2. ~ShouldApply(a, adjustments[a], deadband)
      BY <1>4, <2>3
    <3>. QED  BY <2>1, <3>1, <3>2 DEF ShouldApply, Distance
  <2>. QED  BY <2>2, <2>3
<1>. QED  BY <1>1, <1>2, <1>3, <1>4

\* An iteration keeps the types, the interval between its bounds, and what is
\* applied near what is wanted.
LEMMA InvStep ==
    ASSUME Inv, [Next]_vars
    PROVE  Inv'
<1>1. ASSUME NEW s \in Snapshots, EvaluateClean(s) PROVE Inv'
  <2>1. interval' \in Intervals
    BY <1>1, StressRange, IntervalRange DEF EvaluateClean
  <2>. QED
    BY <1>1, <2>1, ControlAssumption
    DEF EvaluateClean, Inv, TypeOK, IntervalBounded, Settled, Deadband
<1>2. ASSUME NEW s \in Snapshots, EvaluateDirty(s) PROVE Inv'
  <2>1. Stress(s) \in 0..Full
    BY StressRange
  <2>2. interval' \in Intervals
    BY <1>2, <2>1, IntervalRange, ControlAssumption DEF EvaluateDirty
  <2>3. Deadband(Stress(s)) \in Int
    BY <2>1, DeadbandRange
  <2>4. PICK adjustments \in AdjustmentSets : Commit(adjustments, Deadband(Stress(s)))
    BY <1>2, <2>1, PolicyType, ControlAssumption DEF EvaluateDirty
  <2>5. /\ wanted' = adjustments
        /\ failed' \subseteq Actuators
        /\ applied' \in AdjustmentSets
        /\ \A a \in Actuators \ failed' :
              adjustments[a] # None =>
                  /\ applied'[a] # None
                  /\ \/ applied'[a] = adjustments[a]
                     \/ Distance(applied'[a], adjustments[a]) < Deadband(Stress(s))
    BY <2>3, <2>4, CommitSettles DEF Inv
  <2>6. lastStress' = Stress(s) /\ snap' = s /\ lastState' = s
        /\ basis' \in {"policy", "model"}
    BY <1>2 DEF EvaluateDirty
  <2>7. Settled'
    BY <2>5, <2>6 DEF Settled
  <2>. QED
    BY <2>1, <2>2, <2>5, <2>6, <2>7 DEF Inv, TypeOK, IntervalBounded
<1>3. CASE UNCHANGED vars
  BY <1>3 DEF vars, Inv, TypeOK, IntervalBounded, Settled, Deadband
<1>. QED  BY <1>1, <1>2, <1>3 DEF Next

\* Every variable of the control loop keeps its type; in particular the stress
\* score never leaves its scale.
THEOREM ControlTypeCorrect == Spec => []TypeOK
<1>1. Inv => TypeOK
  BY DEF Inv
<1>. QED  BY <1>1, InvInit, InvStep, PTL DEF Spec

\* The interval stays between its bounds for every configuration, also for one
\* whose bounds are in the wrong order or negative.
THEOREM IntervalsBounded == Spec => []IntervalBounded
<1>1. Inv => IntervalBounded
  BY DEF Inv
<1>. QED  BY <1>1, InvInit, InvStep, PTL DEF Spec

\* Queueing, deadband and commit lose no adjustment, for every configuration.
THEOREM AdjustmentsSettle == Spec => []Settled
<1>1. Inv => Settled
  BY DEF Inv
<1>. QED  BY <1>1, InvInit, InvStep, PTL DEF Spec

(***************************************************************************)
(* Drift.  Between two snapshots whose tags differ no more than Tolerance  *)
(* the stress differs by no more than its sensitivity, and so does what    *)
(* the policy wants, twice that at most.                                   *)
(***************************************************************************)

\* How far a tag may move unnoticed is a number, and not less than Epsilon.
LEMMA ToleranceType == Tolerance \in Nat /\ Epsilon \in Int /\ Epsilon <= Tolerance
BY ControlAssumption DEF Tolerance

\* A weight times a difference
LEMMA Product ==
    ASSUME NEW w \in Int, NEW x \in Int, NEW y \in Int, NEW e \in Int,
           Distance(x, y) <= e
    PROVE  Distance(w * x, w * y) <= Distance(w, 0) * e
<1>. DEFINE d == x - y
<1>1. d \in Int /\ e - d >= 0 /\ e + d >= 0 /\ e >= 0
  BY DEF Distance
<1>2. w * x - w * y = w * d
  OBVIOUS
<1>. HIDE DEF d
<1>3. CASE w >= 0
  <2>1. w * (e - d) >= 0 /\ w * (e + d) >= 0
    BY <1>1, <1>3
  <2>2. w * (e - d) = w * e - w * d /\ w * (e + d) = w * e + w * d
    BY <1>1
  <2>3. Distance(w, 0) = w
    BY <1>3 DEF Distance
  <2>4. w * x - w * y <= w * e /\ w * y - w * x <= w * e
    BY <1>1, <1>2, <2>1, <2>2
  <2>. QED  BY <2>3, <2>4 DEF Distance
<1>4. CASE w < 0
  <2>. DEFINE v == -w
  <2>1. v \in Int /\ v >= 0
    BY <1>4
  <2>2. v * (e - d) >= 0 /\ v * (e + d) >= 0
    BY <1>1, <2>1
  <2>3. v * (e - d) = v * e + w * d /\ v * (e + d) = v * e - w * d
    BY <1>1
  <2>4. Distance(w, 0) = v
    BY <1>4 DEF Distance
  <2>5. w * x - w * y <= v * e /\ w * y - w * x <= v * e
    BY <1>1, <1>2, <2>2, <2>3
  <2>. QED  BY <2>4, <2>5 DEF Distance
<1>. QED  BY <1>3, <1>4

\* Clamping brings numbers no further apart.
LEMMA ClampNear ==
    ASSUME NEW x \in Int, NEW y \in Int, NEW low \in Int, NEW high \in Int, low <= high
    PROVE  Distance(Clamp(x, low, high), Clamp(y, low, high)) <= Distance(x, y)
BY DEF Clamp, Distance

\* Where the policy begins to act and where it acts in full
LEMMA Thresholds == (30 * Full) \div 100 = 60000 /\ (70 * Full) \div 100 = 140000
<1>1. (30 * Full) \div 100 = 60000
  BY SMT DEF Full
<1>2. (70 * Full) \div 100 = 140000
  BY SMT DEF Full
<1>. QED  BY <1>1, <1>2

\* Neither does the policy, by more than twice.
LEMMA PolicyNear ==
    ASSUME NEW x \in 0..Full, NEW y \in 0..Full, NEW a \in Actuators
    PROVE  Distance(Policy(x)[a], Policy(y)[a]) <= 2 * Distance(x, y)
<1>. DEFINE ratio(stress) == Clamp(stress, 60000, 140000) - 60000
<1>1. (30 * Full) \div 100 = 60000 /\ (70 * Full) \div 100 = 140000
  BY Thresholds
<1>2. x \in Int /\ y \in Int
  BY FullScale
<1>3. \A stress \in Int :
          Policy(stress)[a] = IF a = "PerformanceBoost" THEN 2 * ratio(stress)
                                                        ELSE ratio(stress)
  BY <1>1 DEF Policy, Clamp
<1>4. Distance(ratio(x), ratio(y)) <= Distance(x, y) /\ ratio(x) \in Int /\ ratio(y) \in Int
  BY <1>2 DEF Clamp, Distance
<1>. HIDE DEF ratio
<1>. QED  BY <1>2, <1>3, <1>4 DEF Distance

\* The five terms of the stress
Terms(s) ==
    [m \in Measures |->
        CASE m = "cpu" -> 2 * (Weights["cpu"] * s["cpu"])
          [] m = "queue" -> 2 * (Weights["queue"] * QueueNorm[s["queue"]])
          [] m = "thermal" -> 5 * (Weights["thermal"] * Clamp(s["thermal"] - 60, 0, 40))
          [] m = "gpu" -> 2 * (Weights["gpu"] * s["gpu"])
          [] m = "disk" -> 2 * (Weights["disk"] * s["disk"])]

\* What they add up to
LEMMA SumOfTerms ==
    ASSUME NEW s \in Snapshots
    PROVE  /\ \A m \in Measures : Terms(s)[m] \in Int
           /\ WeightedSum(s) = Terms(s)["cpu"] + Terms(s)["queue"] + Terms(s)["thermal"]
                                 + Terms(s)["gpu"] + Terms(s)["disk"]
<1>1. /\ s["cpu"] \in Int /\ s["gpu"] \in Int /\ s["disk"] \in Int
      /\ s["thermal"] \in Int /\ QueueNorm[s["queue"]] \in Int
  BY ControlAssumption DEF Tags, Measures
<1>2. \A m \in Measures : Weights[m] \in Int
  BY ControlAssumption
<1>3. Clamp(s["thermal"] - 60, 0, 40) \in Int
  BY <1>1 DEF Clamp
<1>4. \A v, w \in Int : /\ 2 * v * w \in Int /\ 2 * (v * w) = 2 * v * w
                         /\ 5 * v * w \in Int /\ 5 * (v * w) = 5 * v * w
  OBVIOUS
<1>. DEFINE heat == Clamp(s["thermal"] - 60, 0, 40)
            length == QueueNorm[s["queue"]]
<1>5. /\ Terms(s)["cpu"] = 2 * (Weights["cpu"] * s["cpu"])
      /\ Terms(s)["queue"] = 2 * (Weights["queue"] * length)
      /\ Terms(s)["thermal"] = 5 * (Weights["thermal"] * heat)
      /\ Terms(s)["gpu"] = 2 * (Weights["gpu"] * s["gpu"])
      /\ Terms(s)["disk"] = 2 * (Weights["disk"] * s["disk"])
  BY DEF Terms, Measures
<1>6. WeightedSum(s) = 2 * Weights["cpu"] * s["cpu"] + 2 * Weights["queue"] * length
          + 5 * Weights["thermal"] * heat + 2 * Weights["gpu"] * s["gpu"]
          + 2 * Weights["disk"] * s["disk"]
  BY Zenon DEF WeightedSum
<1>7. heat \in Int /\ length \in Int
  BY <1>1, <1>3
<1>. HIDE DEF heat, length
<1>8. /\ Terms(s)["cpu"] = 2 * Weights["cpu"] * s["cpu"]
      /\ Terms(s)["queue"] = 2 * Weights["queue"] * length
      /\ Terms(s)["thermal"] = 5 * Weights["thermal"] * heat
      /\ Terms(s)["gpu"] = 2 * Weights["gpu"] * s["gpu"]
      /\ Terms(s)["disk"] = 2 * Weights["disk"] * s["disk"]
  BY <1>1, <1>2, <1>4, <1>5, <1>7 DEF Measures
<1>9. \A m \in Measures : Terms(s)[m] \in Int
  BY <1>1, <1>2, <1>4, <1>7, <1>8 DEF Measures
<1>10. WeightedSum(s) = Terms(s)["cpu"] + Terms(s)["queue"] + Terms(s)["thermal"]
                          + Terms(s)["gpu"] + Terms(s)["disk"]
  BY Zenon, <1>6, <1>8
<1>. QED  BY <1>9, <1>10

\* A clean snapshot's stress is near that of the last state.
LEMMA StressNear ==
    ASSUME NEW s \in Snapshots, NEW t \in Snapshots, NEW step \in QueueSteps,
           \A tag \in Tags : Distance(s[tag], t[tag]) <= Tolerance
    PROVE  Distance(Stress(s), Stress(t)) <= Sensitivity(step)
<1>1. /\ s \in [Tags -> Nat] /\ t \in [Tags -> Nat]
      /\ s["queue"] \in DOMAIN QueueNorm /\ t["queue"] \in DOMAIN QueueNorm
      /\ QueueNorm[s["queue"]] \in Int /\ QueueNorm[t["queue"]] \in Int
      /\ Tolerance \in Nat /\ step \in Nat
  BY ControlAssumption, ToleranceType DEF QueueSteps
<1>2. \A m \in Measures : Weights[m] \in Int /\ Weight(m) = Distance(Weights[m], 0)
  BY ControlAssumption DEF Weight
<1>3. \A m \in Measures : Weight(m) \in Int
  BY <1>2 DEF Distance
<1>4. \A m \in {"cpu", "gpu", "disk"} :
          Distance(Weights[m] * s[m], Weights[m] * t[m]) <= Weight(m) * Tolerance
  BY <1>1, <1>2, Product DEF Tags, Measures
<1>5. Distance(QueueNorm[s["queue"]], QueueNorm[t["queue"]]) <= step
  BY <1>1 DEF QueueSteps, Tags, Measures
<1>6. Distance(Weights["queue"] * QueueNorm[s["queue"]],
               Weights["queue"] * QueueNorm[t["queue"]]) <= Weight("queue") * step
  BY <1>1, <1>2, <1>5, Product DEF Measures
<1>. DEFINE heat(r) == Clamp(r["thermal"] - 60, 0, 40)
<1>7. heat(s) \in Int /\ heat(t) \in Int /\ Distance(heat(s), heat(t)) <= Tolerance
  <2>1. s["thermal"] \in Int /\ t["thermal"] \in Int
        /\ Distance(s["thermal"], t["thermal"]) <= Tolerance
    BY <1>1 DEF Tags, Measures
  <2>2. Distance(s["thermal"] - 60, t["thermal"] - 60) <= Tolerance
    BY <2>1 DEF Distance
  <2>. QED  BY <1>1, <2>1, <2>2 DEF Clamp, Distance
<1>8. Distance(Weights["thermal"] * heat(s), Weights["thermal"] * heat(t))
        <= Weight("thermal") * Tolerance
  <2>. HIDE DEF heat
  <2>. QED  BY <1>1, <1>2, <1>7, Product DEF Measures
<1>9. \A x, y, b \in Int : Distance(x, y) <= b =>
          Distance(2 * x, 2 * y) <= 2 * b /\ Distance(5 * x, 5 * y) <= 5 * b
  BY DEF Distance
<1>10. \A v \in Int, w \in Int : v * w \in Int
  OBVIOUS
<1>11. /\ \A m \in {"cpu", "gpu", "disk"} :
              Distance(Terms(s)[m], Terms(t)[m]) <= 2 * (Weight(m) * Tolerance)
       /\ Distance(Terms(s)["queue"], Terms(t)["queue"]) <= 2 * (Weight("queue") * step)
       /\ Distance(Terms(s)["thermal"], Terms(t)["thermal"])
             <= 5 * (Weight("thermal") * Tolerance)
  <2>1. \A m \in {"cpu", "gpu", "disk"} :
            /\ Terms(s)[m] = 2 * (Weights[m] * s[m])
            /\ Terms(t)[m] = 2 * (Weights[m] * t[m])
            /\ Weights[m] * s[m] \in Int /\ Weights[m] * t[m] \in Int
            /\ Weight(m) * Tolerance \in Int
    BY <1>1, <1>2, <1>3, <1>10 DEF Terms, Measures, Tags
  <2>2. /\ Terms(s)["queue"] = 2 * (Weights["queue"] * QueueNorm[s["queue"]])
        /\ Terms(t)["queue"] = 2 * (Weights["queue"] * QueueNorm[t["queue"]])
        /\ Weights["queue"] * QueueNorm[s["queue"]] \in Int
        /\ Weights["queue"] * QueueNorm[t["queue"]] \in Int
        /\ Weight("queue") * step \in Int
    BY <1>1, <1>2, <1>3, <1>10 DEF Terms, Measures
  <2>3. /\ Terms(s)["thermal"] = 5 * (Weights["thermal"] * heat(s))
        /\ Terms(t)["thermal"] = 5 * (Weights["thermal"] * heat(t))
    BY DEF Terms, Measures
  <2>4. /\ Weights["thermal"] * heat(s) \in Int /\ Weights["thermal"] * heat(t) \in Int
        /\ Weight("thermal") * Tolerance \in Int
    <3>. HIDE DEF heat
    <3>. QED  BY <1>1, <1>2, <1>3, <1>7, <1>10 DEF Measures
  <2>. HIDE DEF heat
  <2>5. \A m \in {"cpu", "gpu", "disk"} :
            Distance(Terms(s)[m], Terms(t)[m]) <= 2 * (Weight(m) * Tolerance)
    BY <1>4, <1>9, <2>1
  <2>6. Distance(Terms(s)["queue"], Terms(t)["queue"]) <= 2 * (Weight("queue") * step)
    BY <1>6, <1>9, <2>2
  <2>7. Distance(Terms(s)["thermal"], Terms(t)["thermal"])
          <= 5 * (Weight("thermal") * Tolerance)
    BY <1>8, <1>9, <2>3, <2>4
  <2>. QED  BY <2>5, <2>6, <2>7
<1>12. Sensitivity(step) = 2 * (Weight("cpu") * Tolerance) + 2 * (Weight("queue") * step)
          + 5 * (Weight("thermal") * Tolerance) + 2 * (Weight("gpu") * Tolerance)
          + 2 * (Weight("disk") * Tolerance)
  <2>1. \A v, w \in Int : 2 * (v * w) = 2 * v * w /\ 5 * (v * w) = 5 * v * w
    OBVIOUS
  <2>. QED  BY <1>1, <1>3, <2>1 DEF Sensitivity, Measures
<1>13. /\ Weight("cpu") * Tolerance \in Int /\ Weight("queue") * step \in Int
       /\ Weight("thermal") * Tolerance \in Int /\ Weight("gpu") * Tolerance \in Int
       /\ Weight("disk") * Tolerance \in Int
  BY <1>1, <1>3, <1>10 DEF Measures
<1>14. Distance(WeightedSum(s), WeightedSum(t)) <= Sensitivity(step)
  <2>1. /\ WeightedSum(s) = Terms(s)["cpu"] + Terms(s)["queue"] + Terms(s)["thermal"]
                              + Terms(s)["gpu"] + Terms(s)["disk"]
        /\ WeightedSum(t) = Terms(t)["cpu"] + Terms(t)["queue"] + Terms(t)["thermal"]
                              + Terms(t)["gpu"] + Terms(t)["disk"]
    BY SumOfTerms
  <2>2. \A m \in {"cpu", "queue", "thermal", "gpu", "disk"} :
            Terms(s)[m] \in Int /\ Terms(t)[m] \in Int
    BY SumOfTerms DEF Measures
  <2>. DEFINE q == 2 * (Weight("queue") * step)
              w(m) == 2 * (Weight(m) * Tolerance)
              h == 5 * (Weight("thermal") * Tolerance)
  <2>3. q \in Int /\ h \in Int /\ w("cpu") \in Int /\ w("gpu") \in Int /\ w("disk") \in Int
    BY <1>13
  <2>4. /\ Distance(Terms(s)["cpu"], Terms(t)["cpu"]) <= w("cpu")
        /\ Distance(Terms(s)["gpu"], Terms(t)["gpu"]) <= w("gpu")
        /\ Distance(Terms(s)["disk"], Terms(t)["disk"]) <= w("disk")
        /\ Distance(Terms(s)["queue"], Terms(t)["queue"]) <= q
        /\ Distance(Terms(s)["thermal"], Terms(t)["thermal"]) <= h
    BY <1>11
  <2>5. Sensitivity(step) = w("cpu") + q + h + w("gpu") + w("disk")
    BY <1>12
  <2>. HIDE DEF q, h, w
  <2>. QED  BY <2>1, <2>2, <2>3, <2>4, <2>5 DEF Distance
<1>15. WeightedSum(s) \in Int /\ WeightedSum(t) \in Int
  BY SumOfTerms DEF Measures
<1>16. Distance(Stress(s), Stress(t)) <= Distance(WeightedSum(s), WeightedSum(t))
  BY <1>15, ClampNear, FullScale DEF Stress
<1>17. Stress(s) \in Int /\ Stress(t) \in Int /\ Sensitivity(step) \in Int
  BY <1>12, <1>13, StressRange, FullScale
<1>. HIDE DEF heat
<1>. QED  BY <1>14, <1>15, <1>16, <1>17 DEF Distance

\* The last adjustments of the policy are those for the last state, from which
\* the latest snapshot is not far.
DriftInv ==
    basis # "none" =>
        /\ lastStress = Stress(lastState)
        /\ \A tag \in Tags : Distance(snap[tag], lastState[tag]) <= Tolerance
        /\ basis = "policy" => wanted = Policy(lastStress)

\* A clean iteration moves the snapshot by no more than Tolerance from the last
\* state, a dirty one makes them the same.
LEMMA DriftStep ==
    ASSUME Inv, DriftInv, [Next]_vars
    PROVE  DriftInv'
<1>1. ASSUME NEW s \in Snapshots, EvaluateClean(s) PROVE DriftInv'
  <2>1. \A tag \in Tags : Distance(s[tag], lastState[tag]) <= Tolerance
    <3>. SUFFICES ASSUME NEW tag \in Tags PROVE Distance(s[tag], lastState[tag]) <= Tolerance
      OBVIOUS
    <3>1. s[tag] \in Int /\ lastState[tag] \in Int
      BY ControlAssumption DEF Inv, TypeOK
    <3>2. ~(Distance(s[tag], lastState[tag]) > Epsilon)
      BY <1>1 DEF EvaluateClean, Dirty
    <3>. QED  BY <3>1, <3>2, ToleranceType DEF Distance
  <2>2. snap' = s /\ UNCHANGED <<lastState, lastStress, basis, wanted>>
    BY <1>1 DEF EvaluateClean
  <2>. QED  BY <2>1, <2>2 DEF DriftInv
<1>2. ASSUME NEW s \in Snapshots, EvaluateDirty(s) PROVE DriftInv'
  <2>1. \A tag \in Tags : Distance(s[tag], s[tag]) <= Tolerance
    BY ControlAssumption, ToleranceType DEF Distance
  <2>2. snap' = s /\ lastState' = s /\ lastStress' = Stress(s)
    BY <1>2 DEF EvaluateDirty
  <2>3. basis' = "policy" => wanted' = Policy(Stress(s))
    BY <1>2 DEF EvaluateDirty, Commit
  <2>. QED  BY <2>1, <2>2, <2>3 DEF DriftInv
<1>3. CASE UNCHANGED vars
  BY <1>3 DEF vars, DriftInv
<1>. QED  BY <1>1, <1>2, <1>3 DEF Next

\* Creeping measurements never take what is applied further from the policy
\* than one deadband and the drift Tolerance allows, for every configuration.
THEOREM PolicyTracked == Spec => []Tracks
<1>1. Init => DriftInv
  BY DEF Init, DriftInv
<1>2. Inv /\ DriftInv => Tracks
  <2>. SUFFICES ASSUME Inv, DriftInv, basis = "policy", NEW step \in QueueSteps,
                       NEW a \in Actuators \ failed
                PROVE  LET away  == Distance(applied[a], Policy(Stress(snap))[a])
                           drift == 2 * Sensitivity(step)
                       IN  away <= drift \/ away < Deadband(lastStress) + drift
    BY DEF Tracks
  <2>1. snap \in Snapshots /\ lastState \in Snapshots /\ lastStress \in 0..Full
    BY DEF Inv, TypeOK
  <2>2. lastStress = Stress(lastState) /\ wanted = Policy(lastStress)
    BY DEF DriftInv
  <2>3. Distance(Stress(snap), lastStress) <= Sensitivity(step)
    BY <2>1, <2>2, StressNear DEF DriftInv
  <2>4. Stress(snap) \in 0..Full
    BY <2>1, StressRange
  <2>. DEFINE now == Policy(Stress(snap))[a]
              then == Policy(lastStress)[a]
  <2>5. Distance(now, then) <= 2 * Distance(Stress(snap), lastStress)
    BY <2>1, <2>4, PolicyNear
  <2>6. now \in Int /\ then \in Int
    BY <2>1, <2>4, FullScale DEF Policy
  <2>7. /\ applied[a] # None
        /\ applied[a] = then \/ Distance(applied[a], then) < Deadband(lastStress)
    BY <2>2, <2>6, ControlAssumption DEF Inv, Settled
  <2>8. applied[a] \in Int /\ Deadband(lastStress) \in Int
    BY <2>1, <2>7, DeadbandRange DEF Inv, TypeOK, AdjustmentSets
  <2>9. Sensitivity(step) \in Int
    <3>1. \A m \in Measures : Weight(m) \in Int
      BY ControlAssumption DEF Weight, Distance
    <3>2. \A v \in Int, w \in Int : v * w \in Int
      OBVIOUS
    <3>3. Tolerance \in Int /\ step \in Int
      BY ToleranceType DEF QueueSteps
    <3>. QED  BY <3>1, <3>2, <3>3 DEF Sensitivity, Measures
  <2>10. Stress(snap) \in Int /\ lastStress \in Int
    BY <2>1, <2>4, FullScale
  <2>. HIDE DEF now, then
  <2>11. \/ Distance(applied[a], now) <= 2 * Sensitivity(step)
         \/ Distance(applied[a], now) < Deadband(lastStress) + 2 * Sensitivity(step)
    BY <2>3, <2>5, <2>6, <2>7, <2>8, <2>9, <2>10 DEF Distance
  <2>. QED  BY <2>11 DEF now
<1>. QED  BY <1>1, <1>2, InvInit, InvStep, DriftStep, PTL DEF Spec
==============================================================================
