-------------------------- MODULE PowerSchemesProofs --------------------------
(***************************************************************************)
(* Safety of the commits of ActuatorManager, for any settings, adjustments *)
(* on and off the scale, deadbands and copies of the scheme, whichever     *)
(* calls fail and whenever the user switches schemes.                      *)
(***************************************************************************)
EXTENDS PowerSchemes, TLAPS

(***************************************************************************)
(* Types.                                                                  *)
(***************************************************************************)

\* There is a setting to tune, and a value for it.
LEMMA Bounds ==
    /\ Len(Params) \in Nat \ {0}
    /\ MaxValue \in Nat
    /\ Unit \in Nat \ {0}
    /\ None \notin Inputs
<1>1. Len(Params) \in Nat \ {0}
  BY PowerAssumption
<1>. QED  BY <1>1, PowerAssumption

\* Cutting an adjustment down to whole steps on the scale gives a value of the
\* setting that is less than one step below.
LEMMA DwordReaches ==
    ASSUME NEW v \in Inputs
    PROVE  Dword(v) \in Values /\ Reaches(Dword(v), v)
<1>. DEFINE c == Clamp(v)
            k == c \div Unit
<1>1. c \in Nat /\ c <= MaxValue * Unit
  BY Bounds, PowerAssumption DEF Clamp
<1>2. k \in Int /\ k * Unit <= c /\ c < (k + 1) * Unit
  <2>1. \A n \in Nat, u \in Nat \ {0} :
           n \div u \in Int /\ (n \div u) * u <= n /\ n < (n \div u + 1) * u
    OBVIOUS
  <2>. HIDE DEF c
  <2>. QED  BY <1>1, <2>1, Bounds
<1>3. 0 <= k
  BY <1>1, <1>2, Bounds
<1>4. k <= MaxValue
  BY <1>1, <1>2, Bounds
<1>5. k * Unit <= c /\ c - k * Unit < Unit
  BY <1>1, <1>2, Bounds
<1>. QED
  BY <1>1, <1>2, <1>3, <1>4, <1>5, Bounds DEF Dword, Reaches, Values

\* The machine and the agent start well-typed.
LEMMA TypeInit == Init => TypeOK
<1>. SUFFICES ASSUME Init PROVE TypeOK
  OBVIOUS
<1>1. acOk \in BOOLEAN /\ changed \in BOOLEAN /\ raced \in BOOLEAN /\ exposed \in BOOLEAN
  BY Zenon DEF Init
<1>2. setting \in [Schemes -> [Param -> [Lines -> Values]]]
  BY Bounds DEF Init, Baseline, Values
<1>3. copies \subseteq Copies /\ named \subseteq copies
  BY DEF Init
<1>4. queued \in Adjustments /\ applied \in Adjustments /\ queued = Nothing
  BY DEF Init, Adjustments, Nothing
<1>5. active \in Schemes /\ chosen \in Schemes
  BY DEF Init, Schemes
<1>6. param \in 1..Len(Params) + 1
  BY Bounds DEF Init
<1>. QED
  BY <1>1, <1>2, <1>3, <1>4, <1>5, <1>6 DEF Init, TypeOK, Places, Ended

\* A write of the commit leaves every scheme well-typed.
LEMMA WriteTypes ==
    ASSUME TypeOK, NEW line \in Lines, NEW ok \in WriteResults, Write(line, ok),
           param \in Param, queued[param] # None
    PROVE  setting' \in [Schemes -> [Param -> [Lines -> Values]]]
<1>1. ok => target \in Schemes
  BY DEF TypeOK, WriteResults
<1>2. Dword(queued[param]) \in Values
  BY DwordReaches DEF TypeOK, Adjustments
<1>. QED  BY <1>1, <1>2 DEF TypeOK, Write

\* Between the writes of its two lines a setting has a value to write; what
\* the first one wrote is still there.
HalfWritten ==
    at = "dc" => /\ param \in Param
                 /\ queued[param] # None
                 /\ acOk => /\ target # "unset"
                            /\ setting[target][param]["AC"] = Dword(queued[param])

\* A commit re-activates a scheme it has found; a copy has a name only once it
\* has been made.
Found ==
    /\ at = "set" => got # "unset"
    /\ at = "name" => target \in copies

TypeInv == TypeOK /\ HalfWritten /\ Found

\* When a commit returns, its variables are as they were before it began.
LEMMA ReturnTypes ==
    ASSUME CommitReturns
    PROVE  /\ queued' \in Adjustments /\ queued' = Nothing
           /\ deadband' \in Deadbands \union {0}
           /\ param' \in 1..Len(Params) + 1
           /\ acOk' \in BOOLEAN /\ changed' \in BOOLEAN
           /\ got' \in Schemes \union {"unset"}
           /\ at' = "idle"
<1>1. acOk' \in BOOLEAN /\ changed' \in BOOLEAN
  BY Zenon DEF CommitReturns
<1>2. queued' \in Adjustments /\ queued' = Nothing
  BY DEF CommitReturns, Nothing, Adjustments
<1>. QED  BY <1>1, <1>2, Bounds DEF CommitReturns

\* The steps of the commit that call nothing that can spoil a type
LEMMA CommitTypeStep ==
    ASSUME TypeInv, CommitNext
    PROVE  TypeInv'
<1>. USE Bounds, PowerAssumption
     DEF TypeInv, TypeOK, HalfWritten, Found, Places, Ended, Starting
<1>1. CASE Commit
  <2>1. queued' \in Adjustments  BY <1>1 DEF Commit
  <2>2. deadband' \in Deadbands  BY <1>1 DEF Commit
  <2>3. target' \in Schemes \union {"unset"}  BY <1>1 DEF Commit
  <2>4. acOk' \in BOOLEAN /\ changed' \in BOOLEAN  BY Zenon, <1>1 DEF Commit
  <2>5. at' = "ac" /\ param' = 1
        /\ UNCHANGED <<active, setting, copies, named, applied, got, ghostVars>>
    BY <1>1 DEF Commit
  <2>. QED  BY <2>1, <2>2, <2>3, <2>4, <2>5 DEF ghostVars
<1>2. CASE CommitSkip
  BY <1>2 DEF CommitSkip, Param, ghostVars
<1>3. CASE CommitWriteAC
  <2>. PICK ok \in WriteResults : Write("AC", ok) /\ acOk' = ok
    BY <1>3 DEF CommitWriteAC
  <2>1. param \in Param /\ queued[param] # None
    BY <1>3 DEF CommitWriteAC, ShouldApply
  <2>2. setting' \in [Schemes -> [Param -> [Lines -> Values]]]
    BY <2>1, WriteTypes DEF Lines
  <2>3. ok \in BOOLEAN
    BY Zenon DEF WriteResults, Succeeds
  <2>4. ok => target # "unset"
    BY DEF WriteResults
  <2>5. ok => setting'[target][param]["AC"] = Dword(queued[param])
    BY <2>1, <2>4 DEF Write, Lines
  <2>7. ok => setting'[target'][param']["AC"] = Dword(queued'[param'])
    BY <2>5, <1>3 DEF CommitWriteAC
  <2>6. acOk' \in BOOLEAN
    BY <2>3
  <2>. QED
    BY <1>3, <2>1, <2>2, <2>4, <2>7, <2>6 DEF CommitWriteAC, ghostVars
<1>4. CASE CommitWriteDC
  <2>. PICK ok \in WriteResults :
         /\ Write("DC", ok)
         /\ applied' = IF acOk /\ ok THEN [applied EXCEPT ![param] = queued[param]]
                       ELSE applied
         /\ changed' = (changed \/ (acOk /\ ok))
    BY <1>4 DEF CommitWriteDC
  <2>1. param \in Param /\ queued[param] # None
    BY <1>4 DEF CommitWriteDC
  <2>2. setting' \in [Schemes -> [Param -> [Lines -> Values]]]
    BY <2>1, WriteTypes DEF Lines
  <2>3. changed' \in BOOLEAN
    BY Zenon
  <2>4. applied' \in Adjustments
    BY <2>1 DEF Adjustments
  <2>. QED
    BY <1>4, <2>1, <2>2, <2>3, <2>4 DEF CommitWriteDC, Param, ghostVars
<1>5. CASE CommitUnchanged
  BY <1>5, ReturnTypes DEF CommitUnchanged, ghostVars
<1>6. CASE CommitGet
  <2>1. CASE got' = active /\ queued' = Nothing /\ at' = "set"
             /\ UNCHANGED <<deadband, param, acOk, changed>>
    <3>1. queued' \in Adjustments  BY <2>1 DEF Nothing, Adjustments
    <3>2. got' # "unset"  BY <2>1 DEF Schemes
    <3>. QED  BY <1>6, <2>1, <3>1, <3>2 DEF CommitGet, ghostVars
  <2>2. CASE CommitReturns  BY <1>6, <2>2, ReturnTypes DEF CommitGet, ghostVars
  <2>. QED  BY <1>6, <2>1, <2>2 DEF CommitGet
<1>7. CASE CommitSet
  BY <1>7, ReturnTypes DEF CommitSet, ghostVars
<1>. QED
  BY <1>1, <1>2, <1>3, <1>4, <1>5, <1>6, <1>7 DEF CommitNext

\* The steps of the constructor
LEMMA StartTypeStep ==
    ASSUME TypeInv, StartNext
    PROVE  TypeInv'
<1>. USE PowerAssumption
     DEF TypeInv, TypeOK, HalfWritten, Found, Places, Ended, Starting
<1>1. CASE AgentStart
  BY <1>1 DEF AgentStart, commitVars, ghostVars, Schemes
<1>2. CASE AgentDuplicate
  <2>1. target' \in Schemes \union {"unset"} /\ copies' \subseteq Copies
        /\ copies \subseteq copies' /\ at' \in {"name", "get"}
        /\ (at' = "name" => target' \in copies')
    BY <1>2 DEF AgentDuplicate, Schemes
  <2>2. setting' \in [Schemes -> [Param -> [Lines -> Values]]]
    BY <1>2 DEF AgentDuplicate, Schemes
  <2>3. UNCHANGED <<active, named, applied, commitVars, ghostVars>> /\ at = "make"
    BY <1>2 DEF AgentDuplicate
  <2>. QED  BY <2>1, <2>2, <2>3 DEF commitVars, ghostVars
<1>3. CASE AgentName
  BY <1>3 DEF AgentName, commitVars, ghostVars
<1>4. CASE AgentGet
  BY <1>4 DEF AgentGet, commitVars, ghostVars
<1>5. CASE AgentActivate
  <2>1. active' \in Schemes /\ chosen' = active'
    BY <1>5 DEF AgentActivate
  <2>2. raced' \in BOOLEAN /\ exposed' \in BOOLEAN
    BY Zenon, <1>5 DEF AgentActivate
  <2>. QED  BY <1>5, <2>1, <2>2 DEF AgentActivate, commitVars
<1>. QED  BY <1>1, <1>2, <1>3, <1>4, <1>5 DEF StartNext

\* So does every step.
LEMMA TypeStep ==
    ASSUME TypeInv, [Next]_vars
    PROVE  TypeInv'
<1>. USE Bounds, PowerAssumption
     DEF TypeInv, TypeOK, HalfWritten, Found, Places, Ended, Starting
<1>1. CASE StartNext
  BY <1>1, StartTypeStep
<1>2. CASE CommitNext
  BY <1>2, CommitTypeStep
<1>3. CASE UserSwitch
  <2>1. raced' \in BOOLEAN /\ exposed' \in BOOLEAN
    BY Zenon, <1>3 DEF UserSwitch
  <2>. QED  BY <1>3, <2>1 DEF UserSwitch, commitVars
<1>4. CASE AgentEnd
  <2>1. queued' \in Adjustments /\ applied' \in Adjustments
    BY <1>4 DEF AgentEnd, Nothing, Adjustments
  <2>2. acOk' \in BOOLEAN /\ changed' \in BOOLEAN
    BY Zenon, <1>4 DEF AgentEnd
  <2>. QED  BY <1>4, <2>1, <2>2 DEF AgentEnd, ghostVars
<1>5. CASE WatchdogReset
  <2>1. active' \in Schemes /\ chosen' = active' /\ at' \in {"safe", "off"}
    BY <1>5 DEF WatchdogReset, Schemes
  <2>2. raced' \in BOOLEAN  BY Zenon, <1>5 DEF WatchdogReset
  <2>. QED  BY <1>5, <2>1, <2>2 DEF WatchdogReset, commitVars
<1>6. CASE UNCHANGED vars
  BY <1>6 DEF vars, commitVars, ghostVars
<1>. QED  BY <1>1, <1>2, <1>3, <1>4, <1>5, <1>6 DEF Next

\* Every variable of the schemes, the agent and its commit keeps its type, and
\* the queue is empty between two commits.
THEOREM PowerTypeCorrect == Spec => []TypeOK
<1>1. Init => TypeInv
  BY TypeInit DEF Init, TypeInv, HalfWritten, Found
<1>2. TypeInv => TypeOK
  BY DEF TypeInv
<1>. QED  BY <1>1, <1>2, TypeStep, PTL DEF Spec

(***************************************************************************)
(* The user's choice.  The scheme a commit is about to re-activate is the  *)
(* active one, until the user switches under it.                           *)
(***************************************************************************)
ChoiceInv ==
    /\ UserChoiceStands
    /\ at = "set" => got = active \/ raced

\* No step loses the user's choice.
LEMMA ChoiceStep ==
    ASSUME ChoiceInv, [Next]_vars
    PROVE  ChoiceInv'
<1>. USE DEF ChoiceInv, UserChoiceStands, Ended, ghostVars
<1>1. CASE StartNext
  BY <1>1 DEF StartNext, AgentStart, AgentDuplicate, AgentName, AgentGet,
              AgentActivate
<1>2. CASE Commit  BY <1>2 DEF Commit
<1>3. CASE CommitSkip  BY <1>3 DEF CommitSkip
<1>4. CASE CommitWriteAC  BY <1>4 DEF CommitWriteAC
<1>5. CASE CommitWriteDC  BY <1>5 DEF CommitWriteDC
<1>6. CASE CommitUnchanged  BY <1>6 DEF CommitUnchanged, CommitReturns
<1>7. CASE CommitGet  BY <1>7 DEF CommitGet, CommitReturns
<1>8. CASE CommitSet  BY <1>8 DEF CommitSet, CommitReturns
<1>9. CASE UserSwitch  BY <1>9 DEF UserSwitch, commitVars
<1>10. CASE AgentEnd  BY <1>10 DEF AgentEnd
<1>11. CASE WatchdogReset  BY <1>11 DEF WatchdogReset
<1>12. CASE UNCHANGED vars  BY <1>12 DEF vars, commitVars
<1>. QED
  BY <1>1, <1>2, <1>3, <1>4, <1>5, <1>6, <1>7, <1>8, <1>9, <1>10, <1>11, <1>12
  DEF Next, CommitNext

\* A commit undoes a switch of the user only if it was made between the
\* commit's last two calls, whichever calls fail.
THEOREM UserChoiceAlways == Spec => []UserChoiceStands
<1>1. Init => ChoiceInv
  BY DEF Init, ChoiceInv, UserChoiceStands
<1>2. ChoiceInv => UserChoiceStands
  BY DEF ChoiceInv
<1>. QED  BY <1>1, <1>2, ChoiceStep, PTL DEF Spec

(***************************************************************************)
(* Balanced.  As long as neither the user nor a call that failed has given *)
(* it to an agent that runs, the agent does not have it in its hands.      *)
(***************************************************************************)
SpareInv ==
    exposed \/ /\ setting["balanced"] = Baseline
               /\ at \notin Ended \union Starting =>
                     /\ active # "balanced"
                     /\ target # "balanced"
                     /\ at = "set" => got # "balanced"

\* No step brings Balanced into the hands of an agent unnoticed.
LEMMA SpareStep ==
    ASSUME TypeInv, SpareInv, [Next]_vars
    PROVE  SpareInv'
<1>. USE DEF SpareInv, Ended, Starting, ghostVars
<1>1. CASE StartNext
  <2>. USE DEF TypeInv, TypeOK
  <2>1. CASE AgentStart  BY <2>1 DEF AgentStart
  <2>2. CASE AgentDuplicate
    BY <2>2, PowerAssumption DEF AgentDuplicate, Schemes
  <2>3. CASE AgentName  BY <2>3 DEF AgentName
  <2>4. CASE AgentGet  BY <2>4 DEF AgentGet
  <2>5. CASE AgentActivate  BY <2>5 DEF AgentActivate
  <2>. QED  BY <1>1, <2>1, <2>2, <2>3, <2>4, <2>5 DEF StartNext
<1>2. CASE Commit  BY <1>2 DEF Commit
<1>3. CASE CommitSkip  BY <1>3 DEF CommitSkip
<1>4. CASE CommitWriteAC
  BY <1>4 DEF CommitWriteAC, Write, TypeInv, TypeOK, Schemes
<1>5. CASE CommitWriteDC
  BY <1>5 DEF CommitWriteDC, Write, TypeInv, TypeOK, Schemes
<1>6. CASE CommitUnchanged  BY <1>6 DEF CommitUnchanged, CommitReturns
<1>7. CASE CommitGet  BY <1>7 DEF CommitGet, CommitReturns
<1>8. CASE CommitSet  BY <1>8 DEF CommitSet, CommitReturns
<1>9. CASE UserSwitch  BY <1>9 DEF UserSwitch, commitVars
<1>10. CASE AgentEnd  BY <1>10 DEF AgentEnd
<1>11. CASE WatchdogReset  BY <1>11 DEF WatchdogReset
<1>12. CASE UNCHANGED vars  BY <1>12 DEF vars, commitVars
<1>. QED
  BY <1>1, <1>2, <1>3, <1>4, <1>5, <1>6, <1>7, <1>8, <1>9, <1>10, <1>11, <1>12
  DEF Next, CommitNext

\* The scheme the watchdog falls back on keeps its settings unless the user or
\* a failed call makes it an agent's scheme or the active one while it runs.
THEOREM BalancedAlwaysSpared == Spec => []BalancedSpared
<1>1. Init => TypeInv /\ SpareInv
  BY TypeInit DEF Init, TypeInv, HalfWritten, Found, SpareInv, Ended, Schemes
<1>2. SpareInv => BalancedSpared
  BY DEF SpareInv, BalancedSpared
<1>. QED  BY <1>1, <1>2, TypeStep, SpareStep, PTL DEF Spec

(***************************************************************************)
(* What counts as applied.                                                 *)
(***************************************************************************)

\* A step that takes a value for applied has just written it to the second
\* line, and to the first one before (HalfWritten).
LEMMA AppliedStep ==
    ASSUME TypeInv, [Next]_vars,
           NEW p \in Param, applied'[p] \notin {None, applied[p]}
    PROVE  \A l \in Lines : Reaches(setting'[target][p][l], applied'[p])
<1>1. CommitWriteDC
  BY DEF Next, StartNext, CommitNext, AgentStart, AgentDuplicate, AgentName, AgentGet,
         AgentActivate, Commit, CommitSkip, CommitWriteAC, CommitUnchanged, CommitGet,
         CommitSet, UserSwitch, AgentEnd, WatchdogReset, vars, Nothing
<1>2. PICK ok \in WriteResults :
        /\ Write("DC", ok)
        /\ applied' = IF acOk /\ ok THEN [applied EXCEPT ![param] = queued[param]]
                      ELSE applied
  BY <1>1 DEF CommitWriteDC
<1>3. acOk /\ ok /\ p = param /\ applied'[p] = queued[p]
  BY <1>2 DEF TypeInv, TypeOK, Adjustments
<1>4. /\ target \in Schemes
      /\ setting[target][p]["AC"] = Dword(queued[p])
      /\ queued[p] \in Inputs
  BY <1>1, <1>3 DEF CommitWriteDC, TypeInv, TypeOK, HalfWritten, Adjustments
<1>5. setting' = [setting EXCEPT ![target][p]["DC"] = Dword(queued[p])]
  BY <1>2, <1>3 DEF Write
<1>6. setting \in [Schemes -> [Param -> [Lines -> Values]]]
  BY DEF TypeInv, TypeOK
<1>7. \A l \in Lines : setting'[target][p][l] = Dword(queued[p])
  BY <1>4, <1>5, <1>6 DEF Lines
<1>. QED
  BY <1>3, <1>4, <1>7, DwordReaches

\* A value counts as applied only once both lines of the scheme have reached it,
\* to less than a step and as far as it is on the scale, whichever calls fail.
THEOREM AppliedAlwaysWritten == Spec => AppliedWritten
<1>1. Init => TypeInv
  BY TypeInit DEF Init, TypeInv, HalfWritten, Found
<1>2. ASSUME TypeInv, [Next]_vars
      PROVE  [\A p \in Param :
                applied'[p] \notin {None, applied[p]} =>
                    \A l \in Lines : Reaches(setting'[target][p][l], applied'[p])]_vars
  BY <1>2, AppliedStep
<1>. QED  BY <1>1, <1>2, TypeStep, PTL DEF Spec, AppliedWritten
==============================================================================
