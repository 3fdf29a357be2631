----------------------------- MODULE PowerSchemes -----------------------------
(***************************************************************************)
(* The power schemes of the machine and who acts on them: ActuatorManager  *)
(* (agent/actuators.cpp), whose commit is a sequence of calls to Windows,  *)
(* the user, who switches schemes between any two of them, and the         *)
(* watchdog, which asserts the fail-safe scheme when an agent has failed.  *)
(*                                                                         *)
(* One action is one call to Windows, but that the calls which list the    *)
(* schemes and their names are one: nobody else makes or renames one.      *)
(* A scheme has two values of each setting, one for mains (AC) and one for *)
(* battery (DC).  Settings are whole numbers on a scale, adjustments are   *)
(* doubles, on and off the scale: here, whole numbers of fractions.        *)
(***************************************************************************)
EXTENDS Integers, Sequences

CONSTANTS
    Params,    \* the ActuatorIDs in their order, a sequence
    MaxValue,  \* a setting is in 0..MaxValue (0..100)
    Unit,      \* fractions of one step of a setting that are told apart
    Inputs,    \* adjustments, in fractions: those of the policy are on the
               \* scale, those of a model are any
    Deadbands, \* calculate_deadband's results, in fractions
    None,      \* no value
    Copies,    \* the schemes that duplication can make; a bound of the model
    Failing    \* the calls that may fail

Calls == {"enumerate", "duplicate", "name", "get", "set", "write"}

ASSUME PowerAssumption ==
    /\ Params \in Seq({"PerformanceBoost", "ProcessorFloor"}) /\ Params # <<>>
    /\ MaxValue \in Nat
    /\ Unit \in Nat \ {0}
    /\ Inputs \subseteq Int
    /\ Deadbands \subseteq Int
    /\ None \notin Int
    /\ {"balanced", "other", "unset"} \intersect Copies = {}
    /\ Failing \subseteq Calls

Schemes == {"balanced", "other"} \union Copies
Values == 0..MaxValue
Param == 1..Len(Params)
Lines == {"AC", "DC"}

\* What a scheme holds that nobody has tuned
Baseline == [p \in Param |-> [l \in Lines |-> MaxValue]]

VARIABLES
    active,   \* the active scheme
    setting,  \* what each scheme holds
    copies,   \* the copies there are
    named,    \* those that carry the name "Nanoloop AI Optimized"
    at,       \* where the agent is, or how it ended
    target,   \* m_active_scheme
    queued,   \* m_queued_adjustments
    applied,  \* m_last_applied_values
    deadband, \* of the commit
    param,    \* which setting it is at
    acOk,     \* ac_res = ERROR_SUCCESS
    changed,  \* any_change
    got,      \* the scheme it found active and will re-activate
    chosen,   \* the last scheme made active on purpose; for the properties only
    raced,    \* by the user, while got was held; for the properties only
    exposed   \* by the user or a failed call, an agent has had Balanced for its
              \* scheme or as the active one; for the properties only

commitVars == <<queued, deadband, param, acOk, changed, got>>
ghostVars == <<chosen, raced, exposed>>
vars == <<active, setting, copies, named, at, target, applied, commitVars,
          ghostVars>>

Ended == {"off", "failed", "safe"}
Starting == {"make", "name", "get", "found"}
Places == Ended \union Starting \union {"idle", "ac", "dc", "set"}
Adjustments == [Param -> Inputs \union {None}]
Nothing == [p \in Param |-> None]

TypeOK ==
    /\ active \in Schemes
    /\ setting \in [Schemes -> [Param -> [Lines -> Values]]]
    /\ copies \subseteq Copies
    /\ named \subseteq copies
    /\ at \in Places
    /\ target \in Schemes \union {"unset"}
    /\ queued \in Adjustments
    /\ applied \in Adjustments
    /\ deadband \in Deadbands \union {0}
    /\ param \in 1..Len(Params) + 1
    /\ acOk \in BOOLEAN
    /\ changed \in BOOLEAN
    /\ got \in Schemes \union {"unset"}
    /\ chosen \in Schemes
    /\ raced \in BOOLEAN
    /\ exposed \in BOOLEAN
    /\ at \notin {"ac", "dc"} => queued = Nothing

\* No agent has run yet; its copy may be there from an earlier installation.
Init ==
    /\ active \in {"balanced", "other"}
    /\ setting = [s \in Schemes |-> Baseline]
    /\ copies \in {{}} \union {{c} : c \in Copies}
    /\ named = copies
    /\ at = "off"
    /\ target = "unset"
    /\ queued = Nothing
    /\ applied = Nothing
    /\ deadband = 0
    /\ param = 1
    /\ acOk = FALSE
    /\ changed = FALSE
    /\ got = "unset"
    /\ chosen = active
    /\ raced = FALSE
    /\ exposed = FALSE

Succeeds(call) == IF call \in Failing THEN BOOLEAN ELSE {TRUE}

(***************************************************************************)
(* Constructor of ActuatorManager.                                         *)
(***************************************************************************)

\* It finds the copy by its name, or goes on to make one.
AgentStart ==
    /\ at \in {"off", "safe"}
    /\ \/ at' = "found" /\ target' \in named
       \/ /\ named = {} \/ FALSE \in Succeeds("enumerate")
          /\ at' = "make" /\ target' = target
    /\ UNCHANGED <<active, setting, copies, named, applied, commitVars, ghostVars>>

\* PowerDuplicateScheme, of Balanced
AgentDuplicate ==
    /\ at = "make"
    /\ \/ \E c \in Copies \ copies :
             /\ target' = c
             /\ copies' = copies \union {c}
             /\ setting' = [setting EXCEPT ![c] = setting["balanced"]]
             /\ at' = "name"
       \/ /\ FALSE \in Succeeds("duplicate")
          /\ at' = "get"
          /\ UNCHANGED <<target, copies, setting>>
    /\ UNCHANGED <<active, named, applied, commitVars, ghostVars>>

\* PowerWriteFriendlyName; its result is not looked at.
AgentName ==
    /\ at = "name"
    /\ \E ok \in Succeeds("name") :
          named' = IF ok THEN named \union {target} ELSE named
    /\ at' = "found"
    /\ UNCHANGED <<active, setting, copies, target, applied, commitVars, ghostVars>>

\* refresh_active_scheme, if there is no copy to be had
AgentGet ==
    /\ at = "get"
    /\ \E ok \in Succeeds("get") : target' = IF ok THEN active ELSE target
    /\ at' = "found"
    /\ UNCHANGED <<active, setting, copies, named, applied, commitVars, ghostVars>>

\* Fault: the scheme is found and not made active.
AgentActivatePassive ==
    /\ at = "found"
    /\ chosen' = active
    /\ at' = "idle" /\ raced' = FALSE
    /\ UNCHANGED <<active, setting, copies, named, target, applied, commitVars,
                   exposed>>

\* "Force activation of our scheme"; the result of the call is not looked at.
AgentActivate ==
    /\ at = "found"
    /\ \E ok \in Succeeds("set") :
          active' = IF ok /\ target # "unset" THEN target ELSE active
    /\ chosen' = active' /\ raced' = FALSE
    /\ exposed' = (exposed \/ "balanced" \in {active', target})
    /\ at' = "idle"
    /\ UNCHANGED <<setting, copies, named, target, applied, commitVars>>

(***************************************************************************)
(* commit_changes.                                                         *)
(***************************************************************************)

\* The controller sets the first parameter or all of them; the commit
\* starts with refresh_active_scheme.
Commit ==
    /\ at = "idle"
    /\ queued' \in {q \in Adjustments : \E n \in Param :
                       \A p \in Param : q[p] # None <=> p <= n}
    /\ deadband' \in Deadbands
    /\ \E getOk \in Succeeds("get") : target' = IF getOk THEN active ELSE target
    /\ at' = "ac" /\ param' = 1 /\ changed' = FALSE /\ acOk' = FALSE
    /\ UNCHANGED <<active, setting, copies, named, applied, got, ghostVars>>

\* commit_changes returns: the queue is reset, its locals go.
CommitReturns ==
    /\ at' = "idle"
    /\ queued' = Nothing
    /\ deadband' = 0 /\ param' = 1 /\ acOk' = FALSE /\ changed' = FALSE
    /\ got' = "unset"

Distance(a, b) == IF a > b THEN a - b ELSE b - a

\* should_apply, of a parameter that is queued
ShouldApply(p) ==
    /\ queued[p] # None
    /\ ~(applied[p] # None /\ Distance(queued[p], applied[p]) < deadband)

CommitSkip ==
    /\ at = "ac" /\ param \in Param
    /\ ~ShouldApply(param)
    /\ param' = param + 1
    /\ UNCHANGED <<active, setting, copies, named, at, target, applied, queued,
                   deadband, acOk, changed, got, ghostVars>>

\* Writing fails if there is no scheme to write to.
WriteResults == IF target = "unset" THEN {FALSE} ELSE Succeeds("write")

\* std::clamp(value, 0.0, 100.0)
Clamp(v) ==
    CASE v < 0 -> 0
      [] v > MaxValue * Unit -> MaxValue * Unit
      [] OTHER -> v

\* dwValue: the fraction is cut off.
Dword(v) == Clamp(v) \div Unit

\* A write of the queued value to one line of the target, in whole steps
Write(line, ok) ==
    setting' = IF ok
               THEN [setting EXCEPT ![target][param][line] = Dword(queued[param])]
               ELSE setting

\* PowerWriteACValueIndex
CommitWriteAC ==
    /\ at = "ac" /\ param \in Param
    /\ ShouldApply(param)
    /\ \E ok \in WriteResults :
          Write("AC", ok) /\ acOk' = ok
    /\ at' = "dc"
    /\ UNCHANGED <<active, copies, named, target, applied, queued, deadband, param,
                   changed, got, ghostVars>>

\* Fault: one line that was written is enough.
CommitWriteDCEither ==
    /\ at = "dc"
    /\ \E ok \in WriteResults :
          /\ Write("DC", ok)
          /\ applied' = IF acOk \/ ok THEN [applied EXCEPT ![param] = queued[param]]
                        ELSE applied
          /\ changed' = (changed \/ acOk \/ ok)
    /\ at' = "ac" /\ param' = param + 1
    /\ UNCHANGED <<active, copies, named, target, queued, deadband, acOk, got,
                   ghostVars>>

\* PowerWriteDCValueIndex; if both were written, the value that was queued, and
\* not the one that was written, counts as applied.
CommitWriteDC ==
    /\ at = "dc"
    /\ \E ok \in WriteResults :
          /\ Write("DC", ok)
          /\ applied' = IF acOk /\ ok THEN [applied EXCEPT ![param] = queued[param]]
                        ELSE applied
          /\ changed' = (changed \/ (acOk /\ ok))
    /\ at' = "ac" /\ param' = param + 1
    /\ UNCHANGED <<active, copies, named, target, queued, deadband, acOk, got,
                   ghostVars>>

\* Fault: the queue is reset only if something changed.
CommitUnchangedKeepsQueue ==
    /\ at = "ac" /\ param = Len(Params) + 1
    /\ ~changed
    /\ at' = "idle" /\ deadband' = 0 /\ param' = 1 /\ acOk' = FALSE
    /\ UNCHANGED <<active, setting, copies, named, target, applied, queued, changed,
                   got, ghostVars>>

\* Nothing was changed: the queue is reset and that is all.
CommitUnchanged ==
    /\ at = "ac" /\ param = Len(Params) + 1
    /\ ~changed
    /\ CommitReturns
    /\ UNCHANGED <<active, setting, copies, named, target, applied, ghostVars>>

\* Fault (Issue C04): the copy from the commit's start is re-activated.
CommitGetNot ==
    /\ at = "ac" /\ param = Len(Params) + 1
    /\ changed
    /\ got' = target
    /\ queued' = Nothing
    /\ at' = "set"
    /\ UNCHANGED <<active, setting, copies, named, target, applied, deadband, param,
                   acOk, changed, ghostVars>>

\* The queue is reset; PowerGetActiveScheme, again.
CommitGet ==
    /\ at = "ac" /\ param = Len(Params) + 1
    /\ changed
    /\ \/ /\ got' = active
          /\ queued' = Nothing
          /\ at' = "set"
          /\ UNCHANGED <<deadband, param, acOk, changed>>
       \/ FALSE \in Succeeds("get") /\ CommitReturns
    /\ UNCHANGED <<active, setting, copies, named, target, applied, ghostVars>>

\* PowerSetActiveScheme; its result reaches nobody.
CommitSet ==
    /\ at = "set"
    /\ \E ok \in Succeeds("set") : active' = IF ok THEN got ELSE active
    /\ CommitReturns
    /\ UNCHANGED <<setting, copies, named, target, applied, ghostVars>>

(***************************************************************************)
(* The user, the end of the agent, the watchdog.                           *)
(***************************************************************************)
UserSwitch ==
    /\ active' \in Schemes \ ((Copies \ copies) \union {active})
    /\ chosen' = active'
    /\ raced' = (at = "set")
    /\ exposed' = \/ exposed
                  \/ at \notin Ended \union Starting /\ active' = "balanced"
    /\ UNCHANGED <<setting, copies, named, at, target, applied, commitVars>>

\* The process ends and its variables go.  A clean end comes between two
\* iterations of the control loop and restores nothing.
AgentEnd ==
    /\ at \notin Ended
    /\ \/ at' = "failed"
       \/ at = "idle" /\ at' = "off"
    /\ target' = "unset" /\ queued' = Nothing /\ applied' = Nothing
    /\ deadband' = 0 /\ param' = 1 /\ acOk' = FALSE /\ changed' = FALSE
    /\ got' = "unset"
    /\ UNCHANGED <<active, setting, copies, named, ghostVars>>

\* The watchdog's PowerSetActiveScheme(NULL, &config::FAILSAFE_SCHEME_GUID)
WatchdogReset ==
    /\ at = "failed"
    /\ \E ok \in Succeeds("set") :
          /\ active' = IF ok THEN "balanced" ELSE active
          /\ at' = IF ok THEN "safe" ELSE "off"
    /\ chosen' = active' /\ raced' = FALSE
    /\ UNCHANGED <<setting, copies, named, target, applied, commitVars, exposed>>

(***************************************************************************)
(* The specification.                                                      *)
(***************************************************************************)
CommitNext ==
    \/ Commit \/ CommitSkip \/ CommitWriteAC \/ CommitWriteDC
    \/ CommitUnchanged \/ CommitGet \/ CommitSet

StartNext ==
    AgentStart \/ AgentDuplicate \/ AgentName \/ AgentGet \/ AgentActivate

Next == StartNext \/ CommitNext \/ UserSwitch \/ AgentEnd \/ WatchdogReset

Spec == Init /\ [][Next]_vars

(***************************************************************************)
(* Properties.                                                             *)
(***************************************************************************)

\* Re-activating the scheme never undoes a switch the user made during the
\* commit, but one made between its last two calls (PowerGetActiveScheme and
\* PowerSetActiveScheme at the end of commit_changes).
UserChoiceStands == active = chosen \/ raced

\* A setting is less than one step below the value it is taken for, as far as
\* that is on the scale.
Reaches(held, v) == LET rest == Clamp(v) - held * Unit IN 0 <= rest /\ rest < Unit

\* What the manager takes for applied has reached, on both lines and but for a
\* fraction of a step, the scheme it took for active, whichever calls failed.
AppliedWritten ==
    [][\A p \in Param :
          applied'[p] \notin {None, applied[p]} =>
              \A l \in Lines : Reaches(setting'[target][p][l], applied'[p])]_vars

\* The agent tunes its own scheme: Balanced, which it is made from and which
\* the watchdog falls back on, keeps its settings unless the user or a call
\* that fails makes it an agent's scheme or the active one while it runs.
BalancedSpared == exposed \/ setting["balanced"] = Baseline
==============================================================================
