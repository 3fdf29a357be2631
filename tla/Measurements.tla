----------------------------- MODULE Measurements -----------------------------
(***************************************************************************)
(* What the tag database promises its reader, without its stores and       *)
(* loads: measurements are made one at a time, and a snapshot is one       *)
(* answer to one question.  The answer is not what was held at any one     *)
(* time, but what can be told from that is bounded tag by tag.             *)
(* TagDatabase implements this specification.                              *)
(***************************************************************************)
EXTENDS Naturals, Sequences

CONSTANTS
    Measured, \* the set of tags
    Groups    \* tags that are measured together, in the order they are

VARIABLES
    held,    \* how often each tag has been measured
    asked,   \* held, when the last snapshot was asked for
    returned \* the snapshot it got, as a set: none, or one

promiseVars == <<held, asked, returned>>

PromiseInit ==
    /\ held = [t \in Measured |-> 0]
    /\ asked = held
    /\ returned = {}

Measure(t) ==
    /\ held' = [held EXCEPT ![t] = @ + 1]
    /\ UNCHANGED <<asked, returned>>

Ask ==
    /\ returned # {}
    /\ asked' = held
    /\ returned' = {}
    /\ UNCHANGED held

\* Nothing is older than when it was asked for, or made up; a timestamp is
\* behind its value by at most one.
Timely(snapshot) ==
    \A t \in Measured :
        /\ asked[t] <= snapshot.value[t] /\ snapshot.value[t] <= held[t]
        /\ snapshot.value[t] <= snapshot.stamp[t] + 1 /\ snapshot.stamp[t] <= held[t]

\* What was measured together is told apart by at most one measurement.
Ordered(snapshot) ==
    \A g \in 1..Len(Groups) : \A i, j \in 1..Len(Groups[g]) :
        i < j => snapshot.value[Groups[g][i]] <= snapshot.value[Groups[g][j]] + 1

Answer ==
    /\ returned = {}
    /\ \E snapshot \in returned' :
          /\ returned' = {snapshot}
          /\ Timely(snapshot) /\ Ordered(snapshot)
    /\ UNCHANGED <<held, asked>>

PromiseNext == (\E t \in Measured : Measure(t)) \/ Ask \/ Answer

PromiseSpec == PromiseInit /\ [][PromiseNext]_promiseVars
==============================================================================
