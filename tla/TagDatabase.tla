----------------------------- MODULE TagDatabase -----------------------------
(***************************************************************************)
(* The lock-free database of the agent's measurements (shared/types.hpp):  *)
(* an array of atomic values and an array of atomic timestamps.  Each tag  *)
(* has one writer, the telemetry thread or, for the hash of the foreground *)
(* window's title, the hook's callback (agent/sensors.cpp).  The control   *)
(* loop reads all of it with get_snapshot.                                 *)
(*                                                                         *)
(* A measurement is abstracted to its version: the n-th set of a tag       *)
(* stores n, then the n-th timestamp.  Each store and each load is a step. *)
(***************************************************************************)
EXTENDS Naturals, Sequences

CONSTANTS
    Tags,      \* the tags in the order of TagID, a sequence
    Collected, \* the groups of tags that a collection sets together or not
               \* at all, in the order it sets them
    Hooked,    \* Foreground_App_Hash
    MaxSets    \* bounds the sets of each tag

TagSet == {Tags[i] : i \in 1..Len(Tags)}

ASSUME TagsAssumption ==
    /\ Tags \in Seq(TagSet) /\ Tags # <<>>
    /\ Collected \in Seq(Seq(TagSet \ {Hooked})) /\ Collected # <<>>
    /\ Hooked \in TagSet
    /\ MaxSets \in Nat

\* A tag has one place in TagID and at most one in the collections, which
\* set their tags in the order of TagID.
ASSUME GroupsAssumption ==
    /\ \A p, q \in 1..Len(Tags) : Tags[p] = Tags[q] => p = q
    /\ \A g, h \in 1..Len(Collected) :
          \A i \in 1..Len(Collected[g]), j \in 1..Len(Collected[h]) :
              Collected[g][i] = Collected[h][j] => g = h /\ i = j
    /\ \A g \in 1..Len(Collected) : \A i, j \in 1..Len(Collected[g]) :
          \A p, q \in 1..Len(Tags) :
              Tags[p] = Collected[g][i] /\ Tags[q] = Collected[g][j] /\ i < j => p < q

VARIABLES
    value,  \* m_values
    stamp,  \* m_timestamps
    query,  \* the group the telemetry thread measures next
    toSet,  \* the tags each writer has yet to set
    stored, \* the writer has stored the first one's value, not its timestamp
    next,   \* where get_snapshot is in Tags; past the end when it returns
    loaded, \* it has loaded this tag's value, not its timestamp
    snapValue, \* the snapshot, which get_snapshot fills: its values
    snapStamp, \* and its timestamps
    began   \* m_values when get_snapshot was called; for the properties only

writerVars == <<value, stamp, query, toSet, stored>>
readerVars == <<next, loaded, snapValue, snapStamp>>
vars == <<writerVars, readerVars, began>>

Writers == {"telemetry", "hook"}
Versions == [TagSet -> 0..MaxSets]

TypeOK ==
    /\ value \in Versions
    /\ stamp \in Versions
    /\ query \in 1..Len(Collected)
    /\ toSet \in [Writers -> Seq(TagSet)]
    /\ stored \in [Writers -> BOOLEAN]
    /\ next \in 1..Len(Tags) + 1
    /\ loaded \in BOOLEAN
    /\ snapValue \in Versions
    /\ snapStamp \in Versions
    /\ began \in Versions

Zero == [t \in TagSet |-> 0]

Init ==
    /\ value = Zero
    /\ stamp = Zero
    /\ query = 1
    /\ toSet = [w \in Writers |-> <<>>]
    /\ stored = [w \in Writers |-> FALSE]
    /\ next = 1
    /\ loaded = FALSE
    /\ snapValue = Zero
    /\ snapStamp = Zero
    /\ began = Zero

(***************************************************************************)
(* The writers.                                                            *)
(***************************************************************************)
Idle(w) == toSet[w] = <<>>

\* get_snapshot has returned.
Complete == next > Len(Tags)

\* collect_performance_metrics and collect_high_fidelity_metrics go through
\* their queries; one that fails sets nothing.
Collect ==
    /\ Idle("telemetry")
    /\ toSet' \in {[toSet EXCEPT !["telemetry"] = Collected[query]], toSet}
    /\ query' = (query % Len(Collected)) + 1
    /\ UNCHANGED <<value, stamp, stored, readerVars, began>>

\* win_event_proc, for a window that has a title
ForegroundEvent ==
    /\ Idle("hook")
    /\ toSet' = [toSet EXCEPT !["hook"] = <<Hooked>>]
    /\ UNCHANGED <<value, stamp, query, stored, readerVars, began>>

\* set: m_values[idx].store
SetValue(w) ==
    /\ ~Idle(w) /\ ~stored[w]
    /\ LET t == Head(toSet[w])
       IN  /\ value[t] < MaxSets
           /\ value' = [value EXCEPT ![t] = @ + 1]
    /\ stored' = [stored EXCEPT ![w] = TRUE]
    /\ UNCHANGED <<stamp, query, toSet, readerVars, began>>

\* Fault: one timestamp for what is set together, that of the last tag.
SetStampOfLast(w) ==
    /\ stored[w]
    /\ LET t == Head(toSet[w])
       IN  stamp' = [stamp EXCEPT ![t] = IF Len(toSet[w]) = 1 THEN value[t] ELSE @]
    /\ stored' = [stored EXCEPT ![w] = FALSE]
    /\ toSet' = [toSet EXCEPT ![w] = Tail(@)]
    /\ UNCHANGED <<value, query, readerVars, began>>

\* set: m_timestamps[idx].store
SetStamp(w) ==
    /\ stored[w]
    /\ LET t == Head(toSet[w]) IN stamp' = [stamp EXCEPT ![t] = value[t]]
    /\ stored' = [stored EXCEPT ![w] = FALSE]
    /\ toSet' = [toSet EXCEPT ![w] = Tail(@)]
    /\ UNCHANGED <<value, query, readerVars, began>>

\* The bound on the sets of a tag: nothing more is stored.
SetBounded(w) ==
    /\ ~Idle(w) /\ ~stored[w]
    /\ value[Head(toSet[w])] = MaxSets
    /\ toSet' = [toSet EXCEPT ![w] = Tail(@)]
    /\ UNCHANGED <<value, stamp, query, stored, readerVars, began>>

(***************************************************************************)
(* The reader, get_snapshot.                                               *)
(***************************************************************************)
\* Fault: the index starts one below.
SnapshotBeginBelow ==
    /\ Complete
    /\ next' = 0
    /\ began' = value
    /\ UNCHANGED <<writerVars, loaded, snapValue, snapStamp>>

\* Fault: the index starts one above.
SnapshotBeginAbove ==
    /\ Complete
    /\ next' = 2
    /\ began' = value
    /\ UNCHANGED <<writerVars, loaded, snapValue, snapStamp>>

\* The control loop evaluates again.
SnapshotBegin ==
    /\ Complete
    /\ next' = 1
    /\ began' = value
    /\ UNCHANGED <<writerVars, loaded, snapValue, snapStamp>>

\* Fault: a value whose timestamp has not moved is not loaded again.
LoadValueIfStamped ==
    /\ ~Complete /\ ~loaded
    /\ LET t == Tags[next]
       IN  snapValue' = [snapValue EXCEPT ![t] =
                            IF stamp[t] # snapStamp[t] THEN value[t] ELSE @]
    /\ loaded' = TRUE
    /\ UNCHANGED <<writerVars, snapStamp, next, began>>

\* Fault: the values are loaded from the last tag to the first.
LoadValueBackwards ==
    /\ ~Complete /\ ~loaded
    /\ LET t == Tags[Len(Tags) + 1 - next]
       IN  snapValue' = [snapValue EXCEPT ![t] = value[t]]
    /\ loaded' = TRUE
    /\ UNCHANGED <<writerVars, snapStamp, next, began>>

\* snapshot.values[i] = m_values[i].load
LoadValue ==
    /\ ~Complete /\ ~loaded
    /\ LET t == Tags[next] IN snapValue' = [snapValue EXCEPT ![t] = value[t]]
    /\ loaded' = TRUE
    /\ UNCHANGED <<writerVars, snapStamp, next, began>>

\* snapshot.timestamps[i] = m_timestamps[i].load
LoadStamp ==
    /\ loaded
    /\ LET t == Tags[next] IN snapStamp' = [snapStamp EXCEPT ![t] = stamp[t]]
    /\ loaded' = FALSE
    /\ next' = next + 1
    /\ UNCHANGED <<writerVars, snapValue, began>>

Reader == SnapshotBegin \/ LoadValue \/ LoadStamp

Next ==
    \/ Collect
    \/ ForegroundEvent
    \/ \E w \in Writers : SetValue(w) \/ SetStamp(w) \/ SetBounded(w)
    \/ Reader

Spec == Init /\ [][Next]_vars

(***************************************************************************)
(* Properties.                                                             *)
(***************************************************************************)

\* What a snapshot returns of a tag is no older than what the database held
\* when get_snapshot was called: no set that had completed is missed, and
\* none that has stored its value.
SnapshotCurrent == Complete => \A t \in TagSet : began[t] <= snapValue[t]

\* The timestamp next to a value is the value's own, that of the set before
\* it, or a later one, never older: set stores the value first and
\* get_snapshot loads it first.
StampNotStale == Complete => \A t \in TagSet : snapValue[t] <= snapStamp[t] + 1

\* Of two tags a collection sets together, in the order in which a snapshot
\* loads them, the first is at most one collection ahead of the second.
GroupInOrder ==
    Complete =>
        \A g \in 1..Len(Collected) : \A i, j \in 1..Len(Collected[g]) :
            i < j => snapValue[Collected[g][i]] <= snapValue[Collected[g][j]] + 1

\* A later snapshot is of no tag older than an earlier one.
SnapshotsAdvance ==
    [][\A t \in TagSet : snapValue[t] <= snapValue'[t] /\ snapStamp[t] <= snapStamp'[t]]_vars

\* The snapshot get_snapshot has returned, if it has
Returned == IF Complete THEN {[value |-> snapValue, stamp |-> snapStamp]} ELSE {}

Promise == INSTANCE Measurements
           WITH Measured <- TagSet, Groups <- Collected,
                held <- value, asked <- began, returned <- Returned

\* Whatever the telemetry thread and the hook store while get_snapshot loads
\* tag after tag, it behaves as one answer to one question: each tag is from
\* the time between, with its timestamp, and a group hangs together.
Promised == Promise!PromiseSpec
==============================================================================
