---------------------------- MODULE TelemetryLog ----------------------------
(***************************************************************************)
(* Controller::log_snapshot (agent/controller.cpp): the log of what the    *)
(* controller measured and decided, and its rotation, which removes the    *)
(* oldest file and renames the others one after the other.  No result is   *)
(* looked at.  The agent may end at any step, and start again with another *)
(* configuration.                                                          *)
(*                                                                         *)
(* File 0 is telemetry_log.csv, file i telemetry_log_i.csv.  Records are   *)
(* numbered as they are given; a file is the set of its records, which it  *)
(* holds in that order, and where its header is.  Files are measured in    *)
(* records.                                                                *)
(***************************************************************************)
EXTENDS Integers, FiniteSets

CONSTANTS
    LastFile,   \* bounds the indices
    Maxima,     \* what max_rotated_files may be when an agent starts
    Limit,      \* max_file_size_mb, in records
    MaxRecords, \* bounds the records
    Failing     \* the calls that may fail

Calls == {"size", "remove", "rename", "open", "write"}

ASSUME LogAssumption ==
    /\ LastFile \in Nat
    /\ Maxima \subseteq 0..LastFile
    /\ Limit \in Nat
    /\ MaxRecords \in Nat
    /\ Failing \subseteq Calls

File == 0..LastFile
Record == 1..MaxRecords

VARIABLES
    exists,   \* the files there are
    records,  \* of each file
    header,   \* of each file: "none", "first" line, or a "later" one
    at,       \* where log_snapshot is; "idle" between calls; "off"
    index,    \* i, the file a rename makes
    max,      \* config::MAX_ROTATED_FILES
    needed,   \* header_needed, "unknown" until header_checked
    given,    \* the records given to log_snapshot
    written,  \* those that were written; for the properties only
    failed,   \* what has gone wrong so far; for the properties only
    trouble   \* and since the last complete rotation; for the properties only

fileVars == <<exists, records, header>>
vars == <<fileVars, at, index, max, needed, given, written, failed, trouble>>

Mishaps == Calls \union {"killed", "reconfigured"}

TypeOK ==
    /\ exists \subseteq File
    /\ records \in [File -> SUBSET Record]
    /\ header \in [File -> {"none", "first", "later"}]
    /\ at \in {"off", "idle", "remove", "rename", "header", "open", "write"}
    /\ index \in File
    /\ max \in Maxima
    /\ needed \in {"unknown", "yes", "no"}
    /\ given \in 0..MaxRecords
    /\ written \subseteq Record
    /\ failed \subseteq Mishaps
    /\ trouble \in BOOLEAN
    /\ at = "rename" => index > 0

Init ==
    /\ exists = {}
    /\ records = [i \in File |-> {}]
    /\ header = [i \in File |-> "none"]
    /\ at = "off"
    /\ index = 0
    /\ max \in Maxima
    /\ needed = "unknown"
    /\ given = 0
    /\ written = {}
    /\ failed = {}
    /\ trouble = FALSE

Succeeds(call) == IF call \in Failing THEN BOOLEAN ELSE {TRUE}

\* A call succeeds or not.
Call(call, ok) ==
    /\ ok \in Succeeds(call)
    /\ failed' = IF ok THEN failed ELSE failed \union {call}

Notes(call, ok) == Call(call, ok) /\ trouble' = (trouble \/ ~ok)

(***************************************************************************)
(* log_snapshot.                                                           *)
(***************************************************************************)

\* get_file_size: 0 also if the file cannot be opened
Size(ok) == IF ok THEN Cardinality(records[0]) ELSE 0

\* header_checked
AfterRotation == IF needed = "unknown" THEN "header" ELSE "open"

\* A record is given.  Rotate if the file has reached the bound.
RotateFrom(bound) ==
    /\ at = "idle" /\ given < MaxRecords
    /\ given' = given + 1
    /\ \E ok \in BOOLEAN :
          /\ Call("size", ok)
          /\ at' = IF Size(ok) >= bound THEN "remove" ELSE AfterRotation
          /\ trouble' = (~ok \/ (trouble /\ Size(ok) < bound))
    /\ UNCHANGED <<fileVars, index, max, needed, written>>

\* Faults: a full file is taken for one that has room; it rotates too early.
LogSnapshotAbove == RotateFrom(Limit + 1)
LogSnapshotEarly == RotateFrom(Limit - 1)

\* get_file_size(filepath) >= max_bytes
LogSnapshot == RotateFrom(Limit)

\* std::remove of the oldest; of telemetry_log_0.csv, which there is not, if
\* no file is to be kept.  The loop starts with i = first.
RemoveOldestThen(first) ==
    /\ at = "remove"
    /\ \E ok \in BOOLEAN :
          /\ Notes("remove", ok)
          /\ IF ok /\ max > 0
             THEN /\ exists' = exists \ {max}
                  /\ records' = [records EXCEPT ![max] = {}]
                  /\ header' = [header EXCEPT ![max] = "none"]
             ELSE UNCHANGED fileVars
    /\ at' = IF max > 0 THEN "rename" ELSE AfterRotation
    /\ index' = first
    /\ UNCHANGED <<max, needed, given, written>>

\* Fault: the loop starts one file above.
RemoveOldestFromAbove == RemoveOldestThen(max + 1)

RemoveOldest == RemoveOldestThen(max)

\* The file src becomes dst.
Moves(src, dst) ==
    /\ exists' = (exists \ {src}) \union {dst}
    /\ records' = [records EXCEPT ![dst] = records[src], ![src] = {}]
    /\ header' = [header EXCEPT ![dst] = header[src], ![src] = "none"]

\* One round of the loop; --i
RenameFrom(src, allowed) ==
    /\ at = "rename"
    /\ \E ok \in BOOLEAN :
          /\ Notes("rename", ok)
          /\ IF ok /\ src \in exists /\ allowed THEN Moves(src, index)
             ELSE UNCHANGED fileVars
    /\ index' = index - 1
    /\ at' = IF index > 1 THEN "rename" ELSE AfterRotation
    /\ UNCHANGED <<max, given, written>>

\* Fault: the rename replaces a file that is in the way.
RenameReplacing == RenameFrom(index - 1, TRUE) /\ UNCHANGED needed

\* Fault: the log becomes the oldest file that is free.
RenameToFree == RenameFrom(0, index \notin exists) /\ UNCHANGED needed

\* Fault: a rotation asks for a header, whether the log was renamed or not.
RenameAsksForHeader ==
    /\ RenameFrom(index - 1, index \notin exists)
    /\ needed' = IF index = 1 THEN "yes" ELSE needed

\* std::rename, which fails without a source and, on Windows, if the
\* destination exists
Rename == RenameFrom(index - 1, index \notin exists) /\ UNCHANGED needed

Empty(i) == records[i] = {} /\ header[i] = "none"

\* Once per process: header_needed = (size == 0)
CheckHeader ==
    /\ at = "header"
    /\ \E ok \in BOOLEAN :
          /\ Notes("size", ok)
          /\ needed' = IF ok /\ ~Empty(0) THEN "no" ELSE "yes"
    /\ at' = "open"
    /\ UNCHANGED <<fileVars, index, max, given, written>>

\* std::ofstream file(filepath, std::ios::app); without it the record is lost.
Open ==
    /\ at = "open"
    /\ \E ok \in BOOLEAN :
          /\ Notes("open", ok)
          /\ exists' = IF ok THEN exists \union {0} ELSE exists
          /\ at' = IF ok THEN "write" ELSE "idle"
    /\ UNCHANGED <<records, header, index, max, needed, given, written>>

\* The stream is flushed when it goes out of scope, and on a full disk comes
\* no further than the header, or not that far; none is asked for again.
Write ==
    /\ at = "write"
    /\ \E headed, ok \in Succeeds("write") :
          /\ ok => headed
          /\ Notes("write", ok)
          /\ header' = IF needed = "no" \/ ~headed THEN header
                       ELSE [header EXCEPT ![0] = IF Empty(0) THEN "first" ELSE "later"]
          /\ records' = IF ok THEN [records EXCEPT ![0] = @ \union {given}] ELSE records
          /\ written' = IF ok THEN written \union {given} ELSE written
    /\ needed' = "no"
    /\ at' = "idle"
    /\ UNCHANGED <<exists, index, max, given>>

(***************************************************************************)
(* The agent's process.                                                    *)
(***************************************************************************)
AgentEnds ==
    /\ at # "off"
    /\ at' = "off"
    /\ index' = 0
    /\ needed' = "unknown"
    /\ LET rotating == at \in {"remove", "rename"}
       IN  /\ failed' = IF rotating THEN failed \union {"killed"} ELSE failed
           /\ trouble' = (trouble \/ rotating)
    /\ UNCHANGED <<fileVars, max, given, written>>

\* It loads the configuration, which may have been edited.
AgentStarts ==
    /\ at = "off"
    /\ max' \in Maxima
    /\ at' = "idle"
    /\ failed' = IF max' = max THEN failed ELSE failed \union {"reconfigured"}
    /\ trouble' = (trouble \/ max' # max)
    /\ UNCHANGED <<fileVars, index, needed, given, written>>

(***************************************************************************)
(* The specification.                                                      *)
(***************************************************************************)
Next ==
    \/ LogSnapshot \/ RemoveOldest \/ Rename \/ CheckHeader \/ Open \/ Write
    \/ AgentEnds \/ AgentStarts

Spec == Init /\ [][Next]_vars

(***************************************************************************)
(* Properties.                                                             *)
(***************************************************************************)

\* A file with a higher number holds older records, whatever fails, wherever
\* the agent is killed in the middle of a rotation and however the number of
\* files is reconfigured.
Ordered ==
    \A i, j \in File : i < j =>
        \A r \in records[i], q \in records[j] : q < r

Kept == UNION {records[i] : i \in File}

\* Nothing newer is lost while something older is kept in the files that
\* take part in the rotation: what a failed rename leaves in the way of the
\* next one is not overwritten.
LosesOldest ==
    [][\A r \in Kept \ Kept' : \A i \in 0..max : \A q \in records'[i] : r < q]_vars

\* Unless something has gone wrong, the last max_rotated_files * limit
\* records are there, in the middle of a rotation too.
Retained ==
    failed = {} => \/ Cardinality(Kept) >= max * Limit
                   \/ Kept = written

\* The log does not outgrow its limit for good: one rotation in which
\* nothing fails makes up for all that failed before.
SizeBounded ==
    at = "idle" /\ max > 0 /\ Limit > 0 /\ ~trouble
        => Cardinality(records[0]) <= Limit

\* No header is written into a file that holds records, unless the size of
\* the file could not be had; a rotation may fail in any way.
HeaderPlace == "size" \in failed \/ \A i \in File : header[i] # "later"
==============================================================================
