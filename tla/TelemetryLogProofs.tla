------------------------- MODULE TelemetryLogProofs -------------------------
(***************************************************************************)
(* Proofs about TelemetryLog, for any number of files, limit, records and  *)
(* failing calls: the files are in order, what a rotation loses is the     *)
(* oldest, no header comes after a record, the last records are retained   *)
(* and the log stays within its limit.                                     *)
(***************************************************************************)
EXTENDS TelemetryLog, FiniteSetTheorems, WellFoundedInduction, TLAPS

Under == {"remove", "rename", "header", "open", "write"}

\* A file there is not holds nothing; what is held has been given before the
\* record log_snapshot is at, if it is at one; when it writes, the log is
\* there and the header has been checked.
FilesInv ==
    /\ \A i \in File \ exists : records[i] = {} /\ header[i] = "none"
    /\ \A i \in File : \A r \in records[i] :
          r <= given /\ (at \in Under => r < given)
    /\ at \in Under => given > 0
    /\ at = "write" => 0 \in exists
    /\ at \in {"open", "write"} => needed # "unknown"

\* A header is to be written only if the log is empty.
HeaderInv ==
    "size" \in failed \/ ( /\ HeaderPlace
                           /\ needed = "yes" => Empty(0) )

LEMMA InitType == Init => TypeOK
<1>. SUFFICES ASSUME Init PROVE TypeOK
  OBVIOUS
<1>1. trouble \in BOOLEAN
  BY Zenon DEF Init
<1>. QED  BY <1>1, LogAssumption DEF Init, TypeOK, File, Record, Mishaps, Calls

LEMMA InitInv == Init => FilesInv /\ Ordered /\ HeaderInv
<1>. SUFFICES ASSUME Init PROVE FilesInv /\ Ordered /\ HeaderInv
  OBVIOUS
<1>1. FilesInv /\ Ordered
  BY DEF Init, FilesInv, Ordered, Under
<1>2. HeaderInv
  BY DEF Init, HeaderInv, HeaderPlace
<1>. QED  BY <1>1, <1>2

LEMMA TypeStep == TypeOK /\ FilesInv /\ [Next]_vars => TypeOK'
<1>. SUFFICES ASSUME TypeOK, FilesInv, [Next]_vars PROVE TypeOK'
  OBVIOUS
<1>. USE LogAssumption DEF TypeOK
<1>1. CASE LogSnapshot
  <2>1. trouble' \in BOOLEAN
    BY <1>1, Zenon DEF LogSnapshot, RotateFrom
  <2>2. failed' \subseteq Mishaps
    BY <1>1 DEF LogSnapshot, RotateFrom, Call, Mishaps, Calls
  <2>3. given' \in 0..MaxRecords
    BY <1>1 DEF LogSnapshot, RotateFrom
  <2>4. at' \in {"remove", "header", "open"}
    BY <1>1 DEF LogSnapshot, RotateFrom, AfterRotation
  <2>5. UNCHANGED <<exists, records, header, index, max, needed, written>>
    BY <1>1 DEF LogSnapshot, RotateFrom, fileVars
  <2>. QED  BY <2>1, <2>2, <2>3, <2>4, <2>5
<1>2. CASE RemoveOldest
  <2>. USE <1>2 DEF RemoveOldest, RemoveOldestThen, Notes, Call
  <2>1. trouble' \in BOOLEAN
    BY Zenon
  <2>2. failed' \subseteq Mishaps
    BY DEF Mishaps, Calls
  <2>3. max \in File
    BY DEF File
  <2>4. exists' \subseteq File /\ records' \in [File -> SUBSET Record]
    BY DEF fileVars
  <2>5. header' \in [File -> {"none", "first", "later"}]
    BY DEF fileVars
  <2>6. index' = max /\ max' = max /\ at' \in {"rename", "header", "open"}
    BY DEF AfterRotation
  <2>7. at' = "rename" => index' > 0
    BY DEF AfterRotation
  <2>8. UNCHANGED <<needed, given, written>>
    OBVIOUS
  <2>. QED  BY <2>1, <2>2, <2>3, <2>4, <2>5, <2>6, <2>7, <2>8
<1>3. CASE Rename
  <2>. USE <1>3 DEF Rename, RenameFrom, Notes, Call
  <2>1. trouble' \in BOOLEAN
    BY Zenon
  <2>2. failed' \subseteq Mishaps
    BY DEF Mishaps, Calls
  <2>3. index \in File /\ index - 1 \in File /\ index > 0
    BY DEF File
  <2>4. exists' \subseteq File /\ records' \in [File -> SUBSET Record]
    BY <2>3 DEF fileVars, Moves
  <2>5. header' \in [File -> {"none", "first", "later"}]
    BY <2>3 DEF fileVars, Moves
  <2>6. index' = index - 1 /\ max' = max /\ at' \in {"rename", "header", "open"}
    BY DEF AfterRotation
  <2>7. at' = "rename" => index' > 0
    BY <2>3 DEF AfterRotation, File
  <2>8. UNCHANGED <<needed, given, written>>
    OBVIOUS
  <2>. QED  BY <2>1, <2>2, <2>3, <2>4, <2>5, <2>6, <2>7, <2>8
<1>4. CASE CheckHeader
  <2>. USE <1>4 DEF CheckHeader, Notes, Call
  <2>1. trouble' \in BOOLEAN
    BY Zenon
  <2>2. failed' \subseteq Mishaps
    BY DEF Mishaps, Calls
  <2>3. needed' \in {"no", "yes"} /\ at' = "open"
    OBVIOUS
  <2>4. UNCHANGED <<exists, records, header, index, max, given, written>>
    BY DEF fileVars
  <2>. QED  BY <2>1, <2>2, <2>3, <2>4
<1>5. CASE Open
  <2>. USE <1>5 DEF Open, Notes, Call
  <2>1. trouble' \in BOOLEAN
    BY Zenon
  <2>2. failed' \subseteq Mishaps
    BY DEF Mishaps, Calls
  <2>3. exists' \subseteq File /\ at' \in {"write", "idle"}
    BY DEF File
  <2>4. UNCHANGED <<records, header, index, max, needed, given, written>>
    OBVIOUS
  <2>. QED  BY <2>1, <2>2, <2>3, <2>4
<1>6. CASE Write
  <2>. USE <1>6 DEF Write, Notes, Call
  <2>1. trouble' \in BOOLEAN
    BY Zenon
  <2>2. failed' \subseteq Mishaps
    BY DEF Mishaps, Calls
  <2>3. 0 \in File /\ given \in Record
    BY DEF File, Record, FilesInv, Under
  <2>4. header' \in [File -> {"none", "first", "later"}]
    BY <2>3
  <2>5. records' \in [File -> SUBSET Record] /\ written' \subseteq Record
    BY <2>3
  <2>6. needed' = "no" /\ at' = "idle" /\ UNCHANGED <<exists, index, max, given>>
    OBVIOUS
  <2>. QED  BY <2>1, <2>2, <2>4, <2>5, <2>6
<1>7. CASE AgentEnds
  BY <1>7 DEF AgentEnds, fileVars, Mishaps, File
<1>8. CASE AgentStarts
  BY <1>8 DEF AgentStarts, fileVars, Mishaps
<1>9. CASE UNCHANGED vars
  BY <1>9 DEF vars, fileVars
<1>. QED
  BY <1>1, <1>2, <1>3, <1>4, <1>5, <1>6, <1>7, <1>8, <1>9 DEF Next

\* What a move does to the order: the file that takes the other's place was
\* empty, and there is none between them.
LEMMA MoveInOrder ==
    ASSUME TypeOK, FilesInv, Ordered, NEW dst \in File, dst > 0,
           dst \notin exists, Moves(dst - 1, dst)
    PROVE  /\ Ordered'
           /\ \A i \in File : records'[i] = IF i = dst THEN records[dst - 1]
                                ELSE IF i = dst - 1 THEN {} ELSE records[i]
           /\ \A i \in File : header'[i] = IF i = dst THEN header[dst - 1]
                                ELSE IF i = dst - 1 THEN "none" ELSE header[i]
           /\ Kept' = Kept
<1>1. dst - 1 \in File /\ dst \in Int /\ dst - 1 # dst
  BY LogAssumption DEF File
<1>2. \A i \in File : records'[i] = IF i = dst THEN records[dst - 1]
                        ELSE IF i = dst - 1 THEN {} ELSE records[i]
  BY <1>1 DEF Moves, TypeOK
<1>3. \A i \in File : header'[i] = IF i = dst THEN header[dst - 1]
                        ELSE IF i = dst - 1 THEN "none" ELSE header[i]
  BY <1>1 DEF Moves, TypeOK
<1>4. records[dst] = {}
  BY DEF FilesInv
<1>5. Ordered'
  <2>. SUFFICES ASSUME NEW i \in File, NEW j \in File, i < j,
                       NEW r \in records'[i], NEW q \in records'[j]
                PROVE  q < r
    BY DEF Ordered
  <2>1. i \in Int /\ j \in Int
    BY LogAssumption DEF File
  <2>. QED  BY <1>1, <1>2, <2>1 DEF Ordered
<1>6. Kept' = Kept
  BY <1>1, <1>2, <1>4 DEF Kept
<1>. QED  BY <1>2, <1>3, <1>5, <1>6

\* What the removal of the oldest does
LEMMA RemovalInOrder ==
    ASSUME TypeOK, Ordered, RemoveOldest
    PROVE  /\ Ordered'
           /\ \A i \in File : records'[i] \in {records[i], {}}
           /\ \A i \in File : records'[i] # records[i] => i = max
<1>1. max \in File /\ max \in Int
  BY LogAssumption DEF TypeOK, File
<1>2. \A i \in File : /\ records'[i] \in {records[i], {}}
                      /\ records'[i] # records[i] => i = max
  BY <1>1 DEF RemoveOldest, RemoveOldestThen, fileVars, TypeOK
<1>3. Ordered'
  BY <1>2 DEF Ordered
<1>. QED  BY <1>2, <1>3

\* What the other steps leave alone
LEMMA OthersLeave ==
    ASSUME LogSnapshot \/ CheckHeader \/ AgentEnds \/ AgentStarts \/ UNCHANGED vars
    PROVE  UNCHANGED <<exists, records, header>>
  BY DEF LogSnapshot, RotateFrom, CheckHeader, AgentEnds, AgentStarts, vars, fileVars

\* A rename moves a file into a free place, or nothing.
LEMMA RenameCases ==
    ASSUME TypeOK, Rename
    PROVE  /\ \/ index \notin exists /\ index - 1 \in exists /\ Moves(index - 1, index)
              \/ UNCHANGED <<exists, records, header>>
           /\ index \in File /\ index > 0 /\ at \in Under
           /\ at' \in Under \ {"write"}
           /\ at' = "open" => needed' # "unknown"
           /\ UNCHANGED <<max, needed, given, written>>
           /\ failed \subseteq failed'
  BY DEF Rename, RenameFrom, Notes, Call, TypeOK, fileVars, AfterRotation, Under

LEMMA WriteEffect ==
    ASSUME TypeOK, Write
    PROVE  /\ \A i \in File \ {0} : records'[i] = records[i] /\ header'[i] = header[i]
           /\ \/ records'[0] = records[0] /\ failed' # {}
                 /\ written' = written
              \/ records'[0] = records[0] \union {given}
                 /\ written' = written \union {given}
           /\ header'[0] = "later" => \/ header[0] = "later"
                                      \/ needed # "no" /\ ~Empty(0)
           /\ 0 \in File
           /\ failed \subseteq failed' /\ (trouble => trouble')
<1>1. 0 \in File
  BY LogAssumption DEF File
<1>2. PICK headed, ok \in BOOLEAN :
         /\ Call("write", ok) /\ trouble' = (trouble \/ ~ok)
         /\ header' = IF needed = "no" \/ ~headed THEN header
                      ELSE [header EXCEPT ![0] = IF Empty(0) THEN "first" ELSE "later"]
         /\ records' = IF ok THEN [records EXCEPT ![0] = @ \union {given}] ELSE records
         /\ written' = IF ok THEN written \union {given} ELSE written
  BY DEF Write, Notes, Succeeds
<1>3. \A i \in File \ {0} : records'[i] = records[i] /\ header'[i] = header[i]
  BY <1>1, <1>2 DEF TypeOK
<1>4. header'[0] = "later" => header[0] = "later" \/ (needed # "no" /\ ~Empty(0))
  BY <1>1, <1>2 DEF TypeOK
<1>5. CASE ok
  BY <1>1, <1>2, <1>3, <1>4, <1>5 DEF TypeOK, Call
<1>6. CASE ~ok
  BY <1>1, <1>2, <1>3, <1>4, <1>6 DEF TypeOK, Call
<1>. QED  BY <1>5, <1>6

LEMMA OrderStep == TypeOK /\ FilesInv /\ Ordered /\ [Next]_vars => Ordered'
<1>. SUFFICES ASSUME TypeOK, FilesInv, Ordered, [Next]_vars PROVE Ordered'
  OBVIOUS
<1>1. CASE RemoveOldest
  BY <1>1, RemovalInOrder
<1>2. CASE Rename
  <2>1. CASE UNCHANGED <<exists, records, header>>
    BY <2>1 DEF Ordered
  <2>2. CASE index \notin exists /\ Moves(index - 1, index)
    BY <1>2, <2>2, RenameCases, MoveInOrder
  <2>. QED  BY <1>2, <2>1, <2>2, RenameCases
<1>3. CASE Open
  BY <1>3 DEF Open, Ordered
<1>4. CASE Write
  <2>1. \A i \in File : \A r \in records[i] : r < given
    BY <1>4 DEF FilesInv, Under, Write
  <2>2. \A i \in File : i \in Int /\ i >= 0
    BY LogAssumption DEF File
  <2>. QED  BY <1>4, <2>1, <2>2, WriteEffect DEF Ordered
<1>5. CASE LogSnapshot \/ CheckHeader \/ AgentEnds \/ AgentStarts \/ UNCHANGED vars
  BY <1>5, OthersLeave DEF Ordered
<1>. QED  BY <1>1, <1>2, <1>3, <1>4, <1>5 DEF Next

LEMMA FilesStep == TypeOK /\ FilesInv /\ Ordered /\ [Next]_vars => FilesInv'
<1>. SUFFICES ASSUME TypeOK, FilesInv, Ordered, [Next]_vars PROVE FilesInv'
  OBVIOUS
<1>1. CASE LogSnapshot
  <2>1. given' = given + 1 /\ at = "idle" /\ given \in Int /\ given >= 0
         /\ at' # "write" /\ (at' = "open" => needed' # "unknown")
    BY <1>1, LogAssumption DEF LogSnapshot, RotateFrom, TypeOK, AfterRotation
  <2>2. \A i \in File : \A r \in records[i] : r \in Int
    BY LogAssumption DEF TypeOK, Record
  <2>. QED  BY <1>1, <2>1, <2>2, OthersLeave DEF FilesInv, Under
<1>2. CASE RemoveOldest
  <2>1. \A i \in File \ exists' : records'[i] = {} /\ header'[i] = "none"
    BY <1>2, LogAssumption
    DEF RemoveOldest, RemoveOldestThen, fileVars, TypeOK, FilesInv, File
  <2>2. given' = given /\ at \in Under /\ at' # "write"
        /\ (at' = "open" => needed' # "unknown")
    BY <1>2 DEF RemoveOldest, RemoveOldestThen, Under, AfterRotation
  <2>. QED  BY <1>2, <2>1, <2>2, RemovalInOrder DEF FilesInv
<1>3. CASE Rename
  <2>1. CASE UNCHANGED <<exists, records, header>>
    BY <1>3, <2>1, RenameCases DEF FilesInv
  <2>2. CASE index \notin exists /\ index - 1 \in exists /\ Moves(index - 1, index)
    <3>1. exists' = (exists \ {index - 1}) \union {index}
      BY <2>2 DEF Moves
    <3>2. index \in File /\ index - 1 \in File
      BY <1>3, RenameCases, LogAssumption DEF File
    <3>3. \A i \in File \ exists' : records'[i] = {} /\ header'[i] = "none"
      BY <1>3, <2>2, <3>1, RenameCases, MoveInOrder DEF FilesInv
    <3>. QED  BY <1>3, <2>2, <3>2, <3>3, RenameCases, MoveInOrder DEF FilesInv
  <2>. QED  BY <1>3, <2>1, <2>2, RenameCases
<1>4. CASE CheckHeader
  BY <1>4, OthersLeave DEF CheckHeader, FilesInv, Under
<1>5. CASE Open
  BY <1>5 DEF Open, FilesInv, Under
<1>6. CASE Write
  <2>1. UNCHANGED <<exists, given>> /\ at = "write" /\ at' = "idle"
    BY <1>6 DEF Write
  <2>2. \A i \in File : \A r \in records'[i] : r <= given
    BY <1>6, <2>1, WriteEffect, LogAssumption DEF FilesInv, Under, TypeOK
  <2>3. 0 \in exists
    BY <2>1 DEF FilesInv
  <2>. QED  BY <1>6, <2>1, <2>2, <2>3, WriteEffect DEF FilesInv, Under
<1>7. CASE AgentEnds \/ AgentStarts
  BY <1>7, OthersLeave DEF AgentEnds, AgentStarts, FilesInv, Under
<1>8. CASE UNCHANGED vars
  BY <1>8 DEF vars, fileVars, FilesInv
<1>. QED
  BY <1>1, <1>2, <1>3, <1>4, <1>5, <1>6, <1>7, <1>8 DEF Next

\* What has gone wrong is remembered.
LEMMA FailedGrows == Next => failed \subseteq failed'
  BY DEF Next, LogSnapshot, RotateFrom, RemoveOldest, RemoveOldestThen, Rename,
     RenameFrom, CheckHeader, Open, Write, AgentEnds, AgentStarts, Notes, Call

LEMMA HeaderStep == TypeOK /\ FilesInv /\ Ordered /\ HeaderInv /\ [Next]_vars
                    => HeaderInv'
<1>. SUFFICES ASSUME TypeOK, FilesInv, Ordered, HeaderInv, [Next]_vars
              PROVE  HeaderInv'
  OBVIOUS
<1>0. CASE UNCHANGED vars
  BY <1>0 DEF vars, fileVars, HeaderInv, HeaderPlace, Empty
<1>. SUFFICES ASSUME Next, "size" \notin failed' PROVE HeaderInv'
  BY <1>0 DEF HeaderInv
<1>1. /\ \A i \in File : header[i] # "later"
      /\ needed = "yes" => Empty(0)
      /\ 0 \in File
  BY FailedGrows, LogAssumption DEF HeaderInv, HeaderPlace, File
<1>. SUFFICES /\ \A i \in File : header'[i] # "later"
              /\ needed' = "yes" => records'[0] = {} /\ header'[0] = "none"
  BY DEF HeaderInv, HeaderPlace, Empty
<1>2. CASE LogSnapshot \/ AgentEnds \/ AgentStarts
  BY <1>1, <1>2, OthersLeave DEF LogSnapshot, RotateFrom, AgentEnds, AgentStarts, Empty
<1>3. CASE RemoveOldest
  <2>1. /\ \A i \in File : header'[i] \in {header[i], "none"}
        /\ needed' = needed
    BY <1>3, LogAssumption DEF RemoveOldest, RemoveOldestThen, fileVars, TypeOK, File
  <2>. QED  BY <1>1, <1>3, <2>1, RemovalInOrder DEF Empty
<1>4. CASE Rename
  <2>1. CASE UNCHANGED <<exists, records, header>>
    BY <1>1, <1>4, <2>1, RenameCases DEF Empty
  <2>2. CASE index \notin exists /\ Moves(index - 1, index)
    <3>1. index \in Int /\ index > 0 /\ index - 1 \in File
      BY <1>4, RenameCases, LogAssumption DEF File
    <3>. QED  BY <1>1, <1>4, <2>2, <3>1, RenameCases, MoveInOrder DEF Empty
  <2>. QED  BY <1>4, <2>1, <2>2, RenameCases
<1>5. CASE CheckHeader
  <2>1. needed' = "yes" => Empty(0)
    BY <1>5 DEF CheckHeader, Notes, Call
  <2>. QED  BY <1>1, <1>5, <2>1, OthersLeave DEF Empty
<1>6. CASE Open
  BY <1>1, <1>6 DEF Open, Empty
<1>7. CASE Write
  <2>1. needed' = "no"
    BY <1>7 DEF Write
  <2>2. needed # "unknown"
    BY <1>7 DEF Write, FilesInv
  <2>. QED  BY <1>1, <1>7, <2>1, <2>2, WriteEffect DEF TypeOK
<1>. QED  BY <1>2, <1>3, <1>4, <1>5, <1>6, <1>7 DEF Next

\* A step loses a record only by removing the file of the oldest.
LEMMA LossStep ==
    ASSUME TypeOK, FilesInv, Ordered, [Next]_vars
    PROVE  \A r \in Kept \ Kept' : \A i \in 0..max : \A q \in records'[i] : r < q
<1>1. CASE RemoveOldest
  <2>. SUFFICES ASSUME NEW r \in Kept, r \notin Kept', NEW i \in 0..max,
                       NEW q \in records'[i]
                PROVE  r < q
    OBVIOUS
  <2>1. i \in File /\ max \in File /\ i \in Int /\ max \in Int
    BY LogAssumption DEF TypeOK, File
  <2>2. PICK j \in File : r \in records[j]
    BY DEF Kept
  <2>3. j = max /\ records'[max] = {}
    BY <1>1, <2>1, <2>2, RemovalInOrder DEF Kept
  <2>4. i # max /\ q \in records[i]
    BY <1>1, <2>1, <2>3, RemovalInOrder
  <2>. QED  BY <2>1, <2>2, <2>3, <2>4 DEF Ordered
<1>2. CASE Rename
  <2>1. Kept' = Kept
    BY <1>2, RenameCases, MoveInOrder DEF Kept
  <2>. QED  BY <2>1
<1>3. CASE Write
  <2>1. \A i \in File : records[i] \subseteq records'[i]
    BY <1>3, WriteEffect
  <2>. QED  BY <2>1 DEF Kept
<1>4. CASE Open
  BY <1>4 DEF Open, Kept
<1>5. CASE LogSnapshot \/ CheckHeader \/ AgentEnds \/ AgentStarts \/ UNCHANGED vars
  BY <1>5, OthersLeave DEF Kept
<1>. QED  BY <1>1, <1>2, <1>3, <1>4, <1>5 DEF Next

(***************************************************************************)
(* How much the files hold.                                                *)
(***************************************************************************)

LEMMA RecordsFinite ==
    ASSUME NEW S \in SUBSET Record
    PROVE  IsFiniteSet(S) /\ Cardinality(S) \in Nat
<1>1. IsFiniteSet(Record)
  BY FS_Interval, LogAssumption DEF Record
<1>2. IsFiniteSet(S)
  BY <1>1, FS_Subset
<1>. QED  BY <1>2, FS_CardinalityType

\* Writing adds at most one record to a file.
LEMMA OneMore ==
    ASSUME NEW S \in SUBSET Record, NEW r
    PROVE  Cardinality(S) <= Cardinality(S \union {r})
        /\ Cardinality(S \union {r}) <= Cardinality(S) + 1
  BY RecordsFinite, FS_AddElement

\* Since the last rotation without trouble, the log has room when it is
\* opened; in a rotation, the place the next file moves to is free, so that
\* the last round empties the log.
SizeInv ==
    max > 0 /\ Limit > 0 /\ ~trouble =>
        /\ at \in {"off", "idle"} => Cardinality(records[0]) <= Limit
        /\ at \in {"header", "open", "write"} => Cardinality(records[0]) < Limit
        /\ at = "rename" => index \notin exists

LEMMA SizeStep == TypeOK /\ FilesInv /\ Ordered /\ SizeInv /\ [Next]_vars => SizeInv'
<1>. SUFFICES ASSUME TypeOK, FilesInv, Ordered, SizeInv, [Next]_vars,
                     max' > 0, Limit > 0, ~trouble'
              PROVE  /\ at' \in {"off", "idle"} => Cardinality(records'[0]) <= Limit
                     /\ at' \in {"header", "open", "write"} => Cardinality(records'[0]) < Limit
                     /\ at' = "rename" => index' \notin exists'
  BY DEF SizeInv
<1>1. /\ 0 \in File /\ records[0] \in SUBSET Record
      /\ Cardinality(records[0]) \in Nat /\ Cardinality({}) = 0 /\ Limit \in Nat
  BY RecordsFinite, FS_EmptySet, LogAssumption DEF TypeOK, File
<1>2. CASE LogSnapshot
  <2>1. PICK ok \in BOOLEAN :
           /\ at' = IF Size(ok) >= Limit THEN "remove" ELSE AfterRotation
           /\ trouble' = (~ok \/ (trouble /\ Size(ok) < Limit))
    BY <1>2 DEF LogSnapshot, RotateFrom
  <2>2. ok
    BY <2>1
  <2>3. \/ at' = "remove"
        \/ at' \in {"header", "open"} /\ Cardinality(records[0]) < Limit
    BY <1>1, <2>1, <2>2 DEF Size, AfterRotation
  <2>. QED  BY <1>2, <2>3, OthersLeave
<1>3. CASE RemoveOldest
  <2>1. exists' = exists \ {max} /\ index' = max /\ at' = "rename"
    BY <1>3 DEF RemoveOldest, RemoveOldestThen, Notes
  <2>. QED  BY <2>1
<1>4. CASE Rename
  <2>1. /\ ~trouble /\ index - 1 \in exists => Moves(index - 1, index)
        /\ index' = index - 1
        /\ at' = IF index > 1 THEN "rename" ELSE AfterRotation
        /\ at = "rename" /\ max' = max
    BY <1>4 DEF Rename, RenameFrom, Notes, SizeInv
  <2>2. index \in Int /\ index > 0 /\ index - 1 # index /\ index - 1 \in File
    BY <1>4, RenameCases, LogAssumption DEF File
  <2>3. index - 1 \notin exists'
    BY <1>4, <2>1, <2>2, RenameCases DEF Moves, Rename, RenameFrom, Notes, SizeInv, fileVars
  <2>4. at' # "rename" => records'[0] = {}
    BY <2>1, <2>2, <2>3, <1>1, FilesStep DEF FilesInv
  <2>. QED  BY <1>1, <2>1, <2>2, <2>3, <2>4 DEF AfterRotation
<1>5. CASE CheckHeader \/ Open
  <2>1. /\ ~trouble /\ at \in {"header", "open"} /\ UNCHANGED <<records, max>>
        /\ at' \in {"open", "write", "idle"}
    BY <1>5 DEF CheckHeader, Open, Notes, fileVars
  <2>. QED  BY <1>1, <2>1 DEF SizeInv
<1>6. CASE Write
  <2>1. at = "write" /\ at' = "idle" /\ max' = max /\ ~trouble
    BY <1>6, WriteEffect DEF Write
  <2>2. /\ records'[0] \in {records[0], records[0] \union {given}}
        /\ records'[0] \in SUBSET Record
    BY <1>1, <1>6, TypeStep, WriteEffect DEF Next, TypeOK
  <2>3. Cardinality(records[0]) < Limit
    BY <2>1 DEF SizeInv
  <2>4. /\ Cardinality(records'[0]) \in Nat
        /\ Cardinality(records'[0]) <= Cardinality(records[0]) + 1
    <3>1. Cardinality(records[0] \union {given}) <= Cardinality(records[0]) + 1
      BY <1>1, OneMore
    <3>2. Cardinality(records'[0]) \in Nat
      BY <2>2, RecordsFinite
    <3>3. CASE records'[0] = records[0]
      BY <1>1, <3>3
    <3>4. CASE records'[0] = records[0] \union {given}
      BY <3>1, <3>2, <3>4
    <3>. QED  BY <2>2, <3>2, <3>3, <3>4
  <2>. QED  BY <1>1, <2>1, <2>3, <2>4
<1>7. CASE AgentEnds
  <2>1. ~trouble /\ at \notin {"remove", "rename"} /\ at' = "off"
    BY <1>7 DEF AgentEnds
  <2>2. max' = max /\ UNCHANGED records
    BY <1>7 DEF AgentEnds, fileVars
  <2>. QED  BY <1>1, <2>1, <2>2 DEF SizeInv, TypeOK
<1>8. CASE AgentStarts
  <2>1. ~trouble /\ max' = max /\ at = "off" /\ at' = "idle"
    BY <1>8 DEF AgentStarts
  <2>2. UNCHANGED records
    BY <1>8 DEF AgentStarts, fileVars
  <2>. QED  BY <1>1, <2>1, <2>2 DEF SizeInv
<1>9. CASE UNCHANGED vars
  BY <1>9 DEF vars, fileVars, SizeInv
<1>. QED
  BY <1>2, <1>3, <1>4, <1>5, <1>6, <1>7, <1>8, <1>9 DEF Next

\* In place of induction: among some finite sets there is one of which no
\* other is a part.
LEMMA SmallestSet ==
    ASSUME NEW S, NEW Sets, Sets \subseteq FiniteSubsetsOf(S), Sets # {}
    PROVE  \E A \in Sets : \A B \in Sets : B \subseteq A => B = A
<1>1. \E A \in Sets : \A B \in Sets : <<B, A>> \notin StrictSubsetOrdering(S)
  BY FS_StrictSubsetOrderingWellFounded, WFMin
<1>2. \A A, B \in FiniteSubsetsOf(S) :
         <<B, A>> \in StrictSubsetOrdering(S) <=> B \subseteq A /\ B # A
  BY DEF StrictSubsetOrdering, FiniteSubsetsOf
<1>. QED  BY <1>1, <1>2

Filled(i) == Cardinality(records[i]) >= Limit
In(files) == UNION {records[i] : i \in files}

LEMMA TimesNext ==
    ASSUME NEW n \in Nat, NEW m \in Nat
    PROVE  n * m \in Nat /\ (n + 1) * m = n * m + m
  OBVIOUS

\* Files in order share no record: as many as are filled hold as many times
\* the limit.
LEMMA FilledHold ==
    ASSUME TypeOK, Ordered, NEW files \in SUBSET File,
           \A i \in files : Filled(i)
    PROVE  Cardinality(In(files)) >= Cardinality(files) * Limit
<1>. DEFINE Short == {A \in SUBSET files :
                         ~(Cardinality(In(A)) >= Cardinality(A) * Limit)}
<1>. SUFFICES ASSUME Short # {} PROVE FALSE
  OBVIOUS
<1>1. IsFiniteSet(files)
  <2>1. IsFiniteSet(File)
    BY FS_Interval, LogAssumption DEF File
  <2>. QED  BY <2>1, FS_Subset
<1>2. Short \subseteq FiniteSubsetsOf(files)
  BY <1>1, FS_Subset DEF FiniteSubsetsOf
<1>. HIDE DEF Short
<1>3. PICK A \in Short : \A B \in Short : B \subseteq A => B = A
  BY <1>2, SmallestSet
<1>4. /\ A \in SUBSET files
      /\ ~(Cardinality(In(A)) >= Cardinality(A) * Limit)
  BY DEF Short
<1>5. A # {}
  <2>1. In({}) = {}
    BY DEF In
  <2>. QED  BY <1>4, <2>1, FS_EmptySet, LogAssumption
<1>6. PICK x \in A : TRUE
  BY <1>5
<1>. DEFINE B == A \ {x}
<1>7. Cardinality(In(B)) >= Cardinality(B) * Limit
  BY <1>3, <1>4, <1>6 DEF Short
<1>8. /\ In(A) = In(B) \union records[x] /\ In(B) \intersect records[x] = {}
      /\ In(B) \in SUBSET Record /\ records[x] \in SUBSET Record
  <2>1. \A i \in B : records[i] \intersect records[x] = {}
    <3>1. \A i \in B : i < x \/ x < i
      BY <1>4, LogAssumption DEF File
    <3>2. \A r \in Record : ~(r < r)
      BY LogAssumption DEF Record
    <3>. QED  BY <1>4, <3>1, <3>2 DEF Ordered, TypeOK
  <2>. QED  BY <1>4, <1>6, <2>1 DEF In, TypeOK
<1>9. Cardinality(In(A)) = Cardinality(In(B)) + Cardinality(records[x])
  <2>. HIDE DEF B
  <2>1. IsFiniteSet(In(B)) /\ IsFiniteSet(records[x])
        /\ Cardinality(In(B)) \in Nat /\ Cardinality(records[x]) \in Nat
    BY <1>8, RecordsFinite
  <2>2. Cardinality(In(B) \union records[x])
          = Cardinality(In(B)) + Cardinality(records[x])
            - Cardinality(In(B) \intersect records[x])
    BY <2>1, FS_Union
  <2>3. Cardinality(In(B) \intersect records[x]) = 0
    BY <1>8, FS_EmptySet
  <2>. QED  BY <2>1, <2>2, <2>3, <1>8
<1>10. /\ Cardinality(A) \in Nat /\ Cardinality(B) \in Nat
       /\ Cardinality(A) = Cardinality(B) + 1
  BY <1>1, <1>4, <1>6, FS_Subset, FS_RemoveElement, FS_CardinalityType
<1>11. Cardinality(A) * Limit = Cardinality(B) * Limit + Limit
  BY <1>10, TimesNext, LogAssumption
<1>12. Cardinality(records[x]) >= Limit
  BY <1>4, <1>6 DEF Filled
<1>13. Cardinality(In(B)) \in Nat /\ Cardinality(records[x]) \in Nat
  BY <1>8, RecordsFinite
<1>14. Limit \in Nat /\ Cardinality(B) * Limit \in Nat
  BY <1>10, TimesNext, LogAssumption
<1>. HIDE DEF B
<1>. QED  BY <1>14, <1>4, <1>7, <1>9, <1>11, <1>12, <1>13

\* The file that is free: in a rotation the one the next rename makes, from
\* its end on the log, before it none.
Hole == CASE at = "rename" -> index [] at = "remove" -> max + 1 [] OTHER -> 0

\* While nothing goes wrong the files there are, are those up to some number,
\* filled, but for the free one; and if anything has been lost, all are.
RetainInv ==
    failed = {} /\ Limit > 0 =>
        /\ at = "rename" => index \notin exists /\ index <= max
        /\ \A j \in exists : j <= max =>
              \A i \in 0..j : i # Hole => Filled(i)
        /\ Kept = written \/ \A i \in 0..max : i # Hole => Filled(i)

LEMMA RetainStep == TypeOK /\ FilesInv /\ Ordered /\ RetainInv /\ [Next]_vars
                    => RetainInv'
<1>. SUFFICES ASSUME TypeOK, FilesInv, Ordered, RetainInv, [Next]_vars
              PROVE  RetainInv'
  OBVIOUS
<1>0. CASE UNCHANGED vars
  BY <1>0 DEF vars, fileVars, RetainInv, Hole, Filled, Kept
<1>. SUFFICES ASSUME Next, failed' = {}, Limit > 0
              PROVE  /\ at' = "rename" => index' \notin exists' /\ index' <= max'
                     /\ \A j \in exists' : j <= max' =>
                           \A i \in 0..j : i # Hole' => Filled(i)'
                     /\ \/ Kept' = written'
                        \/ \A i \in 0..max' : i # Hole' => Filled(i)'
  BY <1>0 DEF RetainInv
<1>1. /\ at = "rename" => index \notin exists /\ index <= max
      /\ \A j \in exists : j <= max =>
            \A i \in 0..j : i # Hole => Filled(i)
      /\ Kept = written \/ \A i \in 0..max : i # Hole => Filled(i)
  BY FailedGrows DEF RetainInv
<1>2. /\ max \in File /\ max \in Nat /\ exists \subseteq File
      /\ \A i \in File : i \in Nat
      /\ \A i \in 0..max : i \in File
  BY LogAssumption DEF TypeOK, File
<1>3. CASE LogSnapshot
  <2>1. UNCHANGED <<exists, records, max, written>> /\ Hole = 0
    BY <1>3, OthersLeave DEF LogSnapshot, RotateFrom, Hole
  <2>2. PICK ok \in BOOLEAN :
           /\ failed' = IF ok THEN failed ELSE failed \union {"size"}
           /\ at' = IF Size(ok) >= Limit THEN "remove" ELSE AfterRotation
    BY <1>3 DEF LogSnapshot, RotateFrom, Call
  <2>3. ok
    BY <2>2
  <2>4. CASE at' = "remove"
    <3>1. Filled(0)
      BY <2>2, <2>3, <2>4 DEF Size, AfterRotation, Filled
    <3>2. (\A i \in Nat : Filled(i)' <=> Filled(i)) /\ Kept' = Kept
      BY <2>1 DEF Filled, Kept
    <3>3. \A j \in exists : \A i \in 0..j : i \in Nat
      BY <1>2
    <3>. QED  BY <1>1, <1>2, <2>1, <2>4, <3>1, <3>2, <3>3
  <2>5. CASE at' # "remove"
    <3>1. Hole' = 0 /\ at' # "rename"
      BY <2>2, <2>5 DEF Hole, AfterRotation
    <3>. QED  BY <1>1, <2>1, <3>1 DEF Filled, Kept
  <2>. QED  BY <2>4, <2>5
<1>4. CASE RemoveOldest
  <2>1. at = "remove" /\ Hole = max + 1 /\ UNCHANGED <<max, written>>
    BY <1>4 DEF RemoveOldest, RemoveOldestThen, Hole
  <2>2. CASE max = 0
    <3>1. Hole' = 0 /\ at' # "rename" /\ exists' = exists
      BY <1>4, <2>2 DEF RemoveOldest, RemoveOldestThen, Hole, AfterRotation, fileVars
    <3>. QED  BY <1>2, <2>1, <2>2, <3>1
  <2>3. CASE max > 0
    <3>1. /\ exists' = exists \ {max} /\ index' = max /\ at' = "rename"
          /\ records' = [records EXCEPT ![max] = {}]
      BY <1>4, <2>3 DEF RemoveOldest, RemoveOldestThen, Notes, Call
    <3>2. Hole' = max
      BY <3>1 DEF Hole
    <3>3. \A i \in File : records'[i] = IF i = max THEN {} ELSE records[i]
      BY <1>2, <3>1 DEF TypeOK
    <3>4. \A i \in File : i # max => (Filled(i)' <=> Filled(i))
      BY <3>3 DEF Filled
    <3>5. CASE max \in exists
      <4>1. \A i \in 0..max : Filled(i)
        BY <1>1, <1>2, <2>1, <3>5
      <4>. QED  BY <1>2, <2>1, <3>1, <3>2, <3>4, <4>1
    <3>6. CASE max \notin exists
      <4>1. Kept' = Kept
        BY <3>3, <3>6, <1>2 DEF Kept, FilesInv
      <4>. QED  BY <1>1, <1>2, <2>1, <3>1, <3>2, <3>4, <3>6, <4>1
    <3>. QED  BY <3>5, <3>6
  <2>. QED  BY <1>2, <2>2, <2>3
<1>5. CASE Rename
  <2>1. /\ at = "rename" /\ Hole = index /\ UNCHANGED <<max, written>>
        /\ index' = index - 1 /\ Hole' = index - 1
    BY <1>5, RenameCases
    DEF Rename, RenameFrom, Hole, AfterRotation, TypeOK, File
  <2>2. /\ index \in Nat /\ index > 0 /\ index <= max /\ index \notin exists
        /\ index \in File /\ index - 1 \in File
    BY <1>1, <1>2, <1>5, <2>1, RenameCases, LogAssumption DEF File
  <2>3. CASE index - 1 \in exists
    <3>1. Moves(index - 1, index)
      BY <1>5, <2>2, <2>3 DEF Rename, RenameFrom, Notes, Call
    <3>2. /\ \A i \in File : records'[i] = IF i = index THEN records[index - 1]
                             ELSE IF i = index - 1 THEN {} ELSE records[i]
          /\ Kept' = Kept
      BY <2>2, <3>1, RenameCases, <1>5, MoveInOrder
    <3>3. exists' = (exists \ {index - 1}) \union {index}
      BY <3>1 DEF Moves
    <3>4. ASSUME NEW i \in File, i # index - 1, i # index => Filled(i),
                 i = index => Filled(index - 1)
          PROVE  Filled(i)'
      BY <3>2, <3>4 DEF Filled
    <3>5. \A i \in 0..(index - 1) : Filled(i)
      BY <1>1, <1>2, <2>1, <2>2, <2>3
    <3>6. ASSUME NEW j \in exists', j <= max', NEW i \in 0..j, i # Hole'
          PROVE  Filled(i)'
      <4>1. i \in File /\ i # index - 1 /\ j \in Nat /\ i \in Nat
        BY <1>2, <2>1, <2>2, <3>3, <3>6, LogAssumption DEF File
      <4>2. i # index => Filled(i)
        <5>1. CASE j = index
          BY <2>2, <3>5, <3>6, <4>1, <5>1
        <5>2. CASE j # index
          BY <1>1, <2>1, <3>3, <3>6, <5>2
        <5>. QED  BY <5>1, <5>2
      <4>. QED  BY <2>2, <3>4, <3>5, <4>1, <4>2
    <3>7. Kept' = written' \/ \A i \in 0..max' : i # Hole' => Filled(i)'
      BY <1>1, <1>2, <2>1, <2>2, <3>2, <3>4, <3>5
    <3>. QED  BY <1>2, <2>1, <2>2, <3>3, <3>6, <3>7
  <2>4. CASE index - 1 \notin exists
    <3>1. UNCHANGED <<exists, records, header>>
      BY <1>5, <2>4 DEF Rename, RenameFrom, fileVars
    <3>2. \A i \in File : Filled(i)' <=> Filled(i)
      BY <3>1 DEF Filled
    <3>3. ~Filled(index - 1)
      BY <2>2, <2>4, FS_EmptySet, LogAssumption DEF FilesInv, Filled
    <3>4. ASSUME NEW j \in exists', j <= max', NEW i \in 0..j, i # Hole'
          PROVE  Filled(i)'
      <4>1. i \in File /\ j \in Nat /\ i \in Nat /\ j \in exists
        BY <1>2, <3>1, <3>4, LogAssumption DEF File
      <4>2. j < index
        BY <1>1, <2>1, <2>2, <3>1, <3>3, <3>4, <4>1
      <4>. QED  BY <1>1, <2>1, <3>2, <3>4, <4>1, <4>2
    <3>5. Kept' = written' \/ \A i \in 0..max' : i # Hole' => Filled(i)'
      <4>1. Kept' = Kept
        BY <3>1 DEF Kept
      <4>. QED  BY <1>1, <1>2, <2>1, <2>2, <3>3, <4>1
    <3>. QED  BY <1>2, <2>1, <2>2, <2>4, <3>1, <3>4, <3>5
  <2>. QED  BY <2>3, <2>4
<1>6. CASE CheckHeader
  <2>1. Hole' = Hole /\ UNCHANGED <<exists, records, max, written>> /\ at' # "rename"
    BY <1>6, OthersLeave DEF CheckHeader, Hole
  <2>. QED  BY <1>1, <2>1 DEF Filled, Kept
<1>7. CASE Open
  <2>1. /\ UNCHANGED <<records, max, written>> /\ exists' \subseteq exists \union {0}
        /\ Hole = 0 /\ Hole' = 0 /\ at' # "rename"
    BY <1>7 DEF Open, Hole
  <2>. QED  BY <1>1, <2>1 DEF Filled, Kept
<1>8. CASE Write
  <2>1. /\ UNCHANGED <<exists, max>> /\ Hole = 0 /\ Hole' = 0 /\ at' # "rename"
        /\ records'[0] = records[0] \union {given}
        /\ written' = written \union {given}
    BY <1>8, WriteEffect DEF Write, Hole
  <2>2. \A i \in File : i # 0 => (Filled(i)' <=> Filled(i))
    BY <1>8, WriteEffect DEF Filled
  <2>3. Kept' = Kept \union {given}
    BY <1>8, <2>1, WriteEffect DEF Kept
  <2>4. \A j \in exists : \A i \in 0..j : i \in File
    BY LogAssumption DEF TypeOK, File
  <2>. QED  BY <1>1, <1>2, <2>1, <2>2, <2>3, <2>4
<1>9. CASE AgentEnds
  <2>1. at \notin {"remove", "rename"} /\ at' = "off"
    BY <1>9 DEF AgentEnds
  <2>2. Hole' = Hole
    BY <2>1 DEF Hole
  <2>3. UNCHANGED <<exists, records, max, written>>
    BY <1>9 DEF AgentEnds, fileVars
  <2>. QED  BY <1>1, <2>1, <2>2, <2>3 DEF Filled, Kept
<1>10. CASE AgentStarts
  <2>1. at = "off" /\ at' = "idle" /\ max' = max
    BY <1>10 DEF AgentStarts
  <2>2. Hole' = Hole
    BY <2>1 DEF Hole
  <2>3. UNCHANGED <<exists, records, written>>
    BY <1>10 DEF AgentStarts, fileVars
  <2>. QED  BY <1>1, <2>1, <2>2, <2>3 DEF Filled, Kept
<1>. QED
  BY <1>3, <1>4, <1>5, <1>6, <1>7, <1>8, <1>9, <1>10 DEF Next

\* All files but one, filled, hold what is promised.
LEMMA RetainEnough == TypeOK /\ Ordered /\ RetainInv => Retained
<1>. SUFFICES ASSUME TypeOK, Ordered, RetainInv, failed = {}, Kept # written
              PROVE  Cardinality(Kept) >= max * Limit
  BY DEF Retained
<1>. DEFINE files == (0..max) \ {Hole}
<1>1. max \in Nat /\ Limit \in Nat /\ 0..max \subseteq File
  BY LogAssumption DEF TypeOK, File
<1>2. Kept \in SUBSET Record /\ IsFiniteSet(Kept) /\ Cardinality(Kept) \in Nat
  <2>1. Kept \in SUBSET Record
    BY DEF Kept, TypeOK
  <2>. QED  BY <2>1, RecordsFinite
<1>3. CASE Limit = 0
  BY <1>1, <1>2, <1>3
<1>4. CASE Limit > 0
  <2>1. files \in SUBSET File /\ \A i \in files : Filled(i)
    BY <1>1, <1>4 DEF RetainInv
  <2>2. Cardinality(files) \in {max, max + 1}
    <3>1. IsFiniteSet(0..max) /\ Cardinality(0..max) = max + 1
      BY <1>1, FS_Interval
    <3>2. Cardinality(files) = IF Hole \in 0..max THEN Cardinality(0..max) - 1
                               ELSE Cardinality(0..max)
      BY <3>1, FS_RemoveElement, Zenon
    <3>. HIDE DEF files
    <3>. QED  BY <1>1, <3>1, <3>2
  <2>. HIDE DEF files
  <2>3. Cardinality(In(files)) >= Cardinality(files) * Limit
    BY <2>1, FilledHold
  <2>4. In(files) \in SUBSET Kept
    BY <2>1 DEF In, Kept
  <2>5. /\ Cardinality(In(files)) <= Cardinality(Kept)
        /\ Cardinality(In(files)) \in Nat
    BY <1>2, <2>4, FS_Subset, FS_CardinalityType
  <2>6. /\ max * Limit \in Nat
        /\ Cardinality(files) * Limit \in {max * Limit, max * Limit + Limit}
    BY <1>1, <2>2, TimesNext
  <2>. QED  BY <1>1, <1>2, <2>3, <2>5, <2>6
<1>. QED  BY <1>1, <1>3, <1>4

(***************************************************************************)
(* The theorems.                                                           *)
(***************************************************************************)
LogInv == TypeOK /\ FilesInv /\ Ordered /\ HeaderInv /\ SizeInv /\ RetainInv

LEMMA LogInvariant == Spec => []LogInv
<1>1. Init => LogInv
  <2>. SUFFICES ASSUME Init PROVE LogInv
    OBVIOUS
  <2>1. SizeInv
    BY FS_EmptySet, LogAssumption DEF Init, SizeInv, File
  <2>2. RetainInv
    BY DEF Init, RetainInv, Kept
  <2>. QED  BY <2>1, <2>2, InitType, InitInv DEF LogInv
<1>2. LogInv /\ [Next]_vars => LogInv'
  BY TypeStep, FilesStep, OrderStep, HeaderStep, SizeStep, RetainStep DEF LogInv
<1>. QED  BY <1>1, <1>2, PTL DEF Spec

\* The log's variables keep their types: no rotation leaves the indices the
\* configuration gives it.
THEOREM LogTypeCorrect == Spec => []TypeOK
<1>1. LogInv => TypeOK
  BY DEF LogInv
<1>. QED  BY <1>1, LogInvariant, PTL

\* A file with a higher number holds older records, whatever fails or is
\* killed, and however many files an agent is told to keep.
THEOREM LogOrdered == Spec => []Ordered
<1>1. LogInv => Ordered
  BY DEF LogInv
<1>. QED  BY <1>1, LogInvariant, PTL

\* No header comes after a record unless the size could not be had.
THEOREM HeadersInPlace == Spec => []HeaderPlace
<1>1. LogInv => HeaderPlace
  BY DEF LogInv, HeaderInv, HeaderPlace
<1>. QED  BY <1>1, LogInvariant, PTL

\* No step of a rotation loses anything newer than what it keeps.
THEOREM OldestIsLost == Spec => LosesOldest
<1>1. LogInv /\ [Next]_vars =>
        [\A r \in Kept \ Kept' : \A i \in 0..max : \A q \in records'[i] : r < q]_vars
  BY LossStep DEF LogInv
<1>. QED  BY <1>1, LogInvariant, PTL DEF Spec, LosesOldest

\* The last max_rotated_files times the limit records are there while nothing
\* goes wrong, at every step of a rotation, for any number of files.
THEOREM LogRetained == Spec => []Retained
<1>1. LogInv => Retained
  BY RetainEnough DEF LogInv
<1>. QED  BY <1>1, LogInvariant, PTL

\* Whatever failed before, after one rotation without trouble the log is
\* within its limit, and stays so until there is trouble again.
THEOREM LogBounded == Spec => []SizeBounded
<1>1. LogInv => SizeBounded
  BY DEF LogInv, SizeInv, SizeBounded
<1>. QED  BY <1>1, LogInvariant, PTL
==============================================================================
