--------------------------- MODULE TagDatabaseProofs ---------------------------
(***************************************************************************)
(* What get_snapshot guarantees while the telemetry thread and the hook    *)
(* store their measurements, for any tags, any grouping of them and any    *)
(* number of sets.                                                         *)
(***************************************************************************)
EXTENDS TagDatabase, TLAPS

(***************************************************************************)
(* Types, and who writes what: the hook its tag, the telemetry thread the  *)
(* others.  A writer that has stored a value still has its timestamp to    *)
(* store; a reader that has loaded a value is not past the last tag.       *)
(***************************************************************************)
WriterInv ==
    /\ toSet["telemetry"] \in Seq(TagSet \ {Hooked})
    /\ toSet["hook"] \in Seq({Hooked})
    /\ \A w \in Writers : stored[w] => ~Idle(w)

TypeInv == TypeOK /\ WriterInv /\ (loaded => ~Complete)

\* The lengths of the two sequences, and what they hold
LEMMA Lengths ==
    /\ Len(Tags) \in Nat \ {0}
    /\ \A i \in 1..Len(Tags) : Tags[i] \in TagSet
    /\ Len(Collected) \in Nat \ {0}
    /\ \A i \in 1..Len(Collected) : Collected[i] \in Seq(TagSet \ {Hooked})
<1>1. Len(Tags) \in Nat \ {0}
  BY TagsAssumption
<1>2. \A i \in 1..Len(Tags) : Tags[i] \in TagSet
  BY DEF TagSet
<1>3. Len(Collected) \in Nat \ {0}
  BY TagsAssumption
<1>4. \A i \in 1..Len(Collected) : Collected[i] \in Seq(TagSet \ {Hooked})
  BY TagsAssumption
<1>. QED  BY <1>1, <1>2, <1>3, <1>4

\* What a writer that is not idle sets next is a tag of its own.
LEMMA NextTag ==
    ASSUME TypeInv, NEW w \in Writers, ~Idle(w)
    PROVE  /\ Head(toSet[w]) \in TagSet
           /\ Head(toSet[w]) = Hooked <=> w = "hook"
           /\ Tail(toSet[w]) \in Seq(TagSet)
           /\ w = "telemetry" => Tail(toSet[w]) \in Seq(TagSet \ {Hooked})
           /\ w = "hook" => Tail(toSet[w]) \in Seq({Hooked})
BY TagsAssumption DEF TypeInv, TypeOK, WriterInv, Idle, Writers

\* Versions are numbers.
LEMMA Numbers ==
    ASSUME TypeInv, NEW t \in TagSet
    PROVE  /\ value[t] \in Nat /\ stamp[t] \in Nat /\ began[t] \in Nat
           /\ snapValue[t] \in Nat /\ snapStamp[t] \in Nat
BY TagsAssumption DEF TypeInv, TypeOK, Versions

\* What a set stores is the next version of that tag.
LEMMA NextVersion ==
    ASSUME TypeInv, NEW w \in Writers, SetValue(w), NEW t \in TagSet
    PROVE  value'[t] = IF t = Head(toSet[w]) THEN value[t] + 1 ELSE value[t]
<1>. DEFINE set == Head(toSet[w])
<1>1. value' = [value EXCEPT ![set] = @ + 1]
  BY DEF SetValue
<1>. HIDE DEF set
<1>2. value'[t] = IF t = set THEN value[t] + 1 ELSE value[t]
  BY <1>1 DEF TypeInv, TypeOK, Versions
<1>. QED  BY <1>2 DEF set

\* The database starts well-typed.
LEMMA TypeInit == Init => TypeInv
<1>. SUFFICES ASSUME Init PROVE TypeInv
  OBVIOUS
<1>1. Zero \in Versions
  BY TagsAssumption DEF Zero, Versions
<1>2. loaded \in BOOLEAN /\ ~loaded /\ stored \in [Writers -> BOOLEAN]
  BY Zenon DEF Init
<1>3. \A w \in Writers : ~stored[w]
  BY Zenon DEF Init
<1>4. /\ toSet \in [Writers -> Seq(TagSet)]
      /\ toSet["telemetry"] \in Seq(TagSet \ {Hooked})
      /\ toSet["hook"] \in Seq({Hooked})
  BY DEF Init, Writers
<1>. QED
  BY <1>1, <1>2, <1>3, <1>4, Lengths DEF Init, TypeInv, TypeOK, WriterInv

\* A step of a writer keeps the types, and each writer to its own tags.
LEMMA WriterTypeStep ==
    ASSUME TypeInv, NEW w \in Writers, SetValue(w) \/ SetStamp(w) \/ SetBounded(w)
    PROVE  TypeInv'
<1>. DEFINE t == Head(toSet[w])
<1>1. ~Idle(w)
  BY DEF TypeInv, WriterInv, SetValue, SetStamp, SetBounded
<1>2. t \in TagSet
  BY <1>1, NextTag
<1>3. CASE SetValue(w)
  <2>1. value' = [value EXCEPT ![t] = @ + 1] /\ value[t] < MaxSets
    BY <1>3 DEF SetValue
  <2>2. value' \in Versions
    <3>. HIDE DEF t
    <3>1. value \in Versions /\ value[t] \in 0..MaxSets
      BY <1>2 DEF TypeInv, TypeOK, Versions
    <3>2. value[t] + 1 \in 0..MaxSets
      BY <2>1, <3>1, TagsAssumption
    <3>. QED  BY <1>2, <2>1, <3>1, <3>2 DEF Versions
  <2>3. stored' \in [Writers -> BOOLEAN]
    BY <1>3 DEF SetValue, TypeInv, TypeOK
  <2>4. \A v \in Writers : stored'[v] => stored[v] \/ v = w
    BY <1>3 DEF SetValue, TypeInv, TypeOK
  <2>. QED
    BY <1>1, <1>3, <2>2, <2>3, <2>4
    DEF SetValue, TypeInv, TypeOK, WriterInv, Idle, Complete, readerVars
<1>. DEFINE rest == [toSet EXCEPT ![w] = Tail(@)]
<1>4. /\ rest \in [Writers -> Seq(TagSet)]
      /\ rest["telemetry"] \in Seq(TagSet \ {Hooked})
      /\ rest["hook"] \in Seq({Hooked})
      /\ \A v \in Writers \ {w} : rest[v] = toSet[v]
  BY <1>1, NextTag DEF TypeInv, TypeOK, WriterInv, Writers
<1>5. CASE SetStamp(w)
  <2>1. stamp' = [stamp EXCEPT ![t] = value[t]] /\ toSet' = rest
    BY <1>5 DEF SetStamp
  <2>2. stamp' \in Versions
    BY <1>2, <2>1 DEF TypeInv, TypeOK, Versions
  <2>3. stored' \in [Writers -> BOOLEAN]
    BY <1>5 DEF SetStamp, TypeInv, TypeOK
  <2>4. \A v \in Writers : stored'[v] => stored[v] /\ v # w
    BY <1>5 DEF SetStamp, TypeInv, TypeOK
  <2>. HIDE DEF rest
  <2>. QED
    BY <1>4, <1>5, <2>1, <2>2, <2>3, <2>4
    DEF SetStamp, TypeInv, TypeOK, WriterInv, Idle, Complete, readerVars
<1>6. CASE SetBounded(w)
  <2>1. toSet' = rest /\ ~stored[w]
    BY <1>6 DEF SetBounded
  <2>. HIDE DEF rest
  <2>. QED
    BY <1>4, <1>6, <2>1
    DEF SetBounded, TypeInv, TypeOK, WriterInv, Idle, Complete, readerVars
<1>. QED  BY <1>3, <1>5, <1>6

\* So does every step.
LEMMA TypeStep ==
    ASSUME TypeInv, [Next]_vars
    PROVE  TypeInv'
<1>. USE Lengths DEF TypeInv, TypeOK, WriterInv, Idle, Complete
<1>1. CASE Collect
  <2>1. query' \in 1..Len(Collected)
    BY <1>1 DEF Collect
  <2>2. /\ toSet' \in [Writers -> Seq(TagSet)]
        /\ toSet'["telemetry"] \in Seq(TagSet \ {Hooked})
        /\ toSet'["hook"] \in Seq({Hooked})
        /\ \A v \in Writers : toSet'[v] = toSet[v] \/ Idle(v)
    BY <1>1 DEF Collect, Writers
  <2>. QED  BY <1>1, <2>1, <2>2 DEF Collect, readerVars
<1>2. CASE ForegroundEvent
  <2>1. /\ toSet' \in [Writers -> Seq(TagSet)]
        /\ toSet'["telemetry"] \in Seq(TagSet \ {Hooked})
        /\ toSet'["hook"] \in Seq({Hooked})
        /\ \A v \in Writers : toSet'[v] = toSet[v] \/ Idle(v)
    BY <1>2, TagsAssumption DEF ForegroundEvent, Writers
  <2>. QED  BY <1>2, <2>1 DEF ForegroundEvent, readerVars
<1>3. CASE \E w \in Writers : SetValue(w) \/ SetStamp(w) \/ SetBounded(w)
  BY <1>3, WriterTypeStep
<1>4. CASE SnapshotBegin
  BY <1>4 DEF SnapshotBegin, writerVars
<1>5. CASE LoadValue
  <2>1. snapValue' \in Versions
    BY <1>5 DEF LoadValue, Versions
  <2>. QED  BY <1>5, <2>1 DEF LoadValue, writerVars
<1>6. CASE LoadStamp
  <2>1. snapStamp' \in Versions
    BY <1>6 DEF LoadStamp, Versions
  <2>2. next' \in 1..Len(Tags) + 1
    BY <1>6 DEF LoadStamp
  <2>3. loaded' \in BOOLEAN /\ ~loaded'
    BY Zenon, <1>6 DEF LoadStamp
  <2>4. UNCHANGED <<writerVars, snapValue, began>>
    BY <1>6 DEF LoadStamp
  <2>. QED  BY <2>1, <2>2, <2>3, <2>4 DEF writerVars
<1>7. CASE UNCHANGED vars
  BY <1>7 DEF vars, writerVars, readerVars
<1>. QED  BY <1>1, <1>2, <1>3, <1>4, <1>5, <1>6, <1>7 DEF Next, Reader

\* Every variable of the database, its writers and its reader keeps its type.
THEOREM TagsTypeCorrect == Spec => []TypeOK
<1>1. TypeInv => TypeOK
  BY DEF TypeInv
<1>. QED  BY <1>1, TypeInit, TypeStep, PTL DEF Spec

(***************************************************************************)
(* Currency.  What has been loaded, of the tags get_snapshot has passed, is *)
(* no older than what the database held when it began; nor is what the     *)
(* database holds now.                                                     *)
(***************************************************************************)
CurrentInv ==
    /\ \A t \in TagSet : began[t] <= value[t]
    /\ \A i \in 1..Len(Tags) :
          i < next \/ (i = next /\ loaded) => began[Tags[i]] <= snapValue[Tags[i]]

\* Neither a writer nor the reader makes what was loaded too old.
LEMMA CurrentStep ==
    ASSUME TypeInv, CurrentInv, [Next]_vars
    PROVE  CurrentInv'
<1>. USE Lengths DEF CurrentInv, Complete
<1>1. CASE Collect  BY <1>1 DEF Collect, readerVars
<1>2. CASE ForegroundEvent  BY <1>2 DEF ForegroundEvent, readerVars
<1>3. ASSUME NEW w \in Writers, SetValue(w) PROVE CurrentInv'
  <2>1. \A t \in TagSet : began[t] <= value'[t]
    BY <1>3, NextVersion, Numbers
  <2>. QED  BY <1>3, <2>1 DEF SetValue, readerVars
<1>4. ASSUME NEW w \in Writers, SetStamp(w) \/ SetBounded(w) PROVE CurrentInv'
  BY <1>4 DEF SetStamp, SetBounded, readerVars
<1>5. CASE SnapshotBegin
  <2>1. \A t \in TagSet : value[t] <= value[t]
    BY TagsAssumption DEF TypeInv, TypeOK, Versions
  <2>2. next' = 1 /\ ~loaded' /\ began' = value /\ value' = value
    BY <1>5 DEF SnapshotBegin, TypeInv, writerVars
  <2>. QED  BY <2>1, <2>2
<1>6. CASE LoadValue
  <2>1. next \in 1..Len(Tags)
    BY <1>6 DEF LoadValue, TypeInv, TypeOK
  <2>2. snapValue' = [snapValue EXCEPT ![Tags[next]] = value[Tags[next]]]
    BY <1>6 DEF LoadValue
  <2>3. \A t \in TagSet : snapValue'[t] = snapValue[t]
                         \/ (t = Tags[next] /\ snapValue'[t] = value[t])
    BY <2>2 DEF TypeInv, TypeOK, Versions
  <2>4. snapValue'[Tags[next]] = value[Tags[next]]
    BY <2>1, <2>2 DEF TypeInv, TypeOK, Versions
  <2>. QED  BY <1>6, <2>1, <2>3, <2>4 DEF LoadValue, writerVars
<1>7. CASE LoadStamp
  <2>1. next' = next + 1 /\ ~loaded' /\ loaded
        /\ UNCHANGED <<value, snapValue, began>>
    BY <1>7 DEF LoadStamp, writerVars
  <2>2. next \in 1..Len(Tags) + 1
    BY DEF TypeInv, TypeOK
  <2>. QED  BY <2>1, <2>2
<1>8. CASE UNCHANGED vars  BY <1>8 DEF vars, writerVars, readerVars
<1>. QED  BY <1>1, <1>2, <1>3, <1>4, <1>5, <1>6, <1>7, <1>8 DEF Next, Reader

\* A snapshot misses nothing the database held when get_snapshot was called.
THEOREM SnapshotsCurrent == Spec => []SnapshotCurrent
<1>1. Init => CurrentInv
  BY Lengths DEF Init, CurrentInv, Zero
<1>2. TypeInv /\ CurrentInv => SnapshotCurrent
  <2>. SUFFICES ASSUME TypeInv, CurrentInv, Complete, NEW t \in TagSet
                PROVE  began[t] <= snapValue[t]
    BY DEF SnapshotCurrent
  <2>1. PICK i \in 1..Len(Tags) : t = Tags[i]
    BY DEF TagSet
  <2>. QED  BY <2>1, Lengths DEF CurrentInv, Complete, TypeInv, TypeOK
<1>. QED  BY <1>1, <1>2, TypeInit, TypeStep, CurrentStep, PTL DEF Spec

(***************************************************************************)
(* Timestamps.  A timestamp is behind its value by one set, and only while *)
(* the tag's writer is between the two stores.                             *)
(***************************************************************************)
Pending(t) == \E w \in Writers : stored[w] /\ Head(toSet[w]) = t

StampInv ==
    \A t \in TagSet : value[t] = stamp[t] + (IF Pending(t) THEN 1 ELSE 0)

\* A snapshot's value is behind its timestamp by as much, except while
\* get_snapshot is between the two loads of the tag.
LagInv ==
    \A t \in TagSet :
        /\ snapValue[t] <= stamp[t] + 1
        /\ snapValue[t] <= snapStamp[t] + 1 \/ (loaded /\ t = Tags[next])

\* The stores keep value and timestamp together: a tag has one writer.
LEMMA StampStep ==
    ASSUME TypeInv, StampInv, [Next]_vars
    PROVE  StampInv'
<1>. USE DEF StampInv, Pending
<1>1. CASE Collect
  <2>1. \A w \in Writers : stored[w] => toSet'[w] = toSet[w]
    BY <1>1 DEF Collect, TypeInv, TypeOK, WriterInv, Idle
  <2>. QED  BY <1>1, <2>1 DEF Collect
<1>2. CASE ForegroundEvent
  <2>1. \A w \in Writers : stored[w] => toSet'[w] = toSet[w]
    BY <1>2 DEF ForegroundEvent, TypeInv, TypeOK, WriterInv, Idle
  <2>. QED  BY <1>2, <2>1 DEF ForegroundEvent
<1>3. ASSUME NEW w \in Writers, SetValue(w) PROVE StampInv'
  <2>1. \A v \in Writers : stored'[v] <=> stored[v] \/ v = w
    BY <1>3 DEF SetValue, TypeInv, TypeOK
  <2>2. ~Idle(w) /\ ~stored[w]
    BY <1>3 DEF SetValue
  <2>3. \A v \in Writers : stored[v] => Head(toSet[v]) # Head(toSet[w])
    BY <2>2, NextTag DEF TypeInv, WriterInv, Writers
  <2>4. UNCHANGED <<toSet, stamp>>
    BY <1>3 DEF SetValue
  <2>. DEFINE set == Head(toSet[w])
  <2>5. \A t \in TagSet : (Pending(t)' <=> Pending(t) \/ t = set) /\ ~Pending(set)
    BY <2>1, <2>3, <2>4, <2>2
  <2>6. \A t \in TagSet : value'[t] = IF t = set THEN value[t] + 1 ELSE value[t]
    BY <1>3, NextVersion
  <2>. HIDE DEF Pending, set
  <2>. QED  BY <2>4, <2>5, <2>6, Numbers
<1>4. ASSUME NEW w \in Writers, SetStamp(w) PROVE StampInv'
  <2>. DEFINE set == Head(toSet[w])
  <2>1. \A v \in Writers : stored'[v] <=> stored[v] /\ v # w
    BY <1>4 DEF SetStamp, TypeInv, TypeOK
  <2>2. \A v \in Writers \ {w} : toSet'[v] = toSet[v]
    BY <1>4 DEF SetStamp, TypeInv, TypeOK
  <2>3. stored[w] /\ \A v \in Writers \ {w} : stored[v] => Head(toSet[v]) # set
    BY <1>4, NextTag DEF SetStamp, TypeInv, WriterInv, Writers
  <2>4. stamp' = [stamp EXCEPT ![set] = value[set]] /\ value' = value
    BY <1>4 DEF SetStamp
  <2>5. \A t \in TagSet : stamp'[t] = IF t = set THEN value[t] ELSE stamp[t]
    BY <2>4 DEF TypeInv, TypeOK, Versions
  <2>6. \A t \in TagSet : Pending(t)' <=> Pending(t) /\ t # set
    BY <2>1, <2>2, <2>3
  <2>. HIDE DEF Pending, set
  <2>. QED  BY <2>4, <2>5, <2>6, Numbers
<1>5. ASSUME NEW w \in Writers, SetBounded(w) PROVE StampInv'
  <2>1. \A v \in Writers : stored[v] => toSet'[v] = toSet[v]
    BY <1>5 DEF SetBounded, TypeInv, TypeOK
  <2>. QED  BY <1>5, <2>1 DEF SetBounded
<1>6. CASE Reader
  BY <1>6 DEF Reader, SnapshotBegin, LoadValue, LoadStamp, writerVars
<1>7. CASE UNCHANGED vars  BY <1>7 DEF vars, writerVars
<1>. QED  BY <1>1, <1>2, <1>3, <1>4, <1>5, <1>6, <1>7 DEF Next

\* The loads keep them together too: the value is loaded first.
LEMMA LagStep ==
    ASSUME TypeInv, StampInv, LagInv, [Next]_vars
    PROVE  LagInv'
<1>. USE DEF LagInv
<1>1. CASE Collect  BY <1>1 DEF Collect, readerVars
<1>2. CASE ForegroundEvent  BY <1>2 DEF ForegroundEvent, readerVars
<1>3. ASSUME NEW w \in Writers, SetValue(w) \/ SetBounded(w) PROVE LagInv'
  BY <1>3 DEF SetValue, SetBounded, readerVars
<1>4. ASSUME NEW w \in Writers, SetStamp(w) PROVE LagInv'
  <2>. DEFINE set == Head(toSet[w])
  <2>1. stamp' = [stamp EXCEPT ![set] = value[set]]
    BY <1>4 DEF SetStamp
  <2>. HIDE DEF set
  <2>2. \A t \in TagSet : stamp'[t] \in {stamp[t], value[t]}
    BY <2>1 DEF TypeInv, TypeOK, Versions
  <2>3. \A t \in TagSet : stamp'[t] >= stamp[t] /\ stamp'[t] \in Nat
    BY <2>2, Numbers DEF StampInv
  <2>4. \A t \in TagSet : snapValue[t] <= stamp'[t] + 1
    BY <2>3, Numbers
  <2>. QED  BY <1>4, <2>4 DEF SetStamp, readerVars
<1>5. CASE SnapshotBegin
  <2>1. ~loaded  BY <1>5 DEF SnapshotBegin, TypeInv
  <2>. QED  BY <1>5, <2>1 DEF SnapshotBegin, writerVars
<1>6. CASE LoadValue
  <2>1. \A t \in TagSet : snapValue'[t] = IF t = Tags[next] THEN value[t] ELSE snapValue[t]
    BY <1>6 DEF LoadValue, TypeInv, TypeOK, Versions
  <2>2. \A t \in TagSet : value[t] <= stamp[t] + 1
    BY Numbers DEF StampInv
  <2>3. loaded' /\ UNCHANGED <<stamp, snapStamp, next>> /\ ~loaded
    BY <1>6 DEF LoadValue, writerVars
  <2>. QED  BY <2>1, <2>2, <2>3
<1>7. CASE LoadStamp
  <2>1. \A t \in TagSet : snapStamp'[t] = IF t = Tags[next] THEN stamp[t] ELSE snapStamp[t]
    BY <1>7 DEF LoadStamp, TypeInv, TypeOK, Versions
  <2>2. UNCHANGED <<stamp, snapValue>>
    BY <1>7 DEF LoadStamp, writerVars
  <2>. QED  BY <2>1, <2>2
<1>8. CASE UNCHANGED vars  BY <1>8 DEF vars, writerVars, readerVars
<1>. QED
  BY <1>1, <1>2, <1>3, <1>4, <1>5, <1>6, <1>7, <1>8 DEF Next, Reader

\* A snapshot's timestamps are never older than its values by more than the
\* one set whose timestamp is still to be stored.
THEOREM StampsNotStale == Spec => []StampNotStale
<1>1. Init => StampInv /\ LagInv
  BY DEF Init, StampInv, LagInv, Pending, Zero
<1>2. TypeInv /\ LagInv => StampNotStale
  BY DEF LagInv, StampNotStale, TypeInv
<1>. QED
  BY <1>1, <1>2, TypeInit, TypeStep, StampStep, LagStep, PTL DEF Spec

(***************************************************************************)
(* Order within a group.  The telemetry thread sets the tags of a group    *)
(* one after the other, and goes on when all are set: those it has set are *)
(* one version ahead of those it has yet to set, unless the bound on the   *)
(* sets has been reached.                                                  *)
(***************************************************************************)
Ahead(t) ==
    \E k \in 1..Len(toSet["telemetry"]) :
        toSet["telemetry"][k] = t /\ (k = 1 => ~stored["telemetry"])

OneGroup(a, b) ==
    \E g \in 1..Len(Collected) : \E i, j \in 1..Len(Collected[g]) :
        Collected[g][i] = a /\ Collected[g][j] = b

\* The versions of two tags of a group
Together(a, b) ==
    /\ (Ahead(a) <=> Ahead(b)) => value[a] = value[b]
    /\ ~Ahead(a) /\ Ahead(b) =>
          value[a] = value[b] + 1 \/ (value[a] = MaxSets /\ value[b] = MaxSets)

\* What is left to set is part of a group, without repetition.
QueueInv ==
    LET left == toSet["telemetry"]
    IN  /\ \A k, l \in 1..Len(left) : left[k] = left[l] => k = l
        /\ \A a, b \in TagSet : OneGroup(a, b) => Together(a, b)

\* The tags get_snapshot has passed
Passed(p) == p < next \/ (p = next /\ loaded)

\* Of two tags of a group, the first may be loaded and the second not yet.
LoadOrderInv ==
    \A p, q \in 1..Len(Tags) :
        OneGroup(Tags[p], Tags[q]) /\ p < q =>
            /\ Passed(p) => snapValue[Tags[p]] <= value[Tags[q]] + 1
            /\ Passed(q) => snapValue[Tags[p]] <= snapValue[Tags[q]] + 1

\* Nothing is a tag of a group and the hook's.
LEMMA GroupTags ==
    ASSUME NEW a, NEW b, OneGroup(a, b)
    PROVE  a \in TagSet \ {Hooked} /\ b \in TagSet \ {Hooked} /\ OneGroup(b, a)
<1>1. PICK g \in 1..Len(Collected) : \E i, j \in 1..Len(Collected[g]) :
          Collected[g][i] = a /\ Collected[g][j] = b
  BY DEF OneGroup
<1>2. Collected[g] \in Seq(TagSet \ {Hooked})
  BY Lengths
<1>3. a \in TagSet \ {Hooked} /\ b \in TagSet \ {Hooked}
  BY <1>1, <1>2
<1>4. OneGroup(b, a)
  BY <1>1 DEF OneGroup
<1>. QED  BY <1>3, <1>4

\* A group is begun when no other is under way.
LEMMA QueueCollect ==
    ASSUME TypeInv, QueueInv, Collect
    PROVE  QueueInv'
<1>1. \A t \in TagSet : ~Ahead(t)
  BY DEF Collect, Idle, Ahead
<1>2. ~stored["telemetry"] /\ stored' = stored /\ value' = value
  BY DEF Collect, TypeInv, WriterInv, Writers
<1>3. CASE toSet' = toSet
  BY <1>2, <1>3 DEF QueueInv, Together, Ahead
<1>4. CASE toSet' = [toSet EXCEPT !["telemetry"] = Collected[query]]
  <2>1. query \in 1..Len(Collected) /\ toSet'["telemetry"] = Collected[query]
    BY <1>4 DEF TypeInv, TypeOK, Writers
  <2>2. \A k, l \in 1..Len(Collected[query]) :
            Collected[query][k] = Collected[query][l] => k = l
    BY <2>1, GroupsAssumption
  <2>3. \A t : Ahead(t)' <=> \E k \in 1..Len(Collected[query]) : Collected[query][k] = t
    BY <1>2, <2>1 DEF Ahead
  <2>4. \A a, b : OneGroup(a, b) => (Ahead(a)' <=> Ahead(b)')
    <3>. SUFFICES ASSUME NEW a, NEW b, OneGroup(a, b), Ahead(a)'
                  PROVE  Ahead(b)'
      BY GroupTags
    <3>1. PICK g \in 1..Len(Collected) : \E i, j \in 1..Len(Collected[g]) :
              Collected[g][i] = a /\ Collected[g][j] = b
      BY DEF OneGroup
    <3>2. g = query
      BY <2>1, <2>3, <3>1, GroupsAssumption
    <3>. QED  BY <2>3, <3>1, <3>2
  <2>5. \A a, b \in TagSet : OneGroup(a, b) => value[a] = value[b]
    BY <1>1 DEF QueueInv, Together
  <2>. HIDE DEF Ahead
  <2>. QED  BY <1>2, <2>1, <2>2, <2>4, <2>5 DEF QueueInv, Together, OneGroup
<1>. QED  BY <1>3, <1>4 DEF Collect

\* The next tag of the group is ahead no more, once its value is stored or
\* passed over.
LEMMA QueueNext ==
    ASSUME TypeInv, QueueInv,
           SetValue("telemetry") \/ SetStamp("telemetry") \/ SetBounded("telemetry")
    PROVE  /\ \A k, l \in 1..Len(toSet'["telemetry"]) :
                  toSet'["telemetry"][k] = toSet'["telemetry"][l] => k = l
           /\ \A t : Ahead(t)' <=> Ahead(t) /\ t # Head(toSet["telemetry"])
           /\ Ahead(Head(toSet["telemetry"])) <=> ~stored["telemetry"]
<1>. DEFINE left == toSet["telemetry"]
<1>1. left \in Seq(TagSet) /\ left # <<>>
  BY DEF TypeInv, TypeOK, WriterInv, Writers, SetValue, SetStamp, SetBounded, Idle
<1>2. \A k, l \in 1..Len(left) : left[k] = left[l] => k = l
  BY DEF QueueInv, Together
<1>3. Len(left) \in Nat \ {0} /\ Head(left) = left[1]
  BY <1>1
<1>4. Ahead(Head(left)) <=> ~stored["telemetry"]
  <2>. HIDE DEF left
  <2>. QED  BY <1>2, <1>3 DEF Ahead, left
<1>5. CASE SetValue("telemetry")
  <2>1. toSet' = toSet /\ stored'["telemetry"] /\ ~stored["telemetry"]
    BY <1>5 DEF SetValue, TypeInv, TypeOK, Writers
  <2>2. \A t : Ahead(t)' <=> Ahead(t) /\ t # left[1]
    BY <1>2, <1>3, <2>1 DEF Ahead
  <2>. QED  BY <1>2, <1>3, <1>4, <2>1, <2>2
<1>6. CASE SetStamp("telemetry") \/ SetBounded("telemetry")
  <2>1. toSet'["telemetry"] = Tail(left) /\ ~stored'["telemetry"]
    BY <1>6 DEF SetStamp, SetBounded, TypeInv, TypeOK, Writers
  <2>2. Len(Tail(left)) = Len(left) - 1
        /\ \A k \in 1..Len(left) - 1 : Tail(left)[k] = left[k + 1]
    BY <1>1
  <2>. DEFINE rest == Tail(left)
  <2>. HIDE DEF left, rest
  <2>3. \A k, l \in 1..Len(rest) : rest[k] = rest[l] => k = l
    <3>. SUFFICES ASSUME NEW k \in 1..Len(rest), NEW l \in 1..Len(rest), rest[k] = rest[l]
                  PROVE  k = l
      OBVIOUS
    <3>1. k + 1 \in 1..Len(left) /\ l + 1 \in 1..Len(left) /\ left[k + 1] = left[l + 1]
      BY <1>3, <2>2 DEF rest
    <3>2. k + 1 = l + 1
      BY <1>2, <3>1
    <3>. QED  BY <1>3, <2>2, <3>2 DEF rest
  <2>4. \A t : Ahead(t)' <=> \E k \in 1..Len(rest) : rest[k] = t
    BY <2>1 DEF Ahead, rest
  <2>5. \A t : Ahead(t)' <=> Ahead(t) /\ t # left[1]
    <3>1. ASSUME NEW t, Ahead(t)' PROVE Ahead(t) /\ t # left[1]
      <4>1. PICK k \in 1..Len(rest) : rest[k] = t
        BY <2>4, <3>1
      <4>2. k + 1 \in 1..Len(left) /\ left[k + 1] = t /\ k + 1 # 1
        BY <1>3, <2>2, <4>1 DEF rest
      <4>. QED  BY <1>2, <1>3, <4>2 DEF Ahead, left
    <3>2. ASSUME NEW t, Ahead(t), t # left[1] PROVE Ahead(t)'
      <4>1. PICK k \in 1..Len(left) : left[k] = t
        BY <3>2 DEF Ahead, left
      <4>2. k # 1 /\ k - 1 \in 1..Len(rest) /\ rest[k - 1] = t
        BY <1>3, <2>2, <3>2, <4>1 DEF rest
      <4>. QED  BY <2>4, <4>2
    <3>. QED  BY <3>1, <3>2
  <2>6. toSet'["telemetry"] = rest
    BY <2>1 DEF rest
  <2>. QED  BY <1>3, <1>4, <2>3, <2>5, <2>6 DEF left
<1>. QED  BY <1>5, <1>6

\* A step of the telemetry thread keeps the group together.
LEMMA QueueWriter ==
    ASSUME TypeInv, QueueInv,
           SetValue("telemetry") \/ SetStamp("telemetry") \/ SetBounded("telemetry")
    PROVE  QueueInv'
<1>. DEFINE set == Head(toSet["telemetry"])
<1>1. "telemetry" \in Writers /\ ~Idle("telemetry")
  BY DEF Writers, TypeInv, WriterInv, SetValue, SetStamp, SetBounded
<1>2. set \in TagSet
  BY <1>1, NextTag
<1>3. /\ \A k, l \in 1..Len(toSet'["telemetry"]) :
            toSet'["telemetry"][k] = toSet'["telemetry"][l] => k = l
      /\ \A t : Ahead(t)' <=> Ahead(t) /\ t # set
      /\ Ahead(set) <=> ~stored["telemetry"]
  BY QueueNext
<1>. HIDE DEF set, Ahead, OneGroup
<1>4. \A a, b : OneGroup(a, b)' <=> OneGroup(a, b)
  BY DEF OneGroup
<1>5. \A t \in TagSet : value[t] \in Nat /\ value[t] <= MaxSets
  BY TagsAssumption DEF TypeInv, TypeOK, Versions
<1>6. CASE SetValue("telemetry")
  <2>1. Ahead(set) /\ value[set] < MaxSets
    BY <1>3, <1>6 DEF SetValue, set
  <2>2. \A t \in TagSet : value'[t] = IF t = set THEN value[t] + 1 ELSE value[t]
    BY <1>1, <1>6, NextVersion DEF set
  <2>. SUFFICES ASSUME NEW a \in TagSet, NEW b \in TagSet, OneGroup(a, b)
                PROVE  Together(a, b)'
    BY <1>3, <1>4 DEF QueueInv
  <2>3. Together(a, b) /\ Together(b, a)
    BY GroupTags DEF QueueInv
  <2>. HIDE DEF QueueInv
  <2>. QED  BY <1>2, <1>3, <1>5, <2>1, <2>2, <2>3, TagsAssumption DEF Together
<1>7. CASE SetStamp("telemetry")
  <2>1. value' = value /\ ~Ahead(set)
    BY <1>3, <1>7 DEF SetStamp
  <2>. QED  BY <1>3, <1>4, <2>1 DEF QueueInv, Together
<1>8. CASE SetBounded("telemetry")
  <2>1. value' = value /\ Ahead(set) /\ value[set] = MaxSets
    BY <1>3, <1>8 DEF SetBounded, set
  <2>. SUFFICES ASSUME NEW a \in TagSet, NEW b \in TagSet, OneGroup(a, b)
                PROVE  Together(a, b)'
    BY <1>3, <1>4 DEF QueueInv
  <2>2. Together(a, b) /\ Together(b, a)
    BY GroupTags DEF QueueInv
  <2>. QED  BY <1>2, <1>3, <1>5, <2>1, <2>2, TagsAssumption DEF Together
<1>. QED  BY <1>6, <1>7, <1>8

\* So does every step.
LEMMA QueueStep ==
    ASSUME TypeInv, QueueInv, [Next]_vars
    PROVE  QueueInv'
<1>1. ASSUME toSet'["telemetry"] = toSet["telemetry"],
             stored'["telemetry"] = stored["telemetry"],
             \A t \in TagSet \ {Hooked} : value'[t] = value[t]
      PROVE  QueueInv'
  <2>1. \A t : Ahead(t)' <=> Ahead(t)
    BY <1>1 DEF Ahead
  <2>2. \A a, b : OneGroup(a, b)' <=> OneGroup(a, b)
    BY DEF OneGroup
  <2>. HIDE DEF Ahead, OneGroup
  <2>. QED  BY <1>1, <2>1, <2>2, GroupTags DEF QueueInv, Together
<1>2. CASE Collect  BY <1>2, QueueCollect
<1>3. CASE ForegroundEvent
  BY <1>1, <1>3 DEF ForegroundEvent, TypeInv, TypeOK, Writers
<1>4. CASE SetValue("telemetry") \/ SetStamp("telemetry") \/ SetBounded("telemetry")
  BY <1>4, QueueWriter
<1>5. CASE SetValue("hook")
  <2>1. Head(toSet["hook"]) = Hooked
    BY <1>5, NextTag DEF SetValue, Writers
  <2>2. \A t \in TagSet \ {Hooked} : value'[t] = value[t]
    BY <1>5, <2>1, NextVersion DEF Writers
  <2>3. toSet' = toSet /\ stored'["telemetry"] = stored["telemetry"]
    BY <1>5 DEF SetValue, TypeInv, TypeOK, Writers
  <2>. QED  BY <1>1, <2>2, <2>3
<1>6. CASE SetStamp("hook") \/ SetBounded("hook")
  BY <1>1, <1>6 DEF SetStamp, SetBounded, TypeInv, TypeOK, Writers
<1>7. CASE Reader
  BY <1>1, <1>7 DEF Reader, SnapshotBegin, LoadValue, LoadStamp, writerVars
<1>8. CASE UNCHANGED vars  BY <1>1, <1>8 DEF vars, writerVars
<1>. QED  BY <1>2, <1>3, <1>4, <1>5, <1>6, <1>7, <1>8 DEF Next, Writers

\* The first tag of a group is loaded before the second.
LEMMA LoadOrderStep ==
    ASSUME TypeInv, QueueInv, LoadOrderInv, [Next]_vars
    PROVE  LoadOrderInv'
<1>. HIDE DEF OneGroup
<1>0. \A a, b : OneGroup(a, b)' <=> OneGroup(a, b)
  BY DEF OneGroup
<1>1. \A p, q \in 1..Len(Tags) : OneGroup(Tags[p], Tags[q]) =>
          value[Tags[p]] <= value[Tags[q]] + 1
  <2>1. \A a, b \in TagSet : OneGroup(a, b) => value[a] <= value[b] + 1
    <3>. SUFFICES ASSUME NEW a \in TagSet, NEW b \in TagSet, OneGroup(a, b)
                  PROVE  value[a] <= value[b] + 1
      OBVIOUS
    <3>1. OneGroup(b, a)
      BY GroupTags
    <3>. HIDE DEF Ahead
    <3>. QED  BY <3>1, Numbers DEF QueueInv, Together
  <2>. QED  BY <2>1, Lengths
<1>2. ASSUME UNCHANGED readerVars,
             \A t \in TagSet : value[t] <= value'[t] /\ value'[t] \in Nat
      PROVE  LoadOrderInv'
  <2>1. \A p : Passed(p)' <=> Passed(p)
    BY <1>2 DEF Passed, readerVars
  <2>2. snapValue' = snapValue
    BY <1>2 DEF readerVars
  <2>. HIDE DEF Passed
  <2>. SUFFICES ASSUME NEW p \in 1..Len(Tags), NEW q \in 1..Len(Tags),
                       OneGroup(Tags[p], Tags[q]), p < q
                PROVE  /\ Passed(p) => snapValue[Tags[p]] <= value'[Tags[q]] + 1
                       /\ Passed(q) => snapValue[Tags[p]] <= snapValue[Tags[q]] + 1
    BY <1>0, <2>1, <2>2 DEF LoadOrderInv
  <2>3. Tags[p] \in TagSet /\ Tags[q] \in TagSet
    BY Lengths
  <2>. QED  BY <1>2, <2>3, Numbers DEF LoadOrderInv
<1>3. CASE Collect \/ ForegroundEvent \/ UNCHANGED vars
  <2>1. UNCHANGED readerVars /\ value' = value
    BY <1>3 DEF Collect, ForegroundEvent, vars, writerVars
  <2>. QED  BY <1>2, <2>1, Numbers
<1>4. ASSUME NEW w \in Writers, SetValue(w) \/ SetStamp(w) \/ SetBounded(w)
      PROVE  LoadOrderInv'
  <2>1. UNCHANGED readerVars
    BY <1>4 DEF SetValue, SetStamp, SetBounded
  <2>2. CASE SetValue(w)
    BY <1>2, <2>1, <2>2, NextVersion, Numbers
  <2>3. CASE SetStamp(w) \/ SetBounded(w)
    BY <1>2, <2>1, <2>3, Numbers DEF SetStamp, SetBounded
  <2>. QED  BY <1>4, <2>2, <2>3
<1>5. CASE SnapshotBegin
  <2>1. next' = 1 /\ ~loaded'
    BY <1>5 DEF SnapshotBegin, TypeInv
  <2>2. \A p \in 1..Len(Tags) : ~Passed(p)'
    BY <2>1, Lengths DEF Passed
  <2>. QED  BY <2>2 DEF LoadOrderInv
<1>6. CASE LoadValue
  <2>1. next \in 1..Len(Tags) /\ ~loaded
    BY <1>6 DEF LoadValue, Complete, TypeInv, TypeOK
  <2>2. loaded' /\ next' = next /\ value' = value
        /\ snapValue' = [snapValue EXCEPT ![Tags[next]] = value[Tags[next]]]
    BY <1>6 DEF LoadValue, writerVars
  <2>3. \A p \in 1..Len(Tags) : Passed(p)' <=> Passed(p) \/ p = next
    BY <2>1, <2>2 DEF Passed
  <2>4. \A p \in 1..Len(Tags) : snapValue'[Tags[p]] =
            IF p = next THEN value[Tags[p]] ELSE snapValue[Tags[p]]
    BY <2>1, <2>2, Lengths, GroupsAssumption DEF TypeInv, TypeOK, Versions
  <2>. SUFFICES ASSUME NEW p \in 1..Len(Tags), NEW q \in 1..Len(Tags),
                       OneGroup(Tags[p], Tags[q]), p < q
                PROVE  /\ Passed(p)' => snapValue'[Tags[p]] <= value[Tags[q]] + 1
                       /\ Passed(q)' => snapValue'[Tags[p]] <= snapValue'[Tags[q]] + 1
    BY <1>0, <2>2 DEF LoadOrderInv
  <2>5. value[Tags[p]] <= value[Tags[q]] + 1
    BY <1>1
  <2>6. Passed(q)' => Passed(p) /\ p # next
    BY <2>1, <2>2 DEF Passed
  <2>7. /\ Passed(p) => snapValue[Tags[p]] <= value[Tags[q]] + 1
        /\ Passed(q) => snapValue[Tags[p]] <= snapValue[Tags[q]] + 1
    BY DEF LoadOrderInv
  <2>. HIDE DEF Passed
  <2>. QED  BY <2>3, <2>4, <2>5, <2>6, <2>7
<1>7. CASE LoadStamp
  <2>1. next' = next + 1 /\ loaded /\ ~loaded' /\ UNCHANGED <<value, snapValue>>
    BY <1>7 DEF LoadStamp, writerVars, TypeInv
  <2>2. \A p \in 1..Len(Tags) : Passed(p)' <=> Passed(p)
    BY <2>1 DEF Passed, TypeInv, TypeOK
  <2>. HIDE DEF Passed
  <2>. QED  BY <1>0, <2>1, <2>2 DEF LoadOrderInv
<1>. QED  BY <1>3, <1>4, <1>5, <1>6, <1>7 DEF Next, Reader

\* Of two tags a collection sets together, the one a snapshot loads first is
\* at most one collection ahead of the other.
THEOREM GroupsInOrder == Spec => []GroupInOrder
<1>1. Init => QueueInv /\ LoadOrderInv
  <2>. SUFFICES ASSUME Init PROVE QueueInv /\ LoadOrderInv
    OBVIOUS
  <2>1. toSet["telemetry"] = <<>> /\ \A t \in TagSet : value[t] = 0 /\ snapValue[t] = 0
    BY DEF Init, Zero, Writers
  <2>2. \A t : ~Ahead(t)
    BY <2>1 DEF Ahead
  <2>3. QueueInv
    BY <2>1, <2>2 DEF QueueInv, Together
  <2>4. LoadOrderInv
    BY <2>1, Lengths DEF LoadOrderInv
  <2>. QED  BY <2>3, <2>4
<1>2. TypeInv /\ LoadOrderInv => GroupInOrder
  <2>. SUFFICES ASSUME TypeInv, LoadOrderInv, Complete, NEW g \in 1..Len(Collected),
                       NEW i \in 1..Len(Collected[g]), NEW j \in 1..Len(Collected[g]),
                       i < j
                PROVE  snapValue[Collected[g][i]] <= snapValue[Collected[g][j]] + 1
    BY DEF GroupInOrder
  <2>1. OneGroup(Collected[g][i], Collected[g][j])
    BY DEF OneGroup
  <2>2. PICK p \in 1..Len(Tags) : Tags[p] = Collected[g][i]
    BY <2>1, GroupTags DEF TagSet
  <2>3. PICK q \in 1..Len(Tags) : Tags[q] = Collected[g][j]
    BY <2>1, GroupTags DEF TagSet
  <2>4. \A r, s \in 1..Len(Tags) :
            Tags[r] = Collected[g][i] /\ Tags[s] = Collected[g][j] => r < s
    BY GroupsAssumption
  <2>. HIDE DEF OneGroup
  <2>6. p < q
    BY <2>2, <2>3, <2>4
  <2>5. Passed(q)
    BY Lengths DEF Passed, Complete, TypeInv, TypeOK
  <2>. QED  BY <2>1, <2>2, <2>3, <2>5, <2>6 DEF LoadOrderInv
<1>. QED
  BY <1>1, <1>2, TypeInit, TypeStep, QueueStep, LoadOrderStep, PTL DEF Spec

(***************************************************************************)
(* The refinement.  A snapshot is behind what the database holds, and so   *)
(* is a timestamp; with the above, it is the answer Measurements promises. *)
(***************************************************************************)
BehindInv ==
    \A t \in TagSet : snapValue[t] <= value[t] /\ snapStamp[t] <= stamp[t]

\* A set takes the value and, then, the timestamp forward.
LEMMA Forward ==
    ASSUME TypeInv, StampInv, [Next]_vars, NEW t \in TagSet
    PROVE  value[t] <= value'[t] /\ stamp[t] <= stamp'[t]
<1>1. CASE UNCHANGED <<value, stamp>>
  BY <1>1, Numbers
<1>2. ASSUME NEW w \in Writers, SetValue(w)
      PROVE  value[t] <= value'[t] /\ stamp[t] <= stamp'[t]
  BY <1>2, NextVersion, Numbers DEF SetValue
<1>3. ASSUME NEW w \in Writers, SetStamp(w)
      PROVE  value[t] <= value'[t] /\ stamp[t] <= stamp'[t]
  <2>. DEFINE set == Head(toSet[w])
  <2>1. stamp' = [stamp EXCEPT ![set] = value[set]] /\ value' = value
    BY <1>3 DEF SetStamp
  <2>. HIDE DEF set
  <2>2. stamp'[t] \in {stamp[t], value[t]}
    BY <2>1 DEF TypeInv, TypeOK, Versions
  <2>. QED  BY <2>1, <2>2, Numbers DEF StampInv
<1>4. ASSUME NEW w \in Writers, SetBounded(w)
      PROVE  UNCHANGED <<value, stamp>>
  BY <1>4 DEF SetBounded
<1>5. CASE Collect \/ ForegroundEvent \/ Reader \/ UNCHANGED vars
  BY <1>1, <1>5 DEF Collect, ForegroundEvent, Reader, SnapshotBegin, LoadValue,
     LoadStamp, vars, writerVars
<1>. QED  BY <1>1, <1>2, <1>3, <1>4, <1>5 DEF Next

\* What is loaded is what is there.
LEMMA Loads ==
    ASSUME TypeInv, [Next]_vars, NEW t \in TagSet
    PROVE  /\ snapValue'[t] \in {snapValue[t], value'[t]}
           /\ snapStamp'[t] \in {snapStamp[t], stamp'[t]}
<1>1. CASE LoadValue
  <2>1. snapValue' = [snapValue EXCEPT ![Tags[next]] = value[Tags[next]]]
    BY <1>1 DEF LoadValue
  <2>2. UNCHANGED <<value, snapStamp>>
    BY <1>1 DEF LoadValue, writerVars
  <2>. QED  BY <2>1, <2>2 DEF TypeInv, TypeOK, Versions
<1>2. CASE LoadStamp
  <2>1. snapStamp' = [snapStamp EXCEPT ![Tags[next]] = stamp[Tags[next]]]
    BY <1>2 DEF LoadStamp
  <2>2. UNCHANGED <<stamp, snapValue>>
    BY <1>2 DEF LoadStamp, writerVars
  <2>. QED  BY <2>1, <2>2 DEF TypeInv, TypeOK, Versions
<1>3. CASE ~LoadValue /\ ~LoadStamp
  <2>1. UNCHANGED <<snapValue, snapStamp>>
    BY <1>3 DEF Next, Collect, ForegroundEvent, SetValue, SetStamp, SetBounded,
       Reader, SnapshotBegin, vars, readerVars
  <2>. QED  BY <2>1
<1>. QED  BY <1>1, <1>2, <1>3

LEMMA BehindStep ==
    ASSUME TypeInv, TypeInv', StampInv, BehindInv, [Next]_vars
    PROVE  BehindInv'
<1>. SUFFICES ASSUME NEW t \in TagSet
              PROVE  snapValue'[t] <= value'[t] /\ snapStamp'[t] <= stamp'[t]
  BY DEF BehindInv
<1>1. /\ value[t] \in Nat /\ stamp[t] \in Nat
      /\ snapValue[t] \in Nat /\ snapStamp[t] \in Nat
  BY Numbers
<1>2. value'[t] \in Nat /\ stamp'[t] \in Nat
  BY TagsAssumption DEF TypeInv, TypeOK, Versions
<1>3. snapValue[t] <= value[t] /\ snapStamp[t] <= stamp[t]
  BY DEF BehindInv
<1>. QED  BY <1>1, <1>2, <1>3, Forward, Loads

LEMMA BehindAlways == Spec => []BehindInv /\ []StampInv /\ []TypeInv
<1>1. Init => StampInv /\ BehindInv
  BY DEF Init, StampInv, BehindInv, Pending, Zero
<1>2. TypeInv /\ StampInv /\ BehindInv /\ [Next]_vars => BehindInv'
  BY TypeStep, BehindStep
<1>. QED
  BY <1>1, <1>2, TypeInit, TypeStep, StampStep, PTL DEF Spec

\* A later snapshot is of no tag older than an earlier one, and neither is
\* its timestamp.
THEOREM NeverBack == Spec => SnapshotsAdvance
<1>1. ASSUME TypeInv, TypeInv', StampInv, BehindInv, [Next]_vars, NEW t \in TagSet
      PROVE  snapValue[t] <= snapValue'[t] /\ snapStamp[t] <= snapStamp'[t]
  <2>1. /\ value[t] \in Nat /\ stamp[t] \in Nat
        /\ snapValue[t] \in Nat /\ snapStamp[t] \in Nat
    BY <1>1, Numbers
  <2>2. value'[t] \in Nat /\ stamp'[t] \in Nat
    BY <1>1, TagsAssumption DEF TypeInv, TypeOK, Versions
  <2>3. snapValue[t] <= value[t] /\ snapStamp[t] <= stamp[t]
    BY <1>1 DEF BehindInv
  <2>. QED  BY <1>1, <2>1, <2>2, <2>3, Forward, Loads
<1>2. TypeInv /\ StampInv /\ BehindInv /\ [Next]_vars =>
        [\A t \in TagSet : snapValue[t] <= snapValue'[t]
                           /\ snapStamp[t] <= snapStamp'[t]]_vars
  BY <1>1, TypeStep
<1>. QED  BY <1>2, BehindAlways, PTL DEF Spec, SnapshotsAdvance

\* The database starts as Measurements does.
LEMMA PromiseBegins == Init => Promise!PromiseInit
<1>1. 1 <= Len(Tags)
  BY Lengths
<1>. QED  BY <1>1 DEF Init, Zero, Complete, Returned, Promise!PromiseInit

\* The writers measure, and the reader sees to what has been said of it.
LEMMA PromiseStep ==
    ASSUME TypeInv, TypeInv', StampInv', BehindInv', SnapshotCurrent',
           StampNotStale', GroupInOrder', [Next]_vars
    PROVE  [Promise!PromiseNext]_Promise!promiseVars
<1>. USE DEF Promise!PromiseNext, Promise!promiseVars
<1>1. ASSUME UNCHANGED <<value, began, readerVars>>
      PROVE  UNCHANGED Promise!promiseVars
  BY <1>1 DEF readerVars, Returned, Complete
<1>2. CASE Collect \/ ForegroundEvent \/ UNCHANGED vars
  BY <1>1, <1>2 DEF Collect, ForegroundEvent, vars, writerVars
<1>3. ASSUME NEW w \in Writers, SetValue(w)
      PROVE  \E t \in TagSet : Promise!Measure(t)
  <2>. DEFINE set == Head(toSet[w])
  <2>1. set \in TagSet
    BY <1>3, NextTag DEF SetValue
  <2>2. value' = [value EXCEPT ![set] = @ + 1]
    BY <1>3 DEF SetValue
  <2>3. UNCHANGED <<began, Returned>>
    BY <1>3 DEF SetValue, readerVars, Returned, Complete
  <2>. HIDE DEF set
  <2>. QED  BY <2>1, <2>2, <2>3 DEF Promise!Measure
<1>4. ASSUME NEW w \in Writers, SetStamp(w) \/ SetBounded(w)
      PROVE  UNCHANGED Promise!promiseVars
  BY <1>1, <1>4 DEF SetStamp, SetBounded
<1>5. CASE SnapshotBegin
  <2>1. Complete /\ next' = 1 /\ began' = value /\ value' = value
    BY <1>5 DEF SnapshotBegin, writerVars
  <2>2. ~Complete'
    BY <2>1, Lengths DEF Complete
  <2>. QED  BY <2>1, <2>2 DEF Promise!Ask, Returned
<1>6. CASE LoadValue
  <2>1. ~Complete /\ next' = next /\ began' = began /\ value' = value
    BY <1>6 DEF LoadValue, writerVars
  <2>2. Returned = {} /\ Returned' = {}
    BY <2>1 DEF Returned, Complete
  <2>. QED  BY <2>1, <2>2
<1>7. CASE LoadStamp
  <2>1. loaded /\ began' = began /\ value' = value
    BY <1>7 DEF LoadStamp, writerVars
  <2>2. ~Complete /\ Returned = {}
    BY <2>1 DEF TypeInv, Returned
  <2>3. CASE ~Complete'
    BY <2>1, <2>2, <2>3 DEF Returned
  <2>4. CASE Complete'
    <3>. DEFINE snapshot == [value |-> snapValue', stamp |-> snapStamp']
    <3>1. Returned' = {snapshot}
      BY <2>4 DEF Returned
    <3>2. snapshot.value = snapValue' /\ snapshot.stamp = snapStamp'
      OBVIOUS
    <3>3. ASSUME NEW t \in TagSet
          PROVE  /\ began[t] <= snapValue'[t] /\ snapValue'[t] <= value[t]
                 /\ snapValue'[t] <= snapStamp'[t] + 1 /\ snapStamp'[t] <= value[t]
      <4>1. began[t] <= snapValue'[t] /\ snapValue'[t] <= snapStamp'[t] + 1
        BY <2>1, <2>4 DEF SnapshotCurrent, StampNotStale
      <4>2. snapValue'[t] <= value'[t] /\ snapStamp'[t] <= stamp'[t]
        BY DEF BehindInv
      <4>3. value'[t] \in Nat /\ stamp'[t] \in Nat /\ snapStamp'[t] \in Nat
        BY TagsAssumption DEF TypeInv, TypeOK, Versions
      <4>. DEFINE one == IF Pending(t)' THEN 1 ELSE 0
      <4>4. one \in {0, 1} /\ value'[t] = stamp'[t] + one
        BY DEF StampInv
      <4>. HIDE DEF one
      <4>. QED  BY <2>1, <4>1, <4>2, <4>3, <4>4
    <3>. HIDE DEF snapshot
    <3>4. Promise!Timely(snapshot)
      BY <3>2, <3>3 DEF Promise!Timely
    <3>5. Promise!Ordered(snapshot)
      BY <2>4, <3>2 DEF Promise!Ordered, GroupInOrder
    <3>. QED  BY <2>1, <2>2, <3>1, <3>4, <3>5 DEF Promise!Answer
  <2>. QED  BY <2>3, <2>4
<1>. QED
  BY <1>2, <1>3, <1>4, <1>5, <1>6, <1>7 DEF Next, Reader

\* The database, with all its stores and loads, keeps the promise of
\* Measurements, for any tags and groups.
THEOREM DatabaseImplements == Spec => Promised
<1>1. TypeInv /\ TypeInv' /\ StampInv' /\ BehindInv' /\ SnapshotCurrent'
      /\ StampNotStale' /\ GroupInOrder' /\ [Next]_vars
        => [Promise!PromiseNext]_Promise!promiseVars
  BY PromiseStep
<1>. QED
  BY <1>1, PromiseBegins, BehindAlways, SnapshotsCurrent, StampsNotStale,
     GroupsInOrder, PTL DEF Spec, Promised, Promise!PromiseSpec
==============================================================================
