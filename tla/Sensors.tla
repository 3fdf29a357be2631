------------------------------- MODULE Sensors -------------------------------
(***************************************************************************)
(* SensorManager (agent/sensors.cpp): the window hook, the query and its   *)
(* counters, and what a collection makes of their readings.  Temperatures  *)
(* are in hundredths of their unit, the other readings whole.              *)
(*                                                                         *)
(* The callback of the hook and the order of the stores are the subject of *)
(* TagDatabase, the window of stop of AgentThreads.                        *)
(***************************************************************************)
EXTENDS Handles, Sequences, SequencesExt

CONSTANTS
    NaN,
    Readings, \* of a counter that is one number, by counter
    Zones,    \* the thermal zones there may be: a unit and a temperature
    Engines   \* what GPU engines may report

\* In the order in which a collection reads them
Counters == <<"cpu", "queue", "disk", "thermal", "gpu">>
Counter == {"cpu", "queue", "disk", "thermal", "gpu"}
Optional == {"thermal", "gpu"}

ASSUME SensorsAssumption ==
    /\ NaN \notin Int
    /\ {"hook", "query"} \subseteq Owner
    /\ Readings \in [Counter \ Optional -> SUBSET (Int \union {NaN})]
    /\ NaN \notin Readings["queue"]
    /\ Zones \subseteq [unit : {"C", "K", "dK"}, temp : Int \union {NaN}]
    /\ Engines \subseteq Int \union {NaN}
    /\ IsFiniteSet(Zones) /\ IsFiniteSet(Engines)

VARIABLES
    counter, \* m_*_counter: "wild" until set, "null", "added"
    reading, \* the counters of the current collection read so far
    tag,     \* the tags the counters are for
    hottest  \* what the stored temperature should be; for the properties only

sensorVars == <<counter, reading, tag, hottest>>

SensorsTypeOK ==
    /\ counter \in [Counter -> {"wild", "null", "added"}]
    /\ reading \in 0..Len(Counters)
    /\ tag \in [Counter -> Int \union {NaN}]

SensorsInit ==
    /\ counter = [c \in Counter |-> "wild"]
    /\ reading = 0
    /\ tag = [c \in Counter |-> 0]
    /\ hottest = 0

(***************************************************************************)
(* start, stop                                                             *)
(***************************************************************************)

\* What a failed PdhAddEnglishCounter leaves in its variable
WithoutCounter(c) == IF c \in Optional THEN "null" ELSE "wild"

\* start: the hook, then the query, then the counters; each may fail, and
\* the agent goes on.
SensorsStart ==
    /\ \E got \in SUBSET {"hook", "query"}, added \in SUBSET Counter :
          /\ Reset({"hook", "query"}, got)
          /\ counter' = IF "query" \notin got THEN counter
                        ELSE [c \in Counter |-> IF c \in added THEN "added"
                                                ELSE WithoutCounter(c)]
    /\ UNCHANGED <<reading, tag, hottest>>

\* Fault: the handles are closed and stay.
SensorsStopKeeps == CloseKeeps({"hook", "query"}) /\ UNCHANGED sensorVars

\* stop: the hook, then the query
SensorsStop == Close({"hook", "query"}) /\ UNCHANGED sensorVars

(***************************************************************************)
(* collect_performance_metrics                                             *)
(***************************************************************************)

Less(x, y) == x # NaN /\ y # NaN /\ x < y

\* std::clamp and std::max compare with <, which no NaN satisfies.
Clamp(x, lo, hi) == IF Less(x, lo) THEN lo ELSE IF Less(hi, x) THEN hi ELSE x
StdMax(x, y) == IF Less(x, y) THEN y ELSE x

\* Fault: max(item, most), which keeps a NaN
LargestSwapped(items, hi) ==
    FoldSet(LAMBDA x, most : StdMax(Clamp(x, 0, hi), most), 0, items)

\* The largest of what the items report, starting from 0
Largest(items, hi) ==
    FoldSet(LAMBDA x, most : StdMax(most, Clamp(x, 0, hi)), 0, items)

ZeroCelsius == 27315

\* The unit is told from the number: tenths of a kelvin, kelvins or degrees.
Celsius(raw) ==
    IF Less(100000, raw) THEN (raw \div 10) - ZeroCelsius
    ELSE IF Less(20000, raw) THEN raw - ZeroCelsius
    ELSE raw

\* What a zone reports
Raw(zone) ==
    IF zone.temp = NaN THEN NaN
    ELSE CASE zone.unit = "C" -> zone.temp
           [] zone.unit = "K" -> zone.temp + ZeroCelsius
           [] zone.unit = "dK" -> 10 * (zone.temp + ZeroCelsius)

Hot == 12000

\* m_query is set and PdhCollectQueryData succeeds.
CollectBegins ==
    /\ reading = 0 /\ Valid("query")
    /\ reading' = 1
    /\ UNCHANGED <<counter, tag, hottest>>

\* The values a counter that is read may give its tag.  Items whose status
\* is invalid are skipped; if all are, the largest is 0.
Measured(c) ==
    CASE c = "queue" -> {StdMax(0, x) : x \in Readings[c]}
      [] c \in {"cpu", "disk"} -> {Clamp(x, 0, 100) : x \in Readings[c]}
      [] c = "gpu" -> {Largest(items, 100) : items \in SUBSET Engines}

MeasuresZones ==
    \E zones \in SUBSET Zones :
        /\ tag' = [tag EXCEPT !["thermal"] =
                      Largest({Celsius(Raw(z)) : z \in zones}, Hot)]
        /\ hottest' = Max({0} \union {IF z.temp > Hot THEN Hot ELSE z.temp :
                                         z \in {z \in zones : z.temp # NaN}})

\* The next counter of the collection is read, or cannot be.  Reading a wild
\* one, the library finds no counter there, or something else.
CollectReads ==
    /\ reading > 0
    /\ LET c == Counters[reading]
       IN  \/ UNCHANGED <<tag, hottest>>
           \/ /\ counter[c] # "null"
              /\ c = "thermal"
              /\ MeasuresZones
           \/ /\ counter[c] # "null"
              /\ c # "thermal"
              /\ \E x \in Measured(c) : tag' = [tag EXCEPT ![c] = x]
              /\ hottest' = hottest
    /\ reading' = IF reading = Len(Counters) THEN 0 ELSE reading + 1
    /\ counter' = counter

(***************************************************************************)
(* Properties.                                                             *)
(***************************************************************************)

\* The temperature the controller acts on is that of the hottest zone,
\* whichever units the zones report in, and nothing is made up: an optional
\* counter that is not there leaves its tag alone, a NaN among the items of
\* a counter does not hide the others.  The numbers that are not items may
\* be NaN.
ReadingsTrue ==
    /\ tag["thermal"] = hottest
    /\ \A c \in Optional : counter[c] # "added" => tag[c] = 0
    /\ \A c \in Counter : tag[c] = NaN => c \in {"cpu", "disk"}
    /\ \A c \in Counter : tag[c] # NaN => tag[c] >= 0
==============================================================================
