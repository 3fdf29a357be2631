--------------------------- MODULE MCAgentProcess ---------------------------
(***************************************************************************)
(* An instance of AgentProcess for TLC: lines that open, leave and break   *)
(* off a section, repeat a setting, and set it to something, to nothing or *)
(* with a comment; zones in each unit; a NaN wherever the library can      *)
(* return one.                                                             *)
(***************************************************************************)
EXTENDS AgentProcess

Other(kind, name) == [kind |-> kind, name |-> name, value |-> "", comment |-> ""]
Pair(key, value, comment) ==
    [kind |-> "pair", name |-> key, value |-> value, comment |-> comment]

SomeLines ==
    {Other("skip", ""), Other("open", "Sec"), Other("section", "Sec"),
     Other("section", "ini"),
     Pair("sec.on", "YES", ";"), Pair("On", "yes", "#"),
     Pair("model", "", ";"), Pair("model", "m", ""), Pair("log", "", ""),
     Pair("Weight1", "450", ""), Pair("weight2", "450", ""),
     Pair("weight2", "x", ""), Pair("list", "a,", "#"), Pair("list", ",", ""),
     Pair("level", "Warn", ""), Pair("level", "Warn", "#"),
     Pair("number", "x", ""), Pair("number", "450", "#")}

Lowercase(text) ==
    CASE text = "Sec" -> "sec" [] text = "YES" -> "yes" [] text = "On" -> "on"
      [] text = "Weight1" -> "weight1" [] text = "Warn" -> "warn" [] OTHER -> text
Texts == {line.name : line \in SomeLines} \union {line.value : line \in SomeLines}
SomeLower == [text \in Texts |-> Lowercase(text)]

SomeItems ==
    [text \in Texts |-> CASE text = "," -> <<"", "">> [] text = "a," -> <<"a", "">>
                          [] OTHER -> <<text>>]
SomeNumbers == {"sec.number"}
SomeWeights == {"sec.weight1", "sec.weight2"}
SomeParsed == [n \in SomeNumbers \union SomeWeights |-> [text \in {"450"} |-> 450]]

Path(text) == [text |-> text, more |-> FALSE]
SomeDefault ==
    [k \in {"sec.on", "sec.model", "sec.log", "sec.list"} \union SomeNumbers
            \union SomeWeights |->
        CASE k = "sec.on" -> FALSE [] k = "sec.model" -> Path("d")
          [] k = "sec.log" -> Path("l") [] k = "sec.list" -> <<"e">>
          [] k \in SomeNumbers -> 5 [] k \in SomeWeights -> 500]

SomeReadings ==
    [c \in {"cpu", "disk", "queue"} |->
        CASE c = "cpu" -> {-1, 130, NaN} [] c = "disk" -> {NaN}
          [] c = "queue" -> {-1, 3}]
SomeZones ==
    {[unit |-> "C", temp |-> 4500], [unit |-> "K", temp |-> -2000],
     [unit |-> "dK", temp |-> 13000], [unit |-> "C", temp |-> NaN]}
SomeEngines == {0, 30, NaN}
SomeOwners == {"hook", "query", "request"}
SomeLevels == {"info", "warn"}
SomeFiles == {Path("m")}
==============================================================================
