---------------------------- MODULE Configuration ----------------------------
(***************************************************************************)
(* How a process gets its configuration: ConfigLoader::load, which reads   *)
(* nanoloop_config.ini line by line (shared/config_loader.hpp), and        *)
(* config::load_from_file, which takes from it what it accepts             *)
(* (shared/config.hpp).  Both are called before there are threads.         *)
(*                                                                         *)
(* A text is a token; what the library makes of it is a constant.  A value *)
(* is a text and whether a comment after '#', which the parser does not    *)
(* strip, is part of it.                                                   *)
(***************************************************************************)
EXTENDS Integers, Sequences, SequencesExt

CONSTANTS
    Lines,    \* what a line of the file may be
    MaxLines, \* bounds the file
    Lower,    \* ::tolower on a text
    Parsed,   \* by full key: std::stoi or std::stod, on the texts it accepts
    Items,    \* what stands in a text before, between and after its commas
    Truths,   \* true, yes, 1, on
    Switch, Model, LogPath, List, Level, \* the full keys of the settings,
    Numbers,  \* of the numbers, which are taken as they are,
    Weights,  \* and of the weights, in thousandths
    Default   \* what config.hpp initialises them to

Settings == {Switch, Model, LogPath, List} \union Numbers \union Weights

Nothing == <<>>
Empty == [text |-> "", more |-> FALSE]

Total(weights) == SumFunction(weights)

\* |sum - 1.0| < 0.01
Accepted(weights) == Total(weights) \in 991..1009

VARIABLES
    read,    \* the lines so far
    section, \* current_section, "" before the first
    values,  \* m_values
    cfg      \* the variables of config.hpp

configVars == <<read, section, values, cfg>>

\* The settings are distinct, and the defaults can be worked with.
ASSUME ConfigAssumption ==
    /\ MaxLines \in Nat
    /\ Switch # Model /\ Switch # LogPath /\ Switch # List
    /\ Model # LogPath /\ Model # List /\ LogPath # List
    /\ {Switch, Model, LogPath, List} \intersect (Numbers \union Weights) = {}
    /\ Numbers \intersect Weights = {}
    /\ Accepted([w \in Weights |-> Default[w]])
    /\ Default[List] # <<>>
    /\ Default[Model] # Empty

ConfigInit ==
    /\ read = <<>>
    /\ section = ""
    /\ values = Nothing
    /\ cfg = Default

(***************************************************************************)
(* ConfigLoader::load                                                      *)
(***************************************************************************)

Full(sec, key) == IF sec = "" THEN key ELSE sec \o "." \o key

Value(line) == [text |-> line.value, more |-> line.comment = "#"]

\* Fault: a '[' without a ']' ends the section.
SectionAfterClears(line) ==
    CASE line.kind = "section" -> Lower[line.name]
      [] line.kind = "open" -> ""
      [] OTHER -> section

\* A '[' without a ']' leaves the section as it is.
SectionAfter(line) ==
    IF line.kind = "section" THEN Lower[line.name] ELSE section

\* m_values[full_key] = value: a later value replaces an earlier one.
Put(map, key, value) ==
    [k \in DOMAIN map \union {key} |-> IF k = key THEN value ELSE map[k]]

\* The next line of the file
ReadLine ==
    /\ Len(read) < MaxLines
    /\ \E line \in Lines :
          /\ read' = Append(read, line)
          /\ section' = SectionAfter(line)
          /\ values' = IF line.kind = "pair"
                       THEN Put(values, Full(section, Lower[line.name]), Value(line))
                       ELSE values
    /\ cfg' = cfg

(***************************************************************************)
(* get_bool, get_int, get_double, get_list                                 *)
(***************************************************************************)

\* get_string is empty
Missing(key) ==
    IF key \in DOMAIN values
    THEN values[key] = Empty
    ELSE TRUE

\* Whatever is no word for true is false.
Bool(key) ==
    IF Missing(key) THEN cfg[key]
    ELSE ~values[key].more /\ Lower[values[key].text] \in Truths

\* What follows the number is not looked at; no number, no change.
Number(key) ==
    IF Missing(key) THEN cfg[key]
    ELSE IF values[key].text \in DOMAIN Parsed[key]
         THEN Parsed[key][values[key].text]
    ELSE cfg[key]

\* A '#' becomes part of what stands after the last comma; what is empty is
\* left out.
GetList(key) ==
    IF Missing(key) THEN <<>>
    ELSE LET items == Items[values[key].text]
         IN  SelectSeq(IF values[key].more THEN Append(Front(items), "#") ELSE items,
                       LAMBDA item : item # "")

(***************************************************************************)
(* load_from_file                                                          *)
(***************************************************************************)

ReadWeights == [w \in Weights |-> Number(w)]

\* Fault: each is taken on its own.
WeightAlone(w) == IF ReadWeights[w] \in 0..1000 THEN ReadWeights[w] ELSE cfg[w]

\* The weights are taken together or not at all.
Weight(w) == IF Accepted(ReadWeights) THEN ReadWeights[w] ELSE cfg[w]

\* The lines are over.  The path of the log may be set to "", that of the
\* model and the exclusions may not.
LoadFromFile ==
    /\ cfg' = [k \in Settings |->
          CASE k = Switch -> Bool(k)
            [] k \in Numbers -> Number(k)
            [] k \in Weights -> Weight(k)
            [] k = Model -> IF Missing(k) THEN cfg[k] ELSE values[k]
            [] k = LogPath -> IF k \in DOMAIN values THEN values[k] ELSE cfg[k]
            [] k = List -> IF GetList(k) = <<>> THEN cfg[k] ELSE GetList(k)]
    /\ UNCHANGED <<read, section, values>>

(***************************************************************************)
(* Properties.                                                             *)
(***************************************************************************)

\* What a line means where it is in the file: the header it is under is the
\* last complete one before it.
Header(n) ==
    LET headers == {h \in 1..(n - 1) : read[h].kind = "section"}
    IN  IF headers = {} THEN "" ELSE Lower[read[Max(headers)].name]

Says(n, key) ==
    read[n].kind = "pair" /\ Full(Header(n), Lower[read[n].name]) = key

\* A setting is what the last line says that names it under its header, in
\* any case of letters, and absent if there is none: reading line by line
\* with one current section loses nothing of the file and moves nothing.
LastWins ==
    /\ \A key \in DOMAIN values : \E n \in 1..Len(read) : Says(n, key)
    /\ \A n \in 1..Len(read) : \A key \in DOMAIN values \union Settings \union {Level} :
          Says(n, key) /\ (\A later \in (n + 1)..Len(read) : ~Says(later, key))
              => key \in DOMAIN values /\ values[key] = Value(read[n])

\* Whatever the file says, the weights the agent and the governor's list end
\* up with can be worked with: the weights add up to about 1, a mixture of
\* the file's and the defaults included, and something is excluded.
Usable ==
    /\ Accepted([w \in Weights |-> cfg[w]])
    /\ cfg[List] # <<>>
    /\ cfg[Model] # Empty
==============================================================================
