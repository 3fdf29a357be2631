------------------------- MODULE AgentProcessProofs -------------------------
(***************************************************************************)
(* Proofs about AgentProcess, for any file and settings, any owners of     *)
(* handles and any readings: types, what is released, that a setting is    *)
(* what the last line says and the configuration usable, when a            *)
(* temperature's unit is told right, and that what is stored is the        *)
(* largest of what was read.                                               *)
(***************************************************************************)
EXTENDS AgentProcess, FiniteSetTheorems, WellFoundedInduction, TLAPS

(***************************************************************************)
(* Handles.                                                                *)
(***************************************************************************)

\* reset keeps every handle owned, once.
LEMMA ResetOwned ==
    ASSUME NEW ws \in SUBSET Owner, NEW got \in SUBSET ws,
           HandleTypeOK, Owned, Reset(ws, got)
    PROVE  HandleTypeOK' /\ Owned'
<1>1. \A w \in Owner :
         /\ handle'[w] = IF w \in got THEN "valid"
                         ELSE IF w \in ws THEN "none" ELSE handle[w]
         /\ open'[w] = open[w] - Count(w \in ws /\ Valid(w)) + Count(w \in got)
  BY DEF Reset
<1>2. \A w \in Owner : open[w] = Count(handle[w] = "valid")
  BY DEF Owned, Valid
<1>3. ASSUME NEW w \in Owner
      PROVE  /\ handle'[w] \in {"none", "valid"}
             /\ open'[w] \in Int
             /\ open'[w] = Count(handle'[w] = "valid")
  BY <1>1, <1>2 DEF HandleTypeOK, Count, Valid
<1>4. handle' = [w \in Owner |-> handle'[w]] /\ open' = [w \in Owner |-> open'[w]]
  BY DEF Reset
<1>. QED  BY <1>3, <1>4 DEF HandleTypeOK, Owned, Valid

\* An inference goes on only while the threads run; when main has returned
\* nothing is held.
ReleaseInv ==
    /\ HandleTypeOK
    /\ Owned
    /\ asserted => inferring /\ Valid("request")
    /\ inferring => at = "running"
    /\ at = "ended" => \A w \in Owner : handle[w] = "none"

LEMMA ReleaseInit == Init => ReleaseInv
  BY DEF Init, HandleInit, InferenceInit, ReleaseInv, HandleTypeOK, Owned, Valid, Count

\* The steps of a process whose handles stay as they are and which does not
\* infer
LEMMA ReleaseKept ==
    ASSUME ReleaseInv, UNCHANGED <<handleVars, inferenceVars>>, at' # "ended",
           at # "running" \/ at' = "running" \/ ~inferring
    PROVE  ReleaseInv'
  BY DEF ReleaseInv, handleVars, inferenceVars, HandleTypeOK, Owned, Valid

LEMMA ReleaseStep == ReleaseInv /\ [Next]_vars => ReleaseInv'
<1>. SUFFICES ASSUME ReleaseInv, [Next]_vars PROVE ReleaseInv'
  OBVIOUS
<1>1. CASE Open \/ ReadsLine \/ Loads \/ SetsLevel
  BY <1>1, ReleaseKept
  DEF Open, ReadsLine, Loads, SetsLevel, Goes, OthersUnchanged, ReleaseInv
<1>2. CASE Constructs
  <2>1. PICK got \in SUBSET {"request"} : Reset({"request"}, got)
    BY <1>2 DEF Constructs, InferenceManager
  <2>2. HandleTypeOK' /\ Owned'
    BY <2>1, ResetOwned, RequestAssumption DEF ReleaseInv
  <2>3. at' = "start" /\ at = "construct" /\ UNCHANGED <<inferring, asserted>>
    BY <1>2 DEF Constructs, Goes, InferenceManager
  <2>. QED  BY <2>2, <2>3 DEF ReleaseInv
<1>3. CASE Starts
  <2>1. PICK got \in SUBSET {"hook", "query"} : Reset({"hook", "query"}, got)
    BY <1>3 DEF Starts, SensorsStart
  <2>2. HandleTypeOK' /\ Owned'
    BY <2>1, ResetOwned, SensorsAssumption DEF ReleaseInv
  <2>3. at' = "running" /\ at = "start" /\ UNCHANGED <<inferring, asserted>>
    BY <1>3 DEF Starts, Goes, inferenceVars
  <2>. QED  BY <2>2, <2>3 DEF ReleaseInv
<1>4. CASE Collects \/ Quits
  <2>1. UNCHANGED <<handleVars, inferenceVars>> /\ at' = "running"
    BY <1>4 DEF Collects, Quits, Goes
  <2>. QED  BY <2>1, ReleaseKept
<1>5. CASE Infers
  <2>1. at' = "running" /\ UNCHANGED <<handle, open>>
    BY <1>5 DEF Infers, Goes, handleVars
  <2>2. asserted' => inferring' /\ Valid("request")
    BY <1>5 DEF Infers, RunInference, RunReturns, ReleaseInv
  <2>. QED  BY <2>1, <2>2 DEF ReleaseInv, HandleTypeOK, Owned, Valid
<1>6. CASE Stops
  <2>1. {"hook", "query"} \in SUBSET Owner /\ Reset({"hook", "query"}, {})
    BY <1>6, SensorsAssumption DEF Stops, SensorsStop, Close
  <2>2. HandleTypeOK' /\ Owned'
    BY <2>1, ResetOwned DEF ReleaseInv
  <2>3. at' = "stopped" /\ ~inferring /\ UNCHANGED <<inferring, asserted>>
    BY <1>6 DEF Stops, Goes, inferenceVars
  <2>. QED  BY <2>2, <2>3 DEF ReleaseInv
<1>7. CASE Returns
  <2>1. Reset(Owner, {})
    BY <1>7 DEF Returns, Close
  <2>2. HandleTypeOK' /\ Owned'
    BY <2>1, ResetOwned DEF ReleaseInv
  <2>3. at = "stopped" /\ UNCHANGED <<inferring, asserted>>
    BY <1>7 DEF Returns, Goes, inferenceVars
  <2>4. \A w \in Owner : handle'[w] = "none"
    BY <2>1 DEF Reset
  <2>. QED  BY <2>2, <2>3, <2>4 DEF ReleaseInv
<1>8. CASE UNCHANGED vars
  BY <1>8 DEF vars, handleVars, inferenceVars, ReleaseInv, HandleTypeOK, Owned, Valid
<1>. QED
  BY <1>1, <1>2, <1>3, <1>4, <1>5, <1>6, <1>7, <1>8 DEF Next, Ended

\* Every handle is closed once and the power request is cleared, whichever
\* calls fail, for any set of owners.
THEOREM EverythingReleased == Spec => []Released
<1>1. ReleaseInv => Released
  BY DEF ReleaseInv, Released, Owned, Valid, Count
<1>. QED  BY <1>1, ReleaseInit, ReleaseStep, PTL DEF Spec

(***************************************************************************)
(* The configuration.                                                      *)
(***************************************************************************)

\* Whatever the lines were, what load_from_file leaves can be worked with.
LEMMA LoadUsable ==
    ASSUME Usable, LoadFromFile
    PROVE  Usable'
<1>. DEFINE old == [w \in Weights |-> cfg[w]]
            new == [w \in Weights |-> cfg'[w]]
<1>1. \A w \in Weights : cfg'[w] = Weight(w)
  BY ConfigAssumption DEF LoadFromFile, Settings
<1>2. Accepted(new)
  <2>1. CASE Accepted(ReadWeights)
    <3>1. new = ReadWeights
      BY <1>1, <2>1 DEF Weight, ReadWeights
    <3>. QED  BY <2>1, <3>1
  <2>2. CASE ~Accepted(ReadWeights)
    <3>1. new = old
      BY <1>1, <2>2 DEF Weight
    <3>. QED  BY <3>1 DEF Usable
  <2>. QED  BY <2>1, <2>2
<1>3. cfg'[List] = IF GetList(List) = <<>> THEN cfg[List] ELSE GetList(List)
  BY ConfigAssumption DEF LoadFromFile, Settings
<1>4. cfg'[Model] = IF Missing(Model) THEN cfg[Model] ELSE values[Model]
  BY ConfigAssumption DEF LoadFromFile, Settings
<1>5. cfg'[Model] # Empty
  BY <1>4 DEF Missing, Usable
<1>. QED  BY <1>2, <1>3, <1>5 DEF Usable

\* The agent runs with weights that add up to about 1 and with a list of
\* exclusions, for any file, any settings and any number of weights.
THEOREM AlwaysUsable == Spec => []Usable
<1>1. Init => Usable
  BY ConfigAssumption DEF Init, ConfigInit, Usable
<1>2. Usable /\ [Next]_vars => Usable'
  <2>. SUFFICES ASSUME Usable, [Next]_vars PROVE Usable'
    OBVIOUS
  <2>1. CASE Loads
    BY <2>1, LoadUsable DEF Loads
  <2>2. CASE ~Loads
    <3>1. cfg' = cfg
      BY <2>2 DEF Next, Open, ReadsLine, ReadLine, SetsLevel, Constructs, Starts,
         Collects, Infers, Quits, Stops, Returns, Ended, vars, configVars
    <3>. QED  BY <3>1 DEF Usable
  <2>. QED  BY <2>1, <2>2
<1>. QED  BY <1>1, <1>2, PTL DEF Spec

(***************************************************************************)
(* The lines of the file.                                                  *)
(***************************************************************************)

\* What a line names, where it is; and the headers before it.
Names(n) == Full(Header(n), Lower[read[n].name])
Pair(n) == read[n].kind = "pair"
Headers(n) == {h \in 1..(n - 1) : read[h].kind = "section"}

\* The current section is that of the line to come, and the values are those
\* of the lines so far.  Where there are headers one is the last.
ReadInv ==
    /\ read \in Seq(Lines)
    /\ section = Header(Len(read) + 1)
    /\ \A n \in 1..(Len(read) + 1) :
          Headers(n) # {} => Max(Headers(n)) \in Headers(n)
    /\ \A key \in DOMAIN values : \E n \in 1..Len(read) : Pair(n) /\ Names(n) = key
    /\ \A n \in 1..Len(read) :
          Pair(n) /\ (\A m \in (n + 1)..Len(read) : Pair(m) => Names(m) # Names(n))
             => Names(n) \in DOMAIN values /\ values[Names(n)] = Value(read[n])

NoSection == ""

LEMMA HeaderOf ==
    ASSUME NEW n
    PROVE  /\ Header(n) = IF Headers(n) = {} THEN NoSection
                          ELSE Lower[read[Max(Headers(n))].name]
           /\ Header(n)' = IF Headers(n)' = {} THEN NoSection
                           ELSE Lower[read'[Max(Headers(n)')].name]
  BY Zenon DEF Header, Headers, NoSection

LEMMA NothingRead ==
    ASSUME Len(read) = 0, read \in Seq(Lines), section = NoSection,
           DOMAIN values = {}
    PROVE  ReadInv
<1>1. Headers(1) = {}
  BY DEF Headers
<1>. QED  BY <1>1, HeaderOf DEF ReadInv

LEMMA MaxIs ==
    ASSUME NEW S \in SUBSET Int, NEW most \in S, \A y \in S : y <= most
    PROVE  Max(S) = most
<1>1. \A y \in S : most >= y
  OBVIOUS
<1>2. Max(S) \in S /\ \A y \in S : Max(S) >= y
  BY <1>1, Zenon DEF Max
<1>3. Max(S) \in Int /\ most \in Int /\ Max(S) >= most /\ Max(S) <= most
  BY <1>2
<1>. QED  BY <1>3

\* A line more changes nothing before it.
LEMMA LinesBefore ==
    ASSUME ReadInv, NEW line \in Lines, read' = Append(read, line)
    PROVE  /\ Len(read') = Len(read) + 1 /\ Len(read) \in Nat
           /\ read' \in Seq(Lines)
           /\ \A n \in 1..Len(read) : read'[n] = read[n]
           /\ read'[Len(read) + 1] = line
           /\ \A n \in 1..(Len(read) + 1) : Headers(n)' = Headers(n) /\ Header(n)' = Header(n)
<1>1. /\ Len(read') = Len(read) + 1 /\ Len(read) \in Nat
      /\ read' \in Seq(Lines)
      /\ \A n \in 1..Len(read) : read'[n] = read[n]
      /\ read'[Len(read) + 1] = line
  BY DEF ReadInv
<1>2. ASSUME NEW n \in 1..(Len(read) + 1)
      PROVE  Headers(n)' = Headers(n) /\ Header(n)' = Header(n)
  <2>1. Headers(n)' = Headers(n)
    BY <1>1 DEF Headers
  <2>2. Headers(n) # {} => Max(Headers(n)) \in 1..Len(read)
    BY <1>1 DEF ReadInv, Headers
  <2>. QED  BY <1>1, <2>1, <2>2, HeaderOf
<1>. QED  BY <1>1, <1>2

LEMMA LineRead ==
    ASSUME ReadInv, ReadLine
    PROVE  ReadInv'
<1>0. PICK len \in Nat : len = Len(read)
  BY DEF ReadInv
<1>1. PICK line \in Lines :
         /\ read' = Append(read, line)
         /\ section' = SectionAfter(line)
         /\ values' = IF line.kind = "pair"
                      THEN Put(values, Full(section, Lower[line.name]), Value(line))
                      ELSE values
  BY Zenon DEF ReadLine
<1>2. /\ Len(read') = len + 1 /\ len \in Nat
      /\ read' \in Seq(Lines)
      /\ \A n \in 1..len : read'[n] = read[n]
      /\ read'[len + 1] = line
      /\ \A n \in 1..(len + 1) : Headers(n)' = Headers(n) /\ Header(n)' = Header(n)
  BY <1>0, <1>1, LinesBefore
<1>3. Headers(len + 2)' = IF line.kind = "section" THEN Headers(len + 1) \union {len + 1}
                          ELSE Headers(len + 1)
  BY <1>2 DEF Headers
<1>4. line.kind = "section" => Max(Headers(len + 2)') = len + 1
  <2>1. Headers(len + 1) \subseteq 1..len
    BY DEF Headers
  <2>. QED  BY <1>3, <2>1, MaxIs
<1>5. ASSUME NEW n \in 1..(len + 2), Headers(n)' # {}
      PROVE  Max(Headers(n)') \in Headers(n)'
  <2>1. \A m \in 1..(len + 1) : Headers(m) # {} => Max(Headers(m)) \in Headers(m)
    BY <1>0 DEF ReadInv
  <2>2. len + 1 \in 1..(len + 1) /\ (n \in 1..(len + 1) \/ n = len + 2)
    OBVIOUS
  <2>. QED  BY <1>2, <1>3, <1>4, <1>5, <2>1, <2>2
<1>6. section' = Header(len + 2)'
  <2>1. CASE line.kind = "section"
    <3>1. Headers(len + 2)' # {}
      BY <1>3, <2>1
    <3>2. Header(len + 2)' = Lower[read'[Max(Headers(len + 2)')].name]
      BY <3>1, HeaderOf, Zenon
    <3>. QED  BY <1>1, <1>2, <1>4, <2>1, <3>2 DEF SectionAfter
  <2>2. CASE line.kind # "section"
    <3>1. section' = Header(len + 1)
      BY <1>0, <1>1, <2>2 DEF SectionAfter, ReadInv
    <3>2. Headers(len + 1) # {} => Max(Headers(len + 1)) \in 1..len
      BY <1>0 DEF ReadInv, Headers
    <3>. QED  BY <1>2, <1>3, <2>2, <3>1, <3>2, HeaderOf
  <2>. QED  BY <2>1, <2>2
<1>7. /\ \A n \in 1..len : Names(n)' = Names(n) /\ Pair(n)' = Pair(n)
      /\ Names(len + 1)' = Full(section, Lower[line.name])
      /\ Pair(len + 1)' <=> line.kind = "pair"
  BY <1>0, <1>2 DEF Names, Pair, ReadInv
<1>8. \A n \in 1..len :
         Pair(n) /\ (\A m \in (n + 1)..len : Pair(m) => Names(m) # Names(n))
            => Names(n) \in DOMAIN values /\ values[Names(n)] = Value(read[n])
  BY <1>0 DEF ReadInv
<1>9. \A key \in DOMAIN values : \E n \in 1..len : Pair(n) /\ Names(n) = key
  BY <1>0 DEF ReadInv
<1>10. /\ DOMAIN values' = IF line.kind = "pair" THEN DOMAIN values \union {Names(len + 1)'}
                           ELSE DOMAIN values
       /\ line.kind = "pair" => values'[Names(len + 1)'] = Value(line)
       /\ \A key \in DOMAIN values :
             line.kind = "pair" => key = Names(len + 1)' \/ values'[key] = values[key]
       /\ line.kind # "pair" => values' = values
  BY <1>1, <1>7, Zenon DEF Put
<1>11. ASSUME NEW key \in DOMAIN values'
       PROVE  \E n \in 1..(len + 1) : Pair(n)' /\ Names(n)' = key
  <2>1. CASE key \in DOMAIN values
    <3>1. PICK n \in 1..len : Pair(n) /\ Names(n) = key
      BY <1>9, <2>1
    <3>2. n \in 1..(len + 1) /\ Pair(n)' /\ Names(n)' = key
      BY <1>7, <3>1
    <3>. QED  BY <3>2
  <2>2. CASE key \notin DOMAIN values
    <3>1. len + 1 \in 1..(len + 1) /\ Pair(len + 1)' /\ Names(len + 1)' = key
      BY <1>7, <1>10, <1>11, <2>2
    <3>. QED  BY <3>1
  <2>. QED  BY <2>1, <2>2
<1>12. ASSUME NEW n \in 1..(len + 1), Pair(n)',
              \A m \in (n + 1)..(len + 1) : Pair(m)' => Names(m)' # Names(n)'
       PROVE  Names(n)' \in DOMAIN values' /\ values'[Names(n)'] = Value(read'[n])
  <2>1. CASE n = len + 1
    BY <1>2, <1>7, <1>10, <1>12, <2>1
  <2>2. CASE n # len + 1
    <3>1. n \in 1..len /\ read'[n] = read[n] /\ Pair(n) /\ Names(n)' = Names(n)
      BY <1>2, <1>7, <1>12, <2>2
    <3>2. \A m \in (n + 1)..len : Pair(m) => Names(m) # Names(n)
      BY <1>7, <1>12, <3>1
    <3>3. Names(n) \in DOMAIN values /\ values[Names(n)] = Value(read[n])
      BY <1>8, <3>1, <3>2
    <3>4. line.kind = "pair" => Names(n) # Names(len + 1)'
      <4>1. len + 1 \in (n + 1)..(len + 1)
        BY <3>1
      <4>. QED  BY <1>7, <1>12, <3>1, <4>1
    <3>. QED  BY <1>10, <3>1, <3>3, <3>4
  <2>. QED  BY <2>1, <2>2
<1>. QED
  <2>1. Len(read') + 1 = len + 2
    BY <1>2
  <2>. QED  BY <1>2, <2>1, <1>5, <1>6, <1>11, <1>12 DEF ReadInv

LEMMA NoKeys == DOMAIN Nothing = {}
  BY DEF Nothing

LEMMA ForgottenRead ==
    read = <<>> /\ section = NoSection /\ values = Nothing => ReadInv
<1>. SUFFICES ASSUME read = <<>>, section = NoSection, values = Nothing
              PROVE  ReadInv
  OBVIOUS
<1>1. Len(read) = 0 /\ read \in Seq(Lines)
  OBVIOUS
<1>2. DOMAIN values = {}
  BY NoKeys
<1>. QED  BY <1>1, <1>2, NothingRead

LEMMA ReadIs == ReadInv => LastWins
<1>. SUFFICES ASSUME ReadInv PROVE LastWins
  OBVIOUS
<1>1. \A n, key : Says(n, key) <=> Pair(n) /\ Names(n) = key
  BY Zenon DEF Says, Pair, Names
<1>2. \A key \in DOMAIN values : \E n \in 1..Len(read) : Says(n, key)
  BY <1>1 DEF ReadInv
<1>3. ASSUME NEW n \in 1..Len(read), NEW key, Says(n, key),
             \A later \in (n + 1)..Len(read) : ~Says(later, key)
      PROVE  key \in DOMAIN values /\ values[key] = Value(read[n])
  BY <1>1, <1>3 DEF ReadInv
<1>. QED  BY <1>2, <1>3, Zenon DEF LastWins

LEMMA ReadInvariant == Spec => []ReadInv
<1>1. Init => ReadInv
  <2>1. Init => read = <<>> /\ section = NoSection /\ values = Nothing
    BY Zenon DEF Init, ConfigInit, NoSection
  <2>. QED  BY <2>1, ForgottenRead, Zenon
<1>2. ReadInv /\ [Next]_vars => ReadInv'
  <2>. SUFFICES ASSUME ReadInv, [Next]_vars PROVE ReadInv'
    OBVIOUS
  <2>1. CASE ReadsLine
    BY <2>1, LineRead DEF ReadsLine
  <2>2. CASE SetsLevel
    <3>1. read' = <<>> /\ section' = NoSection /\ values' = Nothing
      BY <2>2, Zenon DEF SetsLevel, NoSection
    <3>2. (read = <<>> /\ section = NoSection /\ values = Nothing => ReadInv)'
      BY ForgottenRead, PTL
    <3>. QED  BY <3>1, <3>2, Zenon
  <2>3. CASE ~ReadsLine /\ ~SetsLevel
    <3>1. UNCHANGED <<read, section, values>>
      BY <2>3 DEF Next, Open, Loads, LoadFromFile, Constructs, Starts, Collects,
         Infers, Quits, Stops, Returns, Ended, vars, configVars
    <3>2. \A n : Headers(n)' = Headers(n) /\ Pair(n)' = Pair(n)
      BY <3>1 DEF Headers, Pair
    <3>3. \A n : Header(n)' = Header(n)
      BY <3>1, <3>2, HeaderOf, Zenon
    <3>4. \A n : Names(n)' = Names(n)
      BY <3>1, <3>3, Zenon DEF Names
    <3>. QED  BY <3>1, <3>2, <3>3, <3>4 DEF ReadInv
  <2>. QED  BY <2>1, <2>2, <2>3
<1>. QED  BY <1>1, <1>2, PTL DEF Spec

\* However the sections and settings of a file follow each other, each
\* setting is what the last line says that names it, for any file of any
\* length.
THEOREM LastLineWins == Spec => []LastWins
  BY ReadInvariant, ReadIs, PTL

(***************************************************************************)
(* The units of temperatures.                                              *)
(***************************************************************************)

\* Of a zone in kelvins above -73.15, of one in tenths of a kelvin above
\* -173.15 and of one in degrees up to 200, the temperature is told right.
THEOREM UnitsTold ==
    ASSUME NEW zone \in [unit : {"C", "K", "dK"}, temp : Int],
           zone.unit = "C" => zone.temp <= 20000,
           zone.unit = "K" => zone.temp > -7315 /\ zone.temp <= 72685,
           zone.unit = "dK" => zone.temp > -17315
    PROVE  Celsius(Raw(zone)) = zone.temp
<1>1. zone.temp \in Int /\ zone.temp # NaN
  BY SensorsAssumption
<1>2. \A n \in Int : n # NaN
  BY SensorsAssumption
<1>3. CASE zone.unit = "C"
  BY <1>1, <1>2, <1>3 DEF Raw, Celsius, Less
<1>4. CASE zone.unit = "K"
  BY <1>1, <1>2, <1>4 DEF Raw, Celsius, Less, ZeroCelsius
<1>5. CASE zone.unit = "dK"
  BY <1>1, <1>2, <1>5 DEF Raw, Celsius, Less, ZeroCelsius
<1>. QED  BY <1>3, <1>4, <1>5

(***************************************************************************)
(* The largest of the items of a counter.                                  *)
(***************************************************************************)

\* In place of induction: among some finite sets there is one of which no
\* other is a part.
LEMMA SmallestSet ==
    ASSUME NEW S, NEW Sets, Sets \subseteq FiniteSubsetsOf(S), Sets # {}
    PROVE  \E A \in Sets : \A B \in Sets : B \subseteq A => B = A
<1>1. \E A \in Sets : \A B \in Sets : <<B, A>> \notin StrictSubsetOrdering(S)
  BY FS_StrictSubsetOrderingWellFounded, WFMin
<1>2. \A A, B \in FiniteSubsetsOf(S) :
         <<B, A>> \in StrictSubsetOrdering(S) <=> B \subseteq A /\ B # A
  BY DEF StrictSubsetOrdering, FiniteSubsetsOf
<1>. QED  BY <1>1, <1>2

\* What a loop over the items should find: the largest, within the bounds,
\* of those that are numbers, or 0
IsLargest(items, hi, most) ==
    /\ most \in 0..hi
    /\ \A x \in items : x # NaN => Clamp(x, 0, hi) <= most
    /\ most = 0 \/ \E x \in items : x # NaN /\ most = Clamp(x, 0, hi)

LEMMA ClampIs ==
    ASSUME NEW x \in Int \union {NaN}, NEW hi \in Nat
    PROVE  /\ x = NaN => Clamp(x, 0, hi) = NaN
           /\ x # NaN => /\ Clamp(x, 0, hi) \in 0..hi
                         /\ Clamp(x, 0, hi) = IF x < 0 THEN 0 ELSE IF hi < x THEN hi ELSE x
  BY SensorsAssumption DEF Clamp, Less

LEMMA LargestNext ==
    ASSUME NEW hi \in Nat, NEW items \in SUBSET (Int \union {NaN}),
           NEW x \in items, NEW most, IsLargest(items \ {x}, hi, most)
    PROVE  IsLargest(items, hi, StdMax(most, Clamp(x, 0, hi)))
<1>1. \A y \in items : y # NaN => Clamp(y, 0, hi) \in 0..hi
  BY ClampIs
<1>2. most \in 0..hi /\ most # NaN /\ most \in Int
  BY SensorsAssumption DEF IsLargest
<1>3. CASE x = NaN
  <2>1. StdMax(most, Clamp(x, 0, hi)) = most
    BY <1>3, ClampIs DEF StdMax, Less
  <2>. QED  BY <1>3, <2>1 DEF IsLargest
<1>4. CASE x # NaN
  <2>. DEFINE c == Clamp(x, 0, hi)
  <2>1. c \in 0..hi /\ c # NaN
    BY <1>1, <1>4, SensorsAssumption
  <2>2. StdMax(most, c) = IF most < c THEN c ELSE most
    BY <1>2, <2>1 DEF StdMax, Less
  <2>. QED  BY <1>1, <1>2, <1>4, <2>1, <2>2 DEF IsLargest
<1>. QED  BY <1>3, <1>4

LEMMA LargestIsOne ==
    ASSUME NEW hi \in Nat, NEW items, NEW m, NEW n,
           IsLargest(items, hi, m), IsLargest(items, hi, n)
    PROVE  m = n
  BY DEF IsLargest

LEMMA NothingLargest ==
    ASSUME NEW hi \in Nat
    PROVE  IsLargest({}, hi, 0)
  BY DEF IsLargest

Element(s) == CHOOSE x \in s : TRUE

LEMMA ElementIn ==
    ASSUME NEW s, s # {}
    PROVE  Element(s) \in s
  BY DEF Element

\* Every finite set of items has a largest.
LEMMA HasLargest ==
    ASSUME NEW hi \in Nat, NEW items \in SUBSET (Int \union {NaN}), IsFiniteSet(items)
    PROVE  \E most : IsLargest(items, hi, most)
<1>. DEFINE Without == {A \in SUBSET items : ~\E most : IsLargest(A, hi, most)}
<1>. SUFFICES ASSUME Without # {} PROVE FALSE
  OBVIOUS
<1>1. Without \subseteq FiniteSubsetsOf(items)
  BY FS_Subset DEF FiniteSubsetsOf
<1>. HIDE DEF Without
<1>2. PICK A \in Without : \A B \in Without : B \subseteq A => B = A
  BY <1>1, SmallestSet
<1>3. A \in SUBSET items /\ ~\E most : IsLargest(A, hi, most)
  BY DEF Without
<1>4. A # {}
  <2>1. IsLargest({}, hi, 0)
    BY NothingLargest
  <2>. QED  BY <1>3, <2>1
<1>5. Element(A) \in A /\ A \ {Element(A)} \in SUBSET items
  BY <1>3, <1>4, ElementIn
<1>6. PICK most : IsLargest(A \ {Element(A)}, hi, most)
  BY <1>2, <1>5 DEF Without
<1>7. IsLargest(A, hi, StdMax(most, Clamp(Element(A), 0, hi)))
  BY <1>3, <1>5, <1>6, LargestNext
<1>. QED  BY <1>3, <1>7

LEMMA FoldForm ==
    ASSUME NEW S, NEW hi
    PROVE  Largest(S, hi) =
             (CHOOSE iter : iter = [s \in SUBSET S |-> IF s = {} THEN 0 ELSE
                StdMax(iter[s \ {Element(s)}], Clamp(Element(s), 0, hi))])[S]
  BY DEF Largest, FoldSet, MapThenFoldSet, Element

\* That is what the loop finds.
LEMMA LargestFound ==
    ASSUME NEW hi \in Nat, NEW items \in SUBSET (Int \union {NaN}), IsFiniteSet(items)
    PROVE  IsLargest(items, hi, Largest(items, hi))
<1>. DEFINE most(A) == CHOOSE m : IsLargest(A, hi, m)
            Round(f, s) == IF s = {} THEN 0
                ELSE StdMax(f[s \ {Element(s)}], Clamp(Element(s), 0, hi))
            mosts == [s \in SUBSET items |-> most(s)]
            loop == CHOOSE f : f = [s \in SUBSET items |-> Round(f, s)]
<1>1. ASSUME NEW A \in SUBSET items
      PROVE  IsLargest(A, hi, most(A))
  <2>1. IsFiniteSet(A)
    BY FS_Subset
  <2>. QED  BY <2>1, HasLargest
<1>2. ASSUME NEW A \in SUBSET items
      PROVE  most(A) = Round(mosts, A)
  <2>1. CASE A = {}
    BY <1>1, <2>1, NothingLargest, LargestIsOne
  <2>2. CASE A # {}
    <3>1. Element(A) \in A
      BY <2>2, ElementIn
    <3>2. A \ {Element(A)} \in SUBSET items
      OBVIOUS
    <3>3. IsLargest(A \ {Element(A)}, hi, mosts[A \ {Element(A)}])
      BY <1>1, <3>2
    <3>4. IsLargest(A, hi, Round(mosts, A))
      BY <2>2, <3>1, <3>3, LargestNext
    <3>. QED  BY <1>1, <3>4, LargestIsOne
  <2>. QED  BY <2>1, <2>2
<1>. HIDE DEF most, Round
<1>3. mosts = [s \in SUBSET items |-> Round(mosts, s)]
  <2>1. mosts = [s \in SUBSET items |-> most(s)]
    OBVIOUS
  <2>. HIDE DEF mosts
  <2>. QED  BY <1>2, <2>1
<1>. HIDE DEF mosts
<1>4. loop = [s \in SUBSET items |-> Round(loop, s)]
  BY <1>3, Zenon
<1>5. ASSUME NEW A \in SUBSET items
      PROVE  loop[A] = Round(loop, A)
  BY <1>4, Zenon
<1>. HIDE DEF loop
<1>6. \A A \in SUBSET items : IsLargest(A, hi, loop[A])
  <2>. DEFINE Wrong == {A \in SUBSET items : ~IsLargest(A, hi, loop[A])}
  <2>. SUFFICES ASSUME Wrong # {} PROVE FALSE
    OBVIOUS
  <2>1. Wrong \subseteq FiniteSubsetsOf(items)
    BY FS_Subset DEF FiniteSubsetsOf
  <2>. HIDE DEF Wrong
  <2>2. PICK A \in Wrong : \A B \in Wrong : B \subseteq A => B = A
    BY <2>1, SmallestSet
  <2>3. A \in SUBSET items /\ ~IsLargest(A, hi, loop[A])
    BY DEF Wrong
  <2>4. CASE A = {}
    <3>1. loop[A] = 0
      BY <1>5, <2>3, <2>4 DEF Round
    <3>. QED  BY <2>3, <2>4, <3>1, NothingLargest
  <2>5. CASE A # {}
    <3>1. Element(A) \in A /\ A \ {Element(A)} \in SUBSET items
      BY <2>3, <2>5, ElementIn
    <3>2. IsLargest(A \ {Element(A)}, hi, loop[A \ {Element(A)}])
      BY <2>2, <3>1 DEF Wrong
    <3>3. loop[A] = StdMax(loop[A \ {Element(A)}], Clamp(Element(A), 0, hi))
      BY <1>5, <2>3, <2>5 DEF Round
    <3>. QED  BY <2>3, <3>1, <3>2, <3>3, LargestNext
  <2>. QED  BY <2>4, <2>5
<1>7. Largest(items, hi) = loop[items]
  BY FoldForm, Zenon DEF loop, Round
<1>. QED  BY <1>6, <1>7

(***************************************************************************)
(* What a collection stores.                                               *)
(***************************************************************************)

\* Of a zone the temperature is told right, or it reports none.
Told(zone) ==
    \/ zone.temp = NaN
    \/ /\ zone.unit = "C" => zone.temp <= 20000
       /\ zone.unit = "K" => zone.temp > -7315 /\ zone.temp <= 72685
       /\ zone.unit = "dK" => zone.temp > -17315

\* What the zones report as degrees, and what the hottest should be
Degrees(zones) == {Celsius(Raw(z)) : z \in zones}
Hots(zones) == {0} \union {IF z.temp > Hot THEN Hot ELSE z.temp :
                              z \in {z \in zones : z.temp # NaN}}

LEMMA ZoneIs ==
    ASSUME NEW zone \in Zones
    PROVE  /\ zone \in [unit : {"C", "K", "dK"}, temp : Int \union {NaN}]
           /\ zone.temp \in Int \union {NaN}
           /\ zone.temp = NaN => Celsius(Raw(zone)) = NaN
           /\ zone.temp # NaN => Celsius(Raw(zone)) \in Int
           /\ zone.temp # NaN /\ Told(zone) => Celsius(Raw(zone)) = zone.temp
<1>1. zone \in [unit : {"C", "K", "dK"}, temp : Int \union {NaN}]
  BY SensorsAssumption
<1>2. zone.temp = NaN => Celsius(Raw(zone)) = NaN
  BY SensorsAssumption DEF Raw, Celsius, Less
<1>3. zone.temp # NaN => Celsius(Raw(zone)) \in Int
  BY <1>1, SensorsAssumption DEF Raw, Celsius, Less, ZeroCelsius
<1>4. zone.temp # NaN /\ Told(zone) => Celsius(Raw(zone)) = zone.temp
  <2>. SUFFICES ASSUME zone.temp # NaN, Told(zone)
                PROVE  Celsius(Raw(zone)) = zone.temp
    OBVIOUS
  <2>1. zone \in [unit : {"C", "K", "dK"}, temp : Int]
    BY <1>1
  <2>2. /\ zone.unit = "C" => zone.temp <= 20000
        /\ zone.unit = "K" => zone.temp > -7315 /\ zone.temp <= 72685
        /\ zone.unit = "dK" => zone.temp > -17315
    BY DEF Told
  <2>. QED  BY <2>1, <2>2, UnitsTold
<1>. QED  BY <1>1, <1>2, <1>3, <1>4

LEMMA DegreesFinite ==
    ASSUME NEW zones \in SUBSET Zones
    PROVE  IsFiniteSet(Degrees(zones)) /\ Degrees(zones) \in SUBSET (Int \union {NaN})
<1>. DEFINE f == [z \in zones |-> Celsius(Raw(z))]
<1>1. f \in Surjection(zones, Degrees(zones))
  BY DEF Surjection, Degrees
<1>2. IsFiniteSet(zones)
  BY SensorsAssumption, FS_Subset
<1>3. Degrees(zones) \in SUBSET (Int \union {NaN})
  BY ZoneIs DEF Degrees
<1>. QED  BY <1>1, <1>2, <1>3, FS_Surjection

\* The loop over the zones finds a number, and that of the hottest if every
\* temperature is told right.
LEMMA ZonesLargest ==
    ASSUME NEW zones \in SUBSET Zones
    PROVE  /\ Largest(Degrees(zones), Hot) \in Nat
           /\ (\A z \in zones : Told(z))
                 => Largest(Degrees(zones), Hot) = Max(Hots(zones))
<1>. DEFINE most == Largest(Degrees(zones), Hot)
<1>1. Hot \in Nat
  BY DEF Hot
<1>2. IsLargest(Degrees(zones), Hot, most)
  BY <1>1, DegreesFinite, LargestFound
<1>3. most \in Nat
  BY <1>1, <1>2 DEF IsLargest
<1>4. ASSUME \A z \in zones : Told(z)
      PROVE  most = Max(Hots(zones))
  <2>. HIDE DEF most
  <2>1. \A z \in zones : z.temp # NaN =>
           /\ z.temp \in Int /\ Celsius(Raw(z)) = z.temp
           /\ Clamp(z.temp, 0, Hot) = IF z.temp < 0 THEN 0
                                      ELSE IF Hot < z.temp THEN Hot ELSE z.temp
    BY <1>1, <1>4, ZoneIs, ClampIs
  <2>2. Hots(zones) \in SUBSET Int
    BY <1>1, <2>1 DEF Hots
  <2>3. most \in Hots(zones)
    <3>1. CASE most = 0
      BY <3>1 DEF Hots
    <3>2. CASE most # 0
      <4>1. PICK x \in Degrees(zones) : x # NaN /\ most = Clamp(x, 0, Hot)
        BY <1>2, <3>2 DEF IsLargest
      <4>2. PICK z \in zones : x = Celsius(Raw(z))
        BY <4>1 DEF Degrees
      <4>3. z.temp # NaN /\ x = z.temp
        BY <2>1, <4>1, <4>2, ZoneIs
      <4>4. most = IF z.temp > Hot THEN Hot ELSE z.temp
        BY <1>1, <2>1, <3>2, <4>1, <4>3
      <4>. QED  BY <4>3, <4>4 DEF Hots
    <3>. QED  BY <3>1, <3>2
  <2>4. ASSUME NEW y \in Hots(zones)
        PROVE  y <= most
    <3>1. CASE y = 0
      BY <1>3, <3>1 DEF most
    <3>2. CASE y # 0
      <4>1. PICK z \in zones : z.temp # NaN /\ y = IF z.temp > Hot THEN Hot ELSE z.temp
        BY <3>2 DEF Hots
      <4>2. z.temp \in Degrees(zones)
        BY <2>1, <4>1 DEF Degrees
      <4>3. Clamp(z.temp, 0, Hot) <= most
        BY <1>2, <4>1, <4>2 DEF IsLargest
      <4>. QED  BY <1>1, <1>3, <2>1, <4>1, <4>3
    <3>. QED  BY <3>1, <3>2
  <2>. QED  BY <2>2, <2>3, <2>4, MaxIs
<1>. QED  BY <1>3, <1>4

LEMMA EnginesLargest ==
    ASSUME NEW items \in SUBSET Engines
    PROVE  Largest(items, 100) \in Nat
<1>1. IsFiniteSet(items) /\ items \in SUBSET (Int \union {NaN})
  BY SensorsAssumption, FS_Subset
<1>2. IsLargest(items, 100, Largest(items, 100))
  BY <1>1, LargestFound
<1>. QED  BY <1>2 DEF IsLargest

LEMMA MeasuredIs ==
    ASSUME NEW c \in Counter \ {"thermal"}, NEW x \in Measured(c)
    PROVE  x \in Nat \/ (x = NaN /\ c \in {"cpu", "disk"})
<1>1. CASE c = "queue"
  <2>1. PICK y \in Readings["queue"] : x = StdMax(0, y)
    BY <1>1 DEF Measured
  <2>2. y \in Int
    BY <2>1, SensorsAssumption DEF Counter, Optional
  <2>. QED  BY <2>1, <2>2 DEF StdMax, Less
<1>2. CASE c \in {"cpu", "disk"}
  <2>1. PICK y \in Readings[c] : x = Clamp(y, 0, 100)
    BY <1>2 DEF Measured
  <2>2. y \in Int \union {NaN}
    BY <1>2, <2>1, SensorsAssumption DEF Counter, Optional
  <2>. QED  BY <1>2, <2>1, <2>2, ClampIs
<1>3. CASE c = "gpu"
  <2>1. PICK items \in SUBSET Engines : x = Largest(items, 100)
    BY <1>3 DEF Measured
  <2>. QED  BY <2>1, EnginesLargest
<1>. QED  BY <1>1, <1>2, <1>3 DEF Counter

\* A counter's tag is set to a number, or to a NaN if the counter is one that
\* is passed on as it is; that of the zones to what it should be.
Stores(c, x) ==
    /\ counter[c] # "null"
    /\ tag' = [tag EXCEPT ![c] = x]
    /\ x \in Nat \/ (x = NaN /\ c \in {"cpu", "disk"})
    /\ c # "thermal" => hottest' = hottest
    /\ c = "thermal" /\ (\A z \in Zones : Told(z)) => x = hottest'

\* What one counter that is read does to the tags
LEMMA CollectReadsEffect ==
    ASSUME SensorsTypeOK, CollectReads
    PROVE  /\ reading' \in 0..5 /\ counter' = counter
           /\ \/ UNCHANGED <<tag, hottest>>
              \/ \E c \in Counter, x \in Int \union {NaN} : Stores(c, x)
<1>1. Len(Counters) = 5 /\ \A i \in 1..5 : Counters[i] \in Counter
  BY DEF Counters, Counter
<1>2. reading \in 1..5 /\ reading' \in 0..5 /\ counter' = counter
  BY <1>1 DEF CollectReads, SensorsTypeOK
<1>. DEFINE c == Counters[reading]
<1>3. c \in Counter
  BY <1>1, <1>2
<1>4. CASE UNCHANGED <<tag, hottest>>
  BY <1>2, <1>4
<1>5. CASE counter[c] # "null" /\ c = "thermal" /\ MeasuresZones
  <2>1. PICK zones \in SUBSET Zones :
           /\ tag' = [tag EXCEPT !["thermal"] = Largest(Degrees(zones), Hot)]
           /\ hottest' = Max(Hots(zones))
    BY <1>5, Zenon DEF MeasuresZones, Degrees, Hots
  <2>2. Largest(Degrees(zones), Hot) \in Nat
    BY ZonesLargest
  <2>3. (\A z \in Zones : Told(z)) => Largest(Degrees(zones), Hot) = hottest'
    BY <2>1, ZonesLargest
  <2>4. Stores(c, Largest(Degrees(zones), Hot))
    BY <1>5, <2>1, <2>2, <2>3 DEF Stores
  <2>. QED  BY <1>2, <1>3, <2>2, <2>4
<1>6. CASE /\ counter[c] # "null" /\ c # "thermal" /\ hottest' = hottest
           /\ \E x \in Measured(c) : tag' = [tag EXCEPT ![c] = x]
  <2>1. PICK x \in Measured(c) : tag' = [tag EXCEPT ![c] = x]
    BY <1>6
  <2>2. x \in Nat \/ (x = NaN /\ c \in {"cpu", "disk"})
    BY <1>3, <1>6, MeasuredIs
  <2>3. Stores(c, x)
    BY <1>6, <2>1, <2>2 DEF Stores
  <2>4. x \in Int \union {NaN}
    BY <2>2
  <2>. HIDE DEF c
  <2>. QED  BY <1>2, <1>3, <2>3, <2>4
<1>. QED  BY <1>4, <1>5, <1>6 DEF CollectReads

Before == {"file", "lines", "level", "construct", "start"}

\* Nothing is collected before the query is open, and with an open query no
\* optional counter is wild.
SensorsInv ==
    /\ SensorsTypeOK
    /\ HandleTypeOK
    /\ at \in Before => /\ ~Valid("query") /\ hottest = 0
                        /\ \A c \in Counter : tag[c] = 0
    /\ reading > 0 => at = "running" /\ Valid("query")
    /\ at = "running" /\ Valid("query") =>
          \A c \in Optional : counter[c] \in {"null", "added"}
    /\ at \in Before \union {"running", "stopped", "ended"}
    /\ \A c \in Optional : counter[c] # "added" => tag[c] = 0
    /\ \A c \in Counter : tag[c] = NaN => c \in {"cpu", "disk"}
    /\ \A c \in Counter : tag[c] # NaN => tag[c] >= 0
    /\ (\A z \in Zones : Told(z)) => tag["thermal"] = hottest

LEMMA SensorsInitially == Init => SensorsInv
  BY SensorsAssumption
  DEF Init, SensorsInit, HandleInit, SensorsInv, SensorsTypeOK, HandleTypeOK, Counters,
      Counter, Optional, Before, Valid

\* Steps that leave the sensors and the handles alone
LEMMA SensorsKept ==
    ASSUME SensorsInv, UNCHANGED <<sensorVars, handleVars>>,
           at' = at \/ (at \in Before /\ at' \in Before)
    PROVE  SensorsInv'
  BY DEF SensorsInv, sensorVars, handleVars, SensorsTypeOK, HandleTypeOK, Valid, Before

LEMMA SensorsStep == SensorsInv /\ ReleaseInv /\ [Next]_vars => SensorsInv'
<1>. SUFFICES ASSUME SensorsInv, ReleaseInv, ReleaseInv', [Next]_vars PROVE SensorsInv'
  BY ReleaseStep
<1>0. HandleTypeOK'
  BY DEF ReleaseInv
<1>1. CASE Open \/ ReadsLine \/ Loads \/ SetsLevel
  BY <1>1, SensorsKept
  DEF Open, ReadsLine, Loads, SetsLevel, Goes, OthersUnchanged, Before
<1>2. CASE Constructs
  <2>1. /\ UNCHANGED sensorVars /\ at \in Before /\ at' \in Before /\ at' # "running"
        /\ handle'["query"] = handle["query"]
    BY <1>2, SensorsAssumption DEF Constructs, Goes, InferenceManager, Reset, Before
  <2>. QED  BY <1>0, <2>1 DEF SensorsInv, sensorVars, SensorsTypeOK, Valid, Before
<1>3. CASE Starts
  <2>1. /\ at = "start" /\ at' = "running" /\ UNCHANGED <<reading, tag, hottest>>
    BY <1>3 DEF Starts, Goes, SensorsStart
  <2>2. PICK got \in SUBSET {"hook", "query"}, added \in SUBSET Counter :
           /\ Reset({"hook", "query"}, got)
           /\ counter' = IF "query" \notin got THEN counter
                         ELSE [c \in Counter |-> IF c \in added THEN "added"
                                                 ELSE WithoutCounter(c)]
    BY <1>3 DEF Starts, SensorsStart
  <2>3. Valid("query")' => "query" \in got
    BY <2>2, SensorsAssumption DEF Valid, Reset
  <2>4. counter' \in [Counter -> {"wild", "null", "added"}]
    BY <2>2 DEF WithoutCounter, SensorsInv, SensorsTypeOK
  <2>5. Valid("query")' => \A c \in Optional : counter'[c] \in {"null", "added"}
    BY <2>2, <2>3 DEF WithoutCounter, Optional, Counter
  <2>6. reading = 0 /\ hottest = 0 /\ \A c \in Counter : tag[c] = 0
    BY <2>1 DEF SensorsInv, SensorsTypeOK, Before, Counters
  <2>. QED  BY <1>0, <2>1, <2>4, <2>5, <2>6, SensorsAssumption
       DEF SensorsInv, SensorsTypeOK, Before, Optional, Counter
<1>4. CASE Collects
  <2>1. at = "running" /\ at' = "running" /\ UNCHANGED handleVars
    BY <1>4 DEF Collects, Goes
  <2>2. CASE CollectBegins
    BY <1>0, <2>1, <2>2 DEF CollectBegins, SensorsInv, SensorsTypeOK, handleVars, Valid, Before,
       Counters
  <2>3. CASE CollectReads
    <3>1. reading > 0 /\ Valid("query") /\ Valid("query")'
      BY <2>1, <2>3 DEF CollectReads, SensorsInv, handleVars, Valid
    <3>2. CASE UNCHANGED <<tag, hottest>>
      BY <1>0, <2>1, <2>3, <3>1, <3>2, CollectReadsEffect
      DEF SensorsInv, SensorsTypeOK, Before, Counters
    <3>3. ASSUME NEW c \in Counter, NEW x \in Int \union {NaN}, Stores(c, x)
          PROVE  SensorsInv'
      <4>1. /\ tag' \in [Counter -> Int \union {NaN}]
            /\ \A d \in Counter : tag'[d] = IF d = c THEN x ELSE tag[d]
        BY <3>3 DEF Stores, SensorsInv, SensorsTypeOK
      <4>2. c \in Optional => counter[c] = "added"
        BY <2>1, <3>1, <3>3 DEF Stores, SensorsInv
      <4>3. reading' \in 0..5 /\ counter' = counter
        BY <2>3, CollectReadsEffect DEF SensorsInv
      <4>. QED
        BY <1>0, <2>1, <3>1, <3>3, <4>1, <4>2, <4>3, SensorsAssumption
        DEF Stores, SensorsInv, SensorsTypeOK, Before, Optional, Counter, Counters
    <3>. QED  BY <2>3, <3>2, <3>3, CollectReadsEffect DEF SensorsInv
  <2>. QED  BY <1>4, <2>2, <2>3 DEF Collects
<1>5. CASE Infers \/ Quits
  BY <1>5, SensorsKept DEF Infers, Quits, Goes
<1>6. CASE Stops \/ Returns
  <2>1. /\ UNCHANGED sensorVars /\ at' \in {"stopped", "ended"}
        /\ reading = 0
    BY <1>6 DEF Stops, Returns, Goes, SensorsStop, SensorsInv, SensorsTypeOK, Before
  <2>. QED  BY <1>0, <2>1 DEF SensorsInv, sensorVars, SensorsTypeOK, Before
<1>7. CASE UNCHANGED vars
  BY <1>7, SensorsKept DEF vars
<1>. QED
  BY <1>1, <1>2, <1>3, <1>4, <1>5, <1>6, <1>7 DEF Next, Ended

\* Where every zone's temperature is told right, the stored one is that of the
\* hottest; for any readings, no NaN hides another and nothing is made up.
THEOREM ReadingsAreTrue ==
    ASSUME \A z \in Zones : Told(z)
    PROVE  Spec => []ReadingsTrue
<1>1. Init => SensorsInv /\ ReleaseInv
  BY SensorsInitially, ReleaseInit
<1>2. SensorsInv /\ ReleaseInv /\ [Next]_vars => SensorsInv' /\ ReleaseInv'
  BY SensorsStep, ReleaseStep
<1>3. SensorsInv => ReadingsTrue
  BY DEF SensorsInv, ReadingsTrue
<1>. QED  BY <1>1, <1>2, <1>3, PTL DEF Spec

(***************************************************************************)
(* Types.                                                                  *)
(***************************************************************************)

LEMMA TypesInitially == Init => TypeOK
<1>. SUFFICES ASSUME Init PROVE TypeOK
  OBVIOUS
<1>1. SensorsTypeOK /\ HandleTypeOK
  BY SensorsInitially DEF SensorsInv
<1>2. Len(read) <= MaxLines
  <2>1. read = <<>>
    BY Zenon DEF Init, ConfigInit
  <2>. QED  BY <2>1, ConfigAssumption
<1>3. running \in BOOLEAN /\ inferring \in BOOLEAN /\ asserted \in BOOLEAN
  BY Zenon DEF Init, InferenceInit
<1>4. at = "file" /\ level \in Levels /\ session = "none"
  BY LevelsAssumption, Zenon DEF Init, InferenceInit
<1>. QED  BY <1>1, <1>2, <1>3, <1>4 DEF TypeOK, InferenceTypeOK

LEMMA TypesStep ==
    TypeOK /\ ReadInv /\ ReleaseInv /\ SensorsInv /\ [Next]_vars => TypeOK'
<1>. SUFFICES ASSUME TypeOK, ReadInv, ReleaseInv, SensorsInv, [Next]_vars PROVE TypeOK'
  OBVIOUS
<1>1. SensorsTypeOK' /\ HandleTypeOK'
  BY SensorsStep, ReleaseStep DEF SensorsInv, ReleaseInv
<1>2. at' \in {"file", "lines", "level", "construct", "start", "running",
               "stopped", "ended"}
  BY SensorsStep DEF SensorsInv, Before
<1>3. Len(read') <= MaxLines
  <2>1. CASE ReadsLine
    <3>1. PICK line \in Lines : read' = Append(read, line) /\ Len(read) < MaxLines
      BY <2>1, Zenon DEF ReadsLine, ReadLine
    <3>. QED  BY <3>1, ConfigAssumption DEF ReadInv
  <2>2. CASE SetsLevel
    <3>1. read' = <<>>
      BY <2>2, Zenon DEF SetsLevel
    <3>. QED  BY <3>1, ConfigAssumption
  <2>3. CASE ~ReadsLine /\ ~SetsLevel
    <3>1. read' = read
      BY <2>3 DEF Next, Open, Loads, LoadFromFile, Constructs, Starts, Collects,
         Infers, Quits, Stops, Returns, Ended, vars, configVars
    <3>. QED  BY <3>1 DEF TypeOK
  <2>. QED  BY <2>1, <2>2, <2>3
<1>4. level' \in Levels
  <2>1. CASE SetsLevel
    BY <2>1, LevelsAssumption, Zenon DEF SetsLevel, LevelOf
  <2>2. CASE ~SetsLevel
    <3>1. level' = level
      BY <2>2 DEF Next, Open, ReadsLine, Loads, Constructs, Starts, Collects, Infers,
         Quits, Stops, Returns, Ended, vars
    <3>. QED  BY <3>1 DEF TypeOK
  <2>. QED  BY <2>1, <2>2
<1>5. running' \in BOOLEAN
  <2>1. CASE Quits
    BY <2>1, Zenon DEF Quits
  <2>2. CASE ~Quits
    <3>1. running' = running
      BY <2>2 DEF Next, Open, ReadsLine, Loads, SetsLevel, OthersUnchanged, Constructs,
         Starts, Collects, Infers, Stops, Returns, Ended, vars
    <3>. QED  BY <3>1 DEF TypeOK
  <2>. QED  BY <2>1, <2>2
<1>6. InferenceTypeOK'
  <2>1. CASE Constructs
    <3>1. /\ UNCHANGED <<inferring, asserted>>
          /\ session' \in {"none", "half", "full"}
      BY <2>1 DEF Constructs, InferenceManager
    <3>. QED  BY <3>1 DEF TypeOK, InferenceTypeOK
  <2>2. CASE Infers
    <3>1. /\ inferring' \in BOOLEAN /\ asserted' \in BOOLEAN /\ session' = session
      BY <2>2, Zenon DEF Infers, RunInference, RunReturns
    <3>. QED  BY <3>1 DEF TypeOK, InferenceTypeOK
  <2>3. CASE ~Constructs /\ ~Infers
    <3>1. UNCHANGED inferenceVars
      BY <2>3 DEF Next, Open, ReadsLine, Loads, SetsLevel, OthersUnchanged, Starts,
         Collects, Quits, Stops, Returns, Ended, vars
    <3>. QED  BY <3>1 DEF TypeOK, InferenceTypeOK, inferenceVars
  <2>. QED  BY <2>1, <2>2, <2>3
<1>. QED  BY <1>1, <1>2, <1>3, <1>4, <1>5, <1>6 DEF TypeOK

\* The variables of main and of what it owns keep their types; of the tags
\* that is what the arithmetic of a collection and the loops over its items
\* give, for any items.
THEOREM ProcessTypeCorrect == Spec => []TypeOK
<1>1. Spec => []ReadInv
  BY ReadInvariant
<1>2. Init => TypeOK /\ ReleaseInv /\ SensorsInv
  BY TypesInitially, ReleaseInit, SensorsInitially
<1>3. TypeOK /\ ReleaseInv /\ SensorsInv /\ ReadInv /\ [Next]_vars
         => TypeOK' /\ ReleaseInv' /\ SensorsInv'
  BY TypesStep, ReleaseStep, SensorsStep
<1>. QED  BY <1>1, <1>2, <1>3, PTL DEF Spec

==============================================================================
