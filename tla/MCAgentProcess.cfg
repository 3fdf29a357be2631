CONSTANTS
    Lines <- SomeLines
    MaxLines = 3
    Lower <- SomeLower
    Parsed <- SomeParsed
    Items <- SomeItems
    Truths = {"yes"}
    Switch = "sec.on"
    Model = "sec.model"
    LogPath = "sec.log"
    List = "sec.list"
    Level = "sec.level"
    Numbers <- SomeNumbers
    Weights <- SomeWeights
    Default <- SomeDefault
    Owner <- SomeOwners
    NaN = NaN
    Readings <- SomeReadings
    Zones <- SomeZones
    Engines <- SomeEngines
    ModelFiles <- SomeFiles
    Levels <- SomeLevels
SPECIFICATION Spec
INVARIANTS TypeOK LastWins Usable Released ReadingsTrue
