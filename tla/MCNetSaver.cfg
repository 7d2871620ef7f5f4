SPECIFICATION FairSaverSpec
CONSTANTS
  SaverGrace = 1
  Every = 1
  Window = 1
  MaxKills = 2
  MaxCuts = 0
  MaxFails = 1
  MaxClis = 2
  MaxEdits = 1
INVARIANT ParkedIsKnown
PROPERTIES WifiComesBack KnownIsFound ScansEnd
