CONSTANTS
  Users = {1, 2, 3}
  Requests = {r1, r2}
  Newcomers = {}
  Setup <- MCSetup
  ProfileInputs <- MCProfileInputs
  PrefInputs <- MCPrefInputs
  MaxEdits = 2
  Viewer = 1
  OldMatches <- MCOldMatches
  GenderOf <- MCGenderOf
  BornAt <- MCBornAt
  Year = 4
  PageSize = 1
  Window = 2
  Gap = 1
  Scale = 2
  FirstTime = 83
  MaxTime = 85
SPECIFICATION Spec
INVARIANTS
  TypeOK
  OnlyLateWritesEscape
  OneRanking
  NothingSkipped
  CardsAreWhole
