CONSTANTS
  Student <- MCStudent
  NoStudent = NoStudent
  MaxSections = 4
  Inputs <- MCInputs
  Number <- MCNumber
  One = 100
  Unset = Unset
  MaxOpen = 4
  Order <- MCOrder
  Garbage = {0, 700}
SPECIFICATION FairSpec
INVARIANTS
  ReadsWhatIsGiven
  
  CollateReadsBack
  StatisticsAreRight
  BetterScoresRankHigher
  RosterIsWhole
  ReportsAreInBounds
  
PROPERTIES
  ProgramEnds
