SPECIFICATION FairSpec
CONSTANTS
  Initial <- MCInitial
  Specs <- MCSpecs
  SearchHorizon = 6
  MaxIterations = 3
  Second = 1
  DefaultRequeue = 4
  EndedRequeue = 4
  MaxTime = 4
  MaxEdits = 2
  MaxFaults = 1
  MaxLag = 2
INVARIANTS
  TypeOK
  NoOversleep
  StatusIsOfItsGeneration
  RestsOnOneEvaluation
PROPERTIES
  ChangesAreAnnounced
  Settles
  StopsWriting
  BusyWhileActive
\* the model stops at its bounds
CHECK_DEADLOCK FALSE
