SPECIFICATION Spec
CONSTANTS
  Tolerance = 1
  Languages = {"de", "fr"}
  NRecords = 2
  NModels = 3
  Grid = 3
  Floor = 2
  Top = 10
  Scale = 4
  PageSize = 1
  MaxRows = 4
  Width = 3
  MaxWords = 3
  MaxCells = 3
  MaxTable = 2
INVARIANTS EveryLabelledCaseCounts TiesAndRanksAgree PresenceAddsUp BoardsAgree NoLineIsLost ScrubIsConsistent ParallelIsGated DerivationsAgree EveryFeatureIsAnswered SuggestionsAreSafe EveryRowIsAttached
CHECK_DEADLOCK FALSE
