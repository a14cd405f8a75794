SPECIFICATION Spec
CONSTANTS
  Tolerance = 1
  Languages = {"de", "fr"}
  NRecords = 1
  NModels = 1
  Grid = 1
  MaxRows = 1
  Width = 1
  MaxWords = 1
  MaxCells = 1
  MaxTable = 2
  Floor = 2
  Top = 10
  Scale = 4
  PageSize = 1
INVARIANT NothingIsDropped
CHECK_DEADLOCK FALSE
