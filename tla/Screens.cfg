SPECIFICATION ScreensSpec
CONSTANTS
  Handlers = {h1}
  MaxActions = 2
  NRuns = 3
  NRecords = 2
  Hands = {h1, h2}
  Sheets = {s1}
  MaxDeliveries = 2
  MaxClicks = 2
  Nobody = Nobody
  Clickers = {h1}
  Wrong = {m1}
  MaxGestures = 2
  NoRow = NoRow
  Turners = {c1, c2}
  MaxTurns = 3
  MaxEdits = 2
  NFeatures = 1
  Labelled = {1}
  Records = {1}
  Versions = 1
  Passes = {p1}
  NoTag = NoTag
CHECK_DEADLOCK FALSE
INVARIANTS NoPaintIsLost BarIsCommitted PagesAgree
PROPERTIES SetupNeverGoesBack LoadingEnds ImportSettles MismatchesSettle ResultsSettle
