CONSTANTS
  Paths = {p1, p2}
  plain = plain
  misread = misread
  utf8 = utf8
  cp1252 = cp1252
  Contents <- MCContents
  Settings <- MCSettings
  Detected <- MCDetected
  Right <- MCRight
  Undecodable <- MCUndecodable
  FileIds = {f1, f2, f3}
  Clients = {c1, c2}
  Names = {n}
  MaxVersion = 1
  MaxRequests = 3
  MaxCrashes = 1
  None = None
SPECIFICATION Spec
INVARIANTS CorpusIsValidated AnalysingIsWorkedOn
PROPERTIES AnalysisKeepsOverrides
SYMMETRY Interchangeable
CHECK_DEADLOCK FALSE
