SPECIFICATION LibrarySpec
CONSTANTS
  TemplateIds = {t1, t2}
  NoTemplate = NoTemplate
  Sources = {s1, s2}
  MaxVersion = 2
  Authors = {a1, a2}
  Launchers = {e1}
  f1 = f1
  f2 = f2
  Kinds = {"lastname", "whitelist"}
  Files = {f1, f2}
  NoFile = NoFile
  Refused <- NeedsWhitelist
  Importers = {i1, i2}
  Freezers = {z1}
  MaxVersions = 3
  SetIds = {s1, s2}
  FeatureIds = {x1, x2}
  Defs = {text, enum, bad}
  Enums = {enum}
  Faulty = {bad}
  Nothing = Nothing
  MaxImports = 1
  Clients = {c1, c2}
  Evaluations = {e1}
  MaxRequests = 5
  Models = {m1, m2}
  Setups = {p1, p2}
  Editors = {w1, w2}
  Launches = {l1, l2}
  Discarders = {d1}
  NoOne = NoOne
  HasFeatures = TRUE
  NFeatures = 2
  Labelled = {2}
  Records = {1}
  Versions = 2
  Passes = {b1, b2}
  Reviewers = {v1}
  Tags = {tag1}
  NoTag = NoTag
  Endpoints = {ep1, ep2}
  Seed = ep1
  NoRow = NoRow
  Callers = {r1}
  Savers = {k1, k2, k3}
INVARIANTS
  EveryVersionWasChecked CorpusCitesItsRules LaunchedFromFrozen
  ScoringIsWhole StoredIsCurrent
PROPERTY NoClickLost
CHECK_DEADLOCK FALSE
