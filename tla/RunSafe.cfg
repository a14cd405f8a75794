SPECIFICATION Spec
CONSTANTS
  NRuns = 1
  NRecords = 2
  Parallel = 2
  Jobs = {j1, j2}
  NoJob = NoJob
  Stops = {s1}
  Discards = {d1}
  MaxResumes = 3
SYMMETRY JobSymmetry
INVARIANTS DoneIsComplete ScoredIsComplete UncontestedIsHonest
PROPERTIES KeepsContract UncontestedIsQuiet
