SPECIFICATION FairSpec
CONSTANTS
  NRuns = 1
  NRecords = 1
  Parallel = 1
  Jobs = {j1, j2}
  NoJob = NoJob
  Stops = {s1}
  Discards = {d1}
  MaxResumes = 2
PROPERTIES RunningEnds DoneIsScoredUnlessStopped
