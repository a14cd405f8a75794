SPECIFICATION FairSpec
CONSTANTS
  NRuns = 2
  NRecords = 1
  Parallel = 1
  Jobs = {j1, j2}
  NoJob = NoJob
  Stops = {s1}
  Discards = {}
  MaxResumes = 1
PROPERTY QueuedIsReachedUnlessFailed
