SPECIFICATION CallsSpec
CONSTANTS
  NRecords = 5
  Parallel = 2
  MaxAttempts = 1
  Unknown = Unknown
  Endpoints = {ep1, ep2}
  Seed = ep1
  NoRow = NoRow
  Runs = {r1}
  Savers = {s1}
  MaxRetries = 1
  Readers = {p1, p2}
  Requests = {q1, q2}
  NoRequest = NoRequest
CHECK_DEADLOCK FALSE
INVARIANTS AccountedFor FurtherCallsBounded EndpointIsCurrent
PROPERTY CallsEnd
