SPECIFICATION JSpec
CONSTANTS
  j1 = j1  j2 = j2  f1 = f1  n1 = n1  w1 = w1  a = a  b = b
  NoJob = NoJob
  Req <- Requests
  Parent <- Writes
  Region <- Regions
  ClaimOf <- Claims
  WriterReq <- Writers
  NestedReq <- Nested
  Job <- Jobs
  MaxTotal = 2
  MaxWriters = 2
  MaxManagers = 2
  Scenarios <- Crashing
INVARIANTS MissingSummaryMeansNoMutation
CHECK_DEADLOCK FALSE
