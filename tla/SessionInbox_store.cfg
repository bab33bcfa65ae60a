SPECIFICATION Spec
CONSTANTS
  s1 = s1  s2 = s2  s3 = s3
  b1 = b1
  k1 = k1  k2 = k2
  p1 = p1  p2 = p2
  NoKey = NoKey  NoProc = NoProc  NoStem = NoStem
  Stem <- Stems
  Body <- OneBody
  Key <- TwoKeys
  Proc <- TwoProcs
  Scenarios <- BothScenarios
  MaxItems = 2
  MaxReceipts = 1
  MaxCrashes = 1
  MaxWriteErrors = 1
  MaxCorruptions = 1
SYMMETRY StoreSym
INVARIANTS StoreConsistent InFlightBelongsToWriter AcceptedWorkSurvives
PROPERTIES ForeignWorkNeedsResume ImplementsDurableQueue DeduplicatedWhileRemembered
