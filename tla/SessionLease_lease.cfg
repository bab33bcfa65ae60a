SPECIFICATION LSpec
CONSTANTS
  p1 = p1  p2 = p2  l1 = l1  l2 = l2  l3 = l3
  NoLease = NoLease  NoProc = NoProc
  Proc <- TwoProcs
  Lease <- ThreeLeases
  ProcOf <- TwoAndOne
  Platforms <- BothPlatforms
  Plans <- TwoAttempts
  MaxInode = 4
  MaxGen = 1
  MaxCrashes = 1
INVARIANTS ExclusiveUnlessOrphaned SaveKeepsLease OneWriterOrRemover RegistrySound
CHECK_DEADLOCK FALSE
