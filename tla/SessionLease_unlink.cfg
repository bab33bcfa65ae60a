SPECIFICATION LSpec
CONSTANTS
  p1 = p1  p2 = p2  l1 = l1  l2 = l2  l3 = l3
  NoLease = NoLease  NoProc = NoProc
  Proc <- TwoProcs
  Lease <- ThreeLeases
  ProcOf <- TwoAndOne
  Platforms <- Unix
  Plans <- ThreeAcquire
  MaxInode = 4
  MaxGen = 0
  MaxCrashes = 0
INVARIANT OneLeaseHolder
CHECK_DEADLOCK FALSE
