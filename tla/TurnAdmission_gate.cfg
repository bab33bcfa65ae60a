SPECIFICATION FairSpec
CONSTANTS
  t1 = t1  t2 = t2  t3 = t3
  q1 = q1  q2 = q2
  Turn <- Turns3
  Rotator <- TwoRotators
  Kinds <- AllKinds
  NoTurn = NoTurn
INVARIANTS OneTurnInFlight CancelTargetsTurnInFlight RotationExclusive DeliveryHoldsGate NothingParkedAtIdleGate
PROPERTIES NoStartAfterClose NoOvertaking ParkedTurnsLeave
