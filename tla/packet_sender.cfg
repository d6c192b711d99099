SPECIFICATION FairSpec
CONSTANTS
  SizeOf <- MCSizeOf
  Budgets <- MCBudgets
  MaxPackets = 4
  None = None
INVARIANTS
  BytesAccounted
  NoLostWakeup
  NothingStranded
  NothingVanishes
  InOrder
  BacklogBounded
  StatsExact
PROPERTIES
  KeepsPromise
  DestructorReturns
CHECK_DEADLOCK FALSE
