SPECIFICATION FairSpec
CONSTANTS
  r = r
  a = a
  NoProcess = NoProcess
  Root = r
  Procs = {r, a}
  Movers = {a}
  CpuCount = 2
  Slots = 2
  ReadBatch = 1
  QueueLimit = 3
  PendingLimit = 1
  MaxExecs = 1
  MaxCalls = 1
INVARIANTS
  TypeOK
  LossNoticed
  ClosedCut
  CompleteIsAll
PROPERTY QuietEnds
