SPECIFICATION MCFairSpec
CONSTANTS
  Categories = {"processes", "node_enrichment"}
  NodeCategory = "node_enrichment"
  ProcCategory = "processes"
  Processes = {p1, p2}
  NoProcess = NoProcess
  EventLimit = 2
  BatchWrites = 2
  CheckEvery = 2
  CapturePages = 2
  SessionPages = 3
  MaxRowPages = 1
  Unpublished = Unpublished
  MaxFacts = 3
INVARIANTS
  TypeOK
  LiveLedger
  LedgerInv
  PublishedLedger
  CompleteIsStored
  LossesBounded
  LimitsKept
  AtRiskBounded
PROPERTIES
  PromiseSpec
  SettledOnce
  LossesStay
  EventuallyClosed
