SPECIFICATION FairSpec
CONSTANTS
  None = None
  Cwd = Cwd
  AnyPort = AnyPort
  r = r
  a = a
  b = b
  Far = Far
  Assigned = Assigned
  Tids = {r, a, b}
  Root = r
  Fds = {0, 1, 2}
  Names <- MCNames
  Home <- MCHome
  Ignored <- MCIgnored
  MaxSnapshots = 2
  MaxSockets = 1
  MaxQueries = 1
  Scenarios <- MCScenarios
INVARIANTS
  TypeOK
  ReportIsHistory
  SocketsTold
  FailureIsContained
PROPERTIES
  CollectionEnds
