SPECIFICATION Spec
CONSTANTS
  None = None
  Cwd = Cwd
  AnyPort = AnyPort
  Assigned = Assigned
  Near = Near
  Far = Far
  r = r
  a = a
  b = b
  ri = ri
  ai = ai
  bi = bi
  Tids = {r, a, b}
  Root = r
  Inner <- MCInner
  Fds = {0, 1, 2}
  Home <- MCHome
  Scenarios <- MCFamilies
  MaxDescriptors = 2
  MaxSockets = 1
  MaxQueries = 1
  MaxPaths = 2
  Ignored <- MCIgnored
INVARIANT ProcessCoverageComplete
