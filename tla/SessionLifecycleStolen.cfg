SPECIFICATION Spec
CONSTANTS
  Runs = {r1, r2, r3}
  Sessions = {s1}
  Inodes = {i1, i2, i3, i4}
  None = None
  MaxCrashes = 2
INVARIANTS
  ActiveNotRecovered
