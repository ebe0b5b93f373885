SPECIFICATION MCSpec
CONSTANTS
  Runs = {r1, r2, r3}
  Sessions = {s1}
  Inodes = {1, 2, 3, 4}
  None = None
  MaxCrashes = 2
INVARIANTS
  MarkerMeansSettled
  LiveUnlessOvertaken
  ReachableUnlessOvertaken
  InterruptedLeavesNothing
PROPERTIES
  OutcomeDecidedOnce
  OrphansPublished
