SPECIFICATION FairSpec
CONSTANTS
  Signals = {sigint, sigterm}
  NoSignal = NoSignal
  MaxRaises = 2
INVARIANTS
  ForwardedAtMostOnce
PROPERTIES
  StoppedIsQuiet
  OnTimeSignalsArrive
