SPECIFICATION Spec
CONSTANTS
  c1 = c1
  c2 = c2
  Clips = {c1}
  Workers = {w1}
  CameraOf <- TwoCameras
  Risky = {c1}
  Embedded = {c1}
  MaxRetries = 3
  MaxFaults = 2
  MaxDesk = 2
  None = None
INVARIANTS
  AnalyzedIsScored
  SecondScoresExplained

  
CHECK_DEADLOCK FALSE
