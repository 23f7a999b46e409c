SPECIFICATION FairSpec
CONSTANTS
  c1 = c1
  c2 = c2
  Clips = {c1, c2}
  Workers = {w1, w2}
  CameraOf <- TwoCameras
  Risky = {c1}
  Embedded = {c1}
  MaxRetries = 2
  MaxFaults = 1
  MaxDesk = 0
  None = None
INVARIANTS
  TypeOK
  
  UploadsAccountedFor

  
CHECK_DEADLOCK FALSE
