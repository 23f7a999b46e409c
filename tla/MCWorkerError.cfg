SPECIFICATION Spec
CONSTANTS
  c1 = c1
  c2 = c2
  Clips = {c1}
  Workers = {w1}
  CameraOf <- TwoCameras
  Risky = {c1}
  Embedded = {c1}
  MaxRetries = 3
  MaxFaults = 1
  MaxDesk = 0
  None = None
PROPERTY
  WorkerErrorKeepsJob
CHECK_DEADLOCK FALSE
