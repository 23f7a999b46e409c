SPECIFICATION Spec
CONSTANTS
  Clips = {c1}
  MaxRetries = 2
  MultiCamera = TRUE
  MaxCrashes = 0
  NoClip = NoClip
PROPERTY
  CancelledStaysCancelled
