SPECIFICATION FairSpec
CONSTANTS
  Clips = {c1, c2}
  MaxRetries = 2
  MultiCamera = TRUE
  MaxCrashes = 1
  NoClip = NoClip
INVARIANTS
  TypeOK
  NoSilentLoss
  HeadOfLine
  RetryBudget
  DuplicatesExplained
PROPERTIES
  KeepsPromise
  QueueDrains
