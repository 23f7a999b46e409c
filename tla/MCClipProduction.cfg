SPECIFICATION FairSpec
CONSTANTS
  Sources = {"rtsp", "file"}
  Windows <- ShortAndLong
  Span = 4
  AnalysisSlots = 1
  AnalysisWorkers = 1
  ClipSlots = 1
  ClipWorkers = 1
  ClipIds = {c1}
INVARIANTS
  TypeOK
  SlotsConserved
  ClipsAreOnePiece
  
  
PROPERTIES
  TriggerAnswered
  ClipsSettle
CHECK_DEADLOCK FALSE
