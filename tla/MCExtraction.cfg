SPECIFICATION ScoringSpec
CONSTANTS
  NoLook = NoLook
  MaxGap = 2
  ShortGap = 1
  MaxSpatial = 35
  Similarity = 75
  Backends = {"yoloe", "yolo", "rfdetr"}
  Zones <- StoreZones
  Views <- StoreViews
  MaxFrames = 4
  Sustained = 2
  Stride = 2
  Occasions <- StoreOccasions
INVARIANTS
  TypeOK
  ZonesEnclose
  FragmentsFollowPredecessors
  EvidenceAccumulates
  EventPlacesItsPerson
  
CHECK_DEADLOCK FALSE
