SPECIFICATION FairSpec
CONSTANTS
  Cams = {cam1}
  Sources = {s1, s2}
  Slots = {k1, k2, k3}
  MaxChanges = 4
  None = None
INVARIANTS
  TypeOK
  NoOrphanCapture
  OutageReleasesSources
PROPERTIES
  MonitoringConverges
