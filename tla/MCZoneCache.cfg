SPECIFICATION FairSpec
CONSTANTS
  ZoneIds = {z1}
  Shapes = {"square", "torn"}
  Usable = {"square"}
  Sizes = {"small", "large"}
  MaxChanges = 2
INVARIANTS
  TypeOK
  AnnouncedEditsAreSeen
PROPERTIES
  ZonesReachMask
  OldMaskExpires
  PictureFollows
