SPECIFICATION Spec
CONSTANTS
  Cams = {cam1}
  Sources = {s1}
  Slots = {k1, k2}
  MaxChanges = 2
  None = None
PROPERTY
  ControlPageStaysUp
