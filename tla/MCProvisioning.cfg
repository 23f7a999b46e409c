SPECIFICATION FairSpec
CONSTANTS
  Sources = {s1, s2}
  Zones = {z1}
  IndexOf <- SecondSource
  Codes = {c1, c2}
  MaxEdits = 1
  MaxFaults = 1
INVARIANTS
  TypeOK
  CredentialsWork
  ZonesArrive

  
CHECK_DEADLOCK FALSE
