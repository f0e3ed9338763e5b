SPECIFICATION EnforcerSpec
CONSTANTS
  Ports = {p1, p2}
  Vlans = {v1, v2}
  BadVlan = BadVlan
  Acls = {staff}
  MissingAcl = MissingAcl
  None = None
SYMMETRY PortSymmetry
INVARIANTS
  EnforcerTypeOK
  EapolNeverBlocked
  OpensIntoItsVlan
  SettledPosture
