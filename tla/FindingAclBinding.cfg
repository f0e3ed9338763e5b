SPECIFICATION EnforcerSpec
CONSTANTS
  Ports = {p1, p2}
  Vlans = {v1}
  BadVlan = BadVlan
  Acls = {staff}
  MissingAcl = MissingAcl
  None = None
INVARIANT
  SuccessMeansBound
