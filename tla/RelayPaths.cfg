SPECIFICATION RelaySpec
CONSTANTS
  None = None
  Octets = 6
  MAX_ATTR_VALUE = 3
  Unprintable = {0}
  Ids = 2
  Mac = {m1, m2}
  PortMac = PortMac
  FRAME_CAP = 16
  Mtu = 13
  Contents <- SomeContents
  Paddings <- SomePaddings
  Vlans <- SomeVlans
SYMMETRY MacSymmetry
INVARIANTS
  RelayTypeOK
  RelayedVerbatim
  WholeFramesArrive
  UserNameIsIdentity
  DeliveredVerbatim
  GrantAsMeant
