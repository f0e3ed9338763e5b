SPECIFICATION DaemonSpec
CONSTANTS
  Mac = {m1, m2}
  Port = Port
  Grants = {plain}
  Timed = {}
  NoGrant = NoGrant
  Configs <- TwoHosts
  MaxSteps = 64
  MaxInbox = 2
SYMMETRY DaemonSymmetry
INVARIANTS
  OnlyTheJobLags
  SettledWorld
