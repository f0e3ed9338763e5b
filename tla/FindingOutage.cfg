SPECIFICATION DaemonSpec
CONSTANTS
  Mac = {m1}
  Port = Port
  Grants = {plain}
  Timed = {}
  NoGrant = NoGrant
  Configs <- CriticalPort
  MaxSteps = 64
  MaxInbox = 1
INVARIANT
  OutageGetsCritical
