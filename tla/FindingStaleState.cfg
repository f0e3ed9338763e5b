SPECIFICATION DaemonSpec
CONSTANTS
  Mac = {m1}
  Port = Port
  Grants = {plain}
  Timed = {}
  NoGrant = NoGrant
  Configs <- OneHost
  MaxSteps = 64
  MaxInbox = 1
INVARIANT
  FirstRequestHasNoState
