SPECIFICATION Spec
CONSTANTS
  Mac = {m1}
  Port = Port
  Grants = {timed}
  Timed = {timed}
  NoGrant = NoGrant
  Configs <- Dot1xOnly
INVARIANT
  SessionTimeoutPending
