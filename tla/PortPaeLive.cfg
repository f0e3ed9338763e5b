SPECIFICATION LiveSpec
CONSTANTS
  Mac = {m1}
  Port = Port
  Grants = {plain, timed}
  Timed = {timed}
  NoGrant = NoGrant
  Configs <- LivePolicies
PROPERTIES
  SilentSessionEnds
  NoAttemptHangs
  WillingSupplicantGetsIn
