SPECIFICATION Spec
CONSTANTS
  Mac = {m1, m2, m3}
  Port = Port
  Grants = {plain, timed}
  Timed = {timed}
  NoGrant = NoGrant
  Configs <- AllPorts
INVARIANTS
  TypeOK
  SessionTimersOK
  SessionPostureOK
  SessionAccountingOK
  SessionPromptsOK
  SessionForgottenOK
  CapacityOK
  ForwardingHasOwner
SYMMETRY MacSymmetry
PROPERTIES
  AccessOnlyByServer
  NoSilentDemotion
  ImplementsControlledPort
