SPECIFICATION FairDaemonSpec
CONSTANTS
  Mac = {m1}
  Port = Port
  Grants = {plain, timed}
  Timed = {timed}
  NoGrant = NoGrant
  Configs <- OneHost
  MaxSteps = 64
  MaxInbox = 2
INVARIANTS
  DaemonTypeOK
  OnlyTheJobLags
  SettledWorld
  ExchangesComplete
  SentBeforeOpened
  RecordCarriesGrant
  ChallengeStateKept
PROPERTIES
  SilentPortCloses
