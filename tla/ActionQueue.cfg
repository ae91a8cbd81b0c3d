SPECIFICATION FairSpec
CONSTANTS
  deploy = deploy
  exec = exec
  health = health
  stray = stray
  None = None
  Cmd = {deploy, exec, health, stray}
  KindOf <- MCKindOf
  Malformed = {stray}
  Unclippable = {health}
  MaxRun <- MCMaxRun
  Lease = 2
  Extension = 1
  MaxAttempt = 2
  MaxFault = 1
INVARIANTS
  TypeOK
  SuccessIsEarned
  NoFaultNoRepeat
PROPERTIES
  KeepsPromise
  EventuallySettled
