SPECIFICATION AgentFairSpec
CONSTANTS
  a = a
  b = b
  keyA = keyA
  tokA = tokA
  tokB = tokB
  deploy = deploy
  health = health
  None = None
  Torn = Torn
  CP = {a, b}
  DefaultCP = a
  Key = {keyA}
  UsableKey = {keyA}
  Token = {tokA, tokB}
  Directive <- MCDirective
  Responses <- MCResponses
  InitialEnv <- MCInitialEnv
  GraceWindow = 1
  MaxTime = 0
  Home = a
  Cmd = {deploy, health}
  KindOf <- MCKindOf
  Malformed = {health}
  Unclippable = {health}
  MaxRun <- MCMaxRun
  Lease = 1
  Extension = 1
  MaxAttempt = 2
  MaxFault = 1
INVARIANT
  RevokedDoesNoWork
  ExitsRepeatNothing
PROPERTIES
  ExitsBetweenCommands
  CommandsServed
