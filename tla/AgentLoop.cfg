SPECIFICATION FairSpec
CONSTANTS
  a = a
  b = b
  keyA = keyA
  keyB = keyB
  keyX = keyX
  tokA = tokA
  tokB = tokB
  tokC = tokC
  None = None
  Torn = Torn
  CP = {a, b}
  DefaultCP = a
  Key = {keyA, keyB, keyX}
  UsableKey = {keyA, keyB}
  Token = {tokA, tokB, tokC}
  Directive <- MCDirective
  Responses <- MCResponses
  InitialEnv <- MCInitialEnv
  GraceWindow = 2
  MaxTime = 1
INVARIANTS
  TypeOK
  EnvFileAuthentic
  AckImpliesRewritten
  GraceExitJustified
  RevokedIsSilent
  TokenOmittedOnlyWhenKnown
PROPERTY
  GraceResolves
