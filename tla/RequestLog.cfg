SPECIFICATION Spec
CONSTANTS
  r1 = r1
  r2 = r2
  None = None
  Requests = {r1, r2}
  Environments <- MCEnvironments
  Fields <- MCFields
  Redact <- MCRedact
  Secrets <- MCSecrets
  NestCalls <- MCNestCalls
  HandlerCalls <- MCHandlerCalls
  Questions <- MCQuestions
  Answers <- MCAnswers
  Allowlist <- MCAllowlist
INVARIANTS
  
  ProductionKeepsPayloadsOut
  LinesAreOfOneRequest
  SaidIsWritten
CHECK_DEADLOCK FALSE
