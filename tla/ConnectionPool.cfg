SPECIFICATION FairSpec
CONSTANTS
  r1 = r1
  r2 = r2
  r3 = r3
  Requests = {r1, r2, r3}
  Kind <- MCKind
  Max = 2
INVARIANTS
  NoRequestMeetsAnEndedPool
  ExitCutsNothingShort
  OnlyFailuresLeaveStatementsBehind
  QueueAlwaysMoves
PROPERTIES
  EveryRequestIsAnswered
  SignalLeadsToExit
CHECK_DEADLOCK FALSE
