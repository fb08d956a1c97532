SPECIFICATION FairSpec
CONSTANTS
  r1 = r1  r2 = r2  r3 = r3
  Requests <- TwoRequests
  FailureThreshold = 2
  MinimumRequests = 4
  ErrorRate = 1
  Parts = 2
  Retries = 2
  MaxTotal = 6
  MaxManual = 1
INVARIANTS TypeOK TimerMatchesState FailingServiceIsCutOff AnsweredOnce
PROPERTIES DrainsWhileOpen ClosesOnEvidence EveryRequestIsAnswered OpenCircuitIsProbed
