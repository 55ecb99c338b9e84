CONSTANTS
  e1 = e1
  e2 = e2
  noSub = noSub
  NoSub <- noSub
  Ecus = {e1, e2}
  Rx <- MCRx
  Sub <- MCSub
  Requests = 2
  Timeout = 1
  PendingTimeout = 2
  TotalTimeout = 3
  Retry = 2
  MaxFrames = 4
SPECIFICATION Spec
CHECK_DEADLOCK FALSE
INVARIANT AnswersRouted
PROPERTY PatientEnough
PROPERTY JobEnds
