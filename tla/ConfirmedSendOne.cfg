SPECIFICATION FairCoreSpec
CONSTANTS
  Net = Net
  C1 = C1
  C2 = C2
  NoThread = NoThread
  Callers <- OneCaller
  ConfThreads <- TwoThreads
  UdpRetransmissions = 2
  UdpTimeout = 1
  IdModulus = 3
  MaxSends = 3
  Duplicates = TRUE
  ErrWhileHolding = TRUE
INVARIANT TypeOK
INVARIANT NoFlagLeft
INVARIANT ExpectsOwnID
INVARIANT AnsweredForItself
PROPERTY ImplementsStopAndWait
PROPERTY WaitEnds
CHECK_DEADLOCK FALSE
