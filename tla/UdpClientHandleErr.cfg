SPECIFICATION FairSpec
CONSTANTS
  NetworkThread = NetworkThread
  ReceiverThread = ReceiverThread
  C1 = C1
  C2 = C2
  NoThread = NoThread
  Callers <- BothCallers
  ConfThreads <- TwoThreads
  UdpRetransmissions = 1
  UdpTimeout = 1
  IdModulus = 8
  MaxSends = 2
  Duplicates = FALSE
  ErrWhileHolding = TRUE
  Commands = {"AUTH"}
  MaxLines = 1
  Endless = FALSE
  UserEnds = {}
  ServerSays = {}
  ReplyResults = {"ok"}
  MaxSaid = 0
  MaxCopies = 1
  Malformed = TRUE
PROPERTY HandleErrEnds
CHECK_DEADLOCK FALSE
