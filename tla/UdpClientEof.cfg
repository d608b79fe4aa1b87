SPECIFICATION FairSpec
CONSTANTS
  NetworkThread = NetworkThread
  ReceiverThread = ReceiverThread
  C1 = C1
  C2 = C2
  NoThread = NoThread
  Callers <- BothCallers
  ConfThreads <- OneThread
  UdpRetransmissions = 1
  UdpTimeout = 1
  IdModulus = 8
  MaxSends = 2
  Duplicates = FALSE
  ErrWhileHolding = FALSE
  Commands = {"AUTH"}
  MaxLines = 2
  Endless = TRUE
  UserEnds = {"EOF"}
  ServerSays = {}
  ReplyResults = {"ok"}
  MaxSaid = 0
  MaxCopies = 1
  Malformed = FALSE
PROPERTY EofExits
