SPECIFICATION FairSpec
CONSTANTS
  NetworkThread = NetworkThread
  ReceiverThread = ReceiverThread
  C1 = C1
  C2 = C2
  NoThread = NoThread
  Callers <- BothCallers
  ConfThreads <- OneThread
  UdpRetransmissions = 1
  UdpTimeout = 1
  IdModulus = 8
  MaxSends = 2
  Duplicates = FALSE
  ErrWhileHolding = FALSE
  Commands = {"AUTH", "JOIN", "MSG", "RENAME", "NONE"}
  MaxLines = 2
  Endless = FALSE
  UserEnds = {"SIGINT"}
  ServerSays = {"ERR"}
  ReplyResults = {"ok"}
  MaxSaid = 1
  MaxCopies = 1
  Malformed = FALSE
INVARIANT GoodbyeBeforeClose
PROPERTY AuthEnds
PROPERTY ErrNoticed
PROPERTY CloseExits
