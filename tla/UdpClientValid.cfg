SPECIFICATION Spec
CONSTANTS
  NetworkThread = NetworkThread
  ReceiverThread = ReceiverThread
  C1 = C1
  C2 = C2
  NoThread = NoThread
  Callers <- BothCallers
  ConfThreads <- OneThread
  UdpRetransmissions = 1
  UdpTimeout = 1
  IdModulus = 8
  MaxSends = 3
  Duplicates = FALSE
  ErrWhileHolding = FALSE
  Commands = {"AUTH", "JOIN", "MSG"}
  MaxLines = 3
  Endless = FALSE
  UserEnds = {"EOF"}
  ServerSays = {"ERR", "BYE"}
  ReplyResults = {"ok", "nok"}
  MaxSaid = 1
  MaxCopies = 1
  Malformed = FALSE
INVARIANT NothingBeforeOpen
INVARIANT SessionsAgree
INVARIANT RepliesMatch
INVARIANT GoodbyeBeforeClose
PROPERTY CoreSteps
PROPERTY ImplementsChatSession
