SPECIFICATION Spec
CONSTANTS
  NetworkThread = NetworkThread
  ReceiverThread = ReceiverThread
  C1 = C1
  C2 = C2
  NoThread = NoThread
  Callers <- BothCallers
  ConfThreads <- TwoThreads
  UdpRetransmissions = 1
  UdpTimeout = 1
  IdModulus = 2
  MaxSends = 3
  Duplicates = TRUE
  ErrWhileHolding = TRUE
  Commands = {"AUTH", "JOIN", "MSG"}
  MaxLines = 2
  Endless = FALSE
  UserEnds = {}
  ServerSays = {"MSG", "ERR", "BAD"}
  ReplyResults = {"ok", "other"}
  MaxSaid = 1
  MaxCopies = 1
  Malformed = TRUE
SYMMETRY ThreadSymmetry
INVARIANT ClientTypeOK
INVARIANT MutexOwned
INVARIANT WakeupsBalance
INVARIANT StuckIsSilent
CHECK_DEADLOCK FALSE
