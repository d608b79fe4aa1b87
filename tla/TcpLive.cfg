SPECIFICATION FairSpec
CONSTANTS
  Commands = {"AUTH", "JOIN", "NONE"}
  MaxLines = 2
  Endless = FALSE
  UserEnds = {"EOF", "SIGINT"}
  ServerSays = {"ERR", "BYE"}
  ReplyResults = {"ok"}
  MaxSaid = 1
  Malformed = FALSE
  ServerCloses = FALSE
INVARIANT ByeBeforeExit
PROPERTY ReplyWaitEnds
PROPERTY ErrEnds
PROPERTY CloseExits
PROPERTY EofExits
