SPECIFICATION Spec
CONSTANTS
  Commands = {"AUTH", "JOIN", "MSG", "RENAME"}
  MaxLines = 2
  Endless = FALSE
  UserEnds = {}
  ServerSays = {"ERR", "MSG"}
  ReplyResults = {"ok", "nok"}
  MaxSaid = 1
  Malformed = TRUE
  ServerCloses = TRUE
INVARIANT TcpTypeOK
INVARIANT SessionsAgree
INVARIANT RepliesMatch
INVARIANT ByeBeforeExit
PROPERTY ImplementsChatSession
