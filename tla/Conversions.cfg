SPECIFICATION Spec
CONSTANTS
  Words <- WordsOf
  Size <- SizeOf
  Printable <- PrintableOf
  IdChars <- IdCharsOf
  Remains <- RemainsOf
  Between <- BetweenOf
  AtEnd <- AtEndOf
  Anywhere <- AnywhereOf
  Names = {"joe", "is", "IS", "from", "msg", "len21", "non-ascii"}
  TextWords = {"", "hello", "is", "IS", "ok", "OK", "msg", "goodbye", "non-ascii"}
  MaxWords = 3
  Arguments = {"", "joe", "len21", "len129", "a_b", "non-ascii", "discord.joe", "discord.len21", "discord."}
  MaxArgs = 4
  Protocols = {"tcp", "udp", "sctp"}
  Hosts = {"", "host"}
  Numbers = {0, 255, 256, 65536}
  MaxOptions = 4
INVARIANT TypeOK
INVARIANT RoundTrip
INVARIANT NetworkConfirmsTheID
INVARIANT ReceiverConfirmWrongExactly
INVARIANT KeywordsAnyCase
INVARIANT RejectedExactly
INVARIANT ShownExactly
INVARIANT SentAsTyped
INVARIANT OptionsKept
