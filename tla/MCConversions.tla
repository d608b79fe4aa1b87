--------------------------- MODULE MCConversions ---------------------------
(* An instance of Conversions for TLC: every identifier of the 16-bit      *)
(* space, and texts, lines and options from small vocabularies.            *)
EXTENDS Conversions

Keywords == {"MSG", "ERR", "REPLY", "FROM", "IS", "OK", "NOK", "AUTH", "AS", "USING", "JOIN"}

(* Words of special length - 21, 129, 1401 letters - and characters: an    *)
(* underscore, a character outside ASCII                                   *)
WordsOf ==
  Keywords \cup {"msg", "err", "reply", "from", "is", "ok", "nok"}
    \cup {"", "joe", "hello", "len21", "len129", "len1401", "a_b", "non-ascii"}
    \cup {"bye", "goodbye", "BYE", "goodBYE", "ferr", "fERR"}
    \cup {"discord.joe", "discord.len21", "discord."}

SizeOf ==
  [w \in WordsOf |->
     CASE w = "" -> 0
       [] w = "len21" -> 21 [] w = "len129" -> 129 [] w = "len1401" -> 1401
       [] w = "discord.joe" -> 13 [] w = "discord.len21" -> 29 [] w = "discord." -> 8
       [] OTHER -> 5]

RemainsOf ==
  [w \in WordsOf |->
     CASE w = "discord.joe" -> "joe" [] w = "discord.len21" -> "len21" [] w = "discord." -> ""
       [] OTHER -> w]

BetweenOf ==
  [w \in {"FROM", "IS", "OK", "NOK", "AS", "USING", "from", "is", "ok", "nok"} |->
     CASE w = "from" -> "FROM" [] w = "is" -> "IS" [] w = "ok" -> "OK" [] w = "nok" -> "NOK"
       [] OTHER -> w]

AtEndOf ==
  [w \in WordsOf |->
     CASE w = "err" -> "ERR" [] w = "reply" -> "REPLY" [] w = "msg" -> "MSG" [] w = "ferr" -> "fERR"
       [] OTHER -> w]

AnywhereOf ==
  [w \in WordsOf |-> CASE w = "bye" -> "BYE" [] w = "goodbye" -> "goodBYE" [] OTHER -> w]

PrintableOf == WordsOf \ {"non-ascii"}
IdCharsOf   == PrintableOf \ {"a_b", "discord.joe", "discord.len21", "discord."}
=============================================================================
