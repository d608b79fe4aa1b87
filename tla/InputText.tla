----------------------------- MODULE InputText -----------------------------
(***************************************************************************)
(* Class InputProcess: what it makes of a typed line, how it builds the    *)
(* messages of both transports, and how it reads the text of a TCP message.*)
(*                                                                         *)
(* A text is the sequence of its words, as the single spaces of the text   *)
(* separate them: two spaces in a row enclose an empty word.  A message    *)
(* ends with a line end, glued to its last word.  What the words are is a  *)
(* parameter, and so is what the code asks of their characters.  Operators *)
(* marked "slip" are wrong variants of the one that follows.               *)
(***************************************************************************)
EXTENDS Naturals, Sequences, SequencesExt

CONSTANTS
  Words,      \* the words of texts and of lines
  Size,       \* how many characters each has
  Printable,  \* the words of the characters 33 to 126 only
  IdChars,    \* the words of letters, digits and hyphens only
  Remains,    \* each word without the first "discord." in it
  Between,    \* the spellings of keywords found between spaces, with their capitals
  AtEnd,      \* each word with an ERR, REPLY, AUTH, JOIN or MSG at its end in capitals
  Anywhere    \* each word with every BYE in it in capitals

ASSUME WordsAssumption ==
  /\ {"", "MSG", "ERR", "REPLY", "FROM", "IS", "OK", "NOK", "AUTH", "AS", "USING", "JOIN"}
       \subseteq Words
  /\ Size \in [Words -> Nat] /\ \A w \in Words : Size[w] = 0 <=> w = ""
  /\ Printable \subseteq Words /\ IdChars \subseteq Words

ASSUME DiscordAssumption ==
  /\ Remains \in [Words -> Words]
  /\ \A w \in Words : Size[Remains[w]] \in {Size[w], Size[w] - 8}

(* Capitals change neither the length of a word nor what is printable in   *)
(* it, and nothing makes them small again.  A keyword found between spaces *)
(* does not end in one found at the end of a word, nor contain BYE.        *)
ASSUME CapitalsAssumption ==
  /\ AtEnd \in [Words -> Words] /\ Anywhere \in [Words -> Words]
  /\ Between \in [DOMAIN Between -> Words] /\ DOMAIN Between \subseteq Words
  /\ \A k \in {"FROM", "IS", "OK", "NOK"} : k \in DOMAIN Between /\ Between[k] = k
  /\ {"MSG", "ERR", "REPLY"} \cap DOMAIN Between = {}
  /\ \A k \in {"MSG", "ERR", "REPLY"} : AtEnd[k] = k /\ Anywhere[k] = k
  /\ \A w \in DOMAIN Between :
       /\ Between[w] \in DOMAIN Between /\ Between[Between[w]] = Between[w]
       /\ AtEnd[w] = w /\ Anywhere[w] = w
       /\ Size[Between[w]] = Size[w]
       /\ Between[w] \in Printable <=> w \in Printable
  /\ \A w \in Words :
       /\ w \notin DOMAIN Between => Anywhere[AtEnd[w]] \notin DOMAIN Between
       /\ Anywhere[AtEnd[w]] = w => AtEnd[w] = w
       /\ \A v \in {AtEnd[w], Anywhere[w]} :
            Size[v] = Size[w] /\ (v \in Printable <=> w \in Printable)

(* isValidDName, isValidSecret and isValidID, which leaves one "discord."  *)
(* out of its account                                                      *)
ValidDName(word)  == Size[word] \in 1..20 /\ word \in Printable
ValidSecret(word) == Size[word] \in 1..128 /\ word \in IdChars
ValidID(word)     == Size[Remains[word]] \in 1..20 /\ Remains[word] \in IdChars

(* isValidContent of a single word *)
ValidWord(word) == Size[word] \in 1..1400 /\ word \in Printable
-----------------------------------------------------------------------------
(* splitString of a typed line: an empty word at its end is not found. *)
Split(words) == IF Last(words) = "" THEN Front(words) ELSE words

parseAuth(arg) ==
  [type |-> "AUTH", username |-> arg[1], secret |-> arg[2], displayName |-> arg[3]]

None == [type |-> "NONE"]

(* parseLine: a command with the wrong number of arguments, or an invalid  *)
(* one, is dropped; what does not begin with a command is a message.  The  *)
(* name given to /rename is not looked at.                                 *)
parseLine(line) ==
  LET words == Split(line)
      arg   == Tail(words)
  IN
  CASE words[1] = "/auth" ->
         IF Len(arg) = 3 /\ ValidSecret(arg[2]) /\ ValidID(arg[1]) /\ ValidDName(arg[3])
         THEN parseAuth(arg) ELSE None
    [] words[1] = "/join" ->
         IF Len(arg) = 1 /\ ValidID(arg[1]) THEN [type |-> "JOIN", channel |-> arg[1]] ELSE None
    [] words[1] = "/rename" ->
         IF Len(arg) = 1 THEN [type |-> "RENAME", displayName |-> arg[1]] ELSE None
    [] words[1] = "/help" -> [type |-> "HELP"]
    [] OTHER -> [type |-> "MSG", message |-> line]
-----------------------------------------------------------------------------
(* tcp_construct_*: the text; udp_construct_*: the fields that follow the  *)
(* identifier, each ended by a zero byte                                   *)
tcp_construct_auth(m) ==
  << "AUTH", m.username, "AS", m.displayName, "USING", m.secret >>
tcp_construct_join(m, displayName) == << "JOIN", m.channel, "AS", displayName >>
tcp_construct_msg(text, displayName) == << "MSG", "FROM", displayName, "IS" >> \o text

(* slip: the fields in the order in which the line has them *)
udp_construct_auth_typed(m) == << m.username, m.secret, m.displayName >>
udp_construct_auth(m) == << m.username, m.displayName, m.secret >>
udp_construct_join(m, displayName) == << m.channel, displayName >>
-----------------------------------------------------------------------------
(* upperTCP writes the keywords of a received text in capitals, one after  *)
(* the other: the words between two spaces; words, or ends of words,       *)
(* before a space; and BYE anywhere.                                       *)
(*                                                                         *)
(* The replacement of one keyword goes on behind the space that ended the  *)
(* last match, so that the second of two such words in a row keeps its     *)
(* spelling.                                                               *)
(* slip: it goes on at that space *)
MatchedAll(words, keyword) ==
  [i \in 0..Len(words) |->
     /\ i \in 2..(Len(words) - 1)
     /\ words[i] \in DOMAIN Between /\ Between[words[i]] = keyword]

Matched(words, keyword) ==
  LET matched[i \in 0..Len(words)] ==
        /\ i \in 2..(Len(words) - 1)
        /\ words[i] \in DOMAIN Between /\ Between[words[i]] = keyword
        /\ ~matched[i - 1]
  IN  matched

upperTCP(words) ==
  LET between(i) == IF words[i] \in DOMAIN Between /\ Matched(words, Between[words[i]])[i]
                    THEN Between[words[i]] ELSE words[i]
      atEnd(i)   == IF i < Len(words) THEN AtEnd[between(i)] ELSE between(i)
  IN  [i \in 1..Len(words) |-> Anywhere[atEnd(i)]]

(* parseMSG, parseERR and parseRespondAuth, of a message with a text.  The *)
(* last word carries the line end, which only isValidContent removes.      *)
parseFrom(words, type) ==
  /\ words[1] = type /\ words[2] = "FROM" /\ ValidDName(words[3])
  /\ words[4] = "IS" /\ ValidWord(words[5])

(* slip: the text's first word not looked at *)
parseMSGUnchecked(words) ==
  words[1] = "MSG" /\ words[2] = "FROM" /\ ValidDName(words[3]) /\ words[4] = "IS"

parseMSG(words) == parseFrom(words, "MSG")
parseERR(words) == parseFrom(words, "ERR")

parseRespondAuth(words) ==
  /\ words[1] = "REPLY" /\ words[2] \in {"OK", "NOK"}
  /\ words[3] = "IS" /\ ValidWord(words[4])

(* extractMessageContent: what follows the last " IS " *)
(* slip: what follows the first one *)
extractFirst(words) ==
  LET marker == SelectInSeq(words, LAMBDA w : w = "IS")
  IN  IF marker = 0 THEN << >> ELSE SubSeq(words, marker + 1, Len(words))

extractMessageContent(words) ==
  LET marker == SelectLastInSubSeq(words, 2, Len(words) - 1, LAMBDA w : w = "IS")
  IN  IF marker = 0 THEN << >> ELSE SubSeq(words, marker + 1, Len(words))
=============================================================================
