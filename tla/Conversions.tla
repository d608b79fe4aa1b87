---------------------------- MODULE Conversions ----------------------------
(***************************************************************************)
(* The client's treatment of one input: an identifier, a message of a      *)
(* server, a typed line, or a command line.  A behaviour chooses an input; *)
(* the first three are treated by functions, the options of a command line *)
(* one after the other.                                                    *)
(***************************************************************************)
EXTENDS UdpWire, InputText, ParseArgs, FiniteSetsExt

CONSTANTS
  Names,     \* display names
  TextWords, \* words of the texts of messages
  MaxWords,  \* bound on the length of a text
  Arguments, \* arguments of commands
  MaxArgs    \* bound on the number of them

ASSUME InputsAssumption ==
  /\ Names \subseteq Words \ {""} /\ TextWords \subseteq Words /\ Arguments \subseteq Words
  /\ MaxWords \in Nat /\ MaxArgs \in Nat

(* An empty line never reaches parseLine. *)
Texts == (UNION {[1..n -> TextWords] : n \in 1..MaxWords}) \ {<< "" >>}

Lines ==
  {<< command >> \o arg : command \in {"/auth", "/join", "/rename", "/help"},
                          arg \in UNION {[1..n -> Arguments] : n \in 0..MaxArgs}}

VARIABLE input

vars == << input, given, members, parsing >>

Init == input = [kind |-> "none"] /\ ParseInit

ToChoose == input.kind = "none"

ChooseID ==
  /\ ToChoose
  /\ \E id \in IDs : input' = [kind |-> "id", id |-> id]
  /\ UNCHANGED argVars

(* The text is a line that is no command. *)
ChooseMessage ==
  /\ ToChoose
  /\ \E name \in Names, text \in Texts :
       /\ parseLine(text).type = "MSG"
       /\ input' = [kind |-> "message", name |-> name, text |-> text]
  /\ UNCHANGED argVars

ChooseLine ==
  /\ ToChoose
  /\ \E line \in Lines : input' = [kind |-> "line", line |-> line]
  /\ UNCHANGED argVars

ChooseOptions ==
  /\ ToChoose
  /\ input' = [kind |-> "options"]
  /\ UNCHANGED argVars

Parse == input.kind = "options" /\ ParseNext /\ UNCHANGED input

(* Nothing is left to do. *)
Chosen == ~ToChoose /\ (input.kind = "options" => parsing # "options") /\ UNCHANGED vars

Next == ChooseID \/ ChooseMessage \/ ChooseLine \/ ChooseOptions \/ Parse \/ Chosen
Spec == Init /\ [][Next]_vars
-----------------------------------------------------------------------------
(* Whatever identifier is written, two bytes leave; whatever two bytes     *)
(* arrive, the signed reading of them fits the short it is stored in; and  *)
(* the members stay within their types.                                    *)
TypeOK ==
  /\ input.kind = "id" =>
       /\ ShortToBytes(ToShort(input.id)) \in Bytes \X Bytes
       /\ ReadSignedID(ShortToBytes(input.id)) \in Shorts
  /\ parsing \in {"options", "parsed", "ended"}
  /\ members \in [protocol : Protocols \cup {""}, serverIP : Hosts \cup {""},
                  serverPort : 0..(2^16 - 1), udpTimeout : 0..(2^16 - 1),
                  udpRetransmissions : 0..(2^8 - 1)]

(* An identifier survives the trip through a datagram: what the client     *)
(* writes with shortToBytes the unsigned reader gets back, whether it is   *)
(* passed as unsigned short or, as udp_construct_* takes it, as a short.   *)
RoundTrip ==
  input.kind = "id" =>
    /\ ReadID(ShortToBytes(input.id)) = input.id
    /\ ShortToBytes(ToShort(input.id)) = ShortToBytes(input.id)

(* The CONFIRM the network thread sends carries the identifier it answers. *)
NetworkConfirmsTheID ==
  input.kind = "id" => NetworkConfirm(ShortToBytes(input.id)) = ShortToBytes(input.id)

(* The CONFIRM the receiver thread sends is right exactly for the          *)
(* identifiers whose low byte has no sign bit; the others get high byte FF *)
(* and so confirm a datagram of the last 128 identifiers of the lap.       *)
ReceiverConfirmWrongExactly ==
  input.kind = "id" =>
    LET bytes == ShortToBytes(input.id)
        low   == input.id % 256
    IN
    /\ ReceiverConfirm(bytes) = bytes <=> (low < 128 \/ input.id \div 256 = 255)
    /\ low >= 128 => ReceiverConfirm(bytes) = << 255, low >>

(* What tcp_udp.h says of sendConfirm: its parameter is the message's      *)
(* identifier.  The receiver thread passes another one.                    *)
ReceiverConfirmsTheID ==
  input.kind = "id" => ReceiverConfirm(ShortToBytes(input.id)) = ShortToBytes(input.id)
-----------------------------------------------------------------------------
Spellings(keyword) == {w \in DOMAIN Between : Between[w] = keyword}
SpelledAtEnd(keyword) == {w \in Words : AtEnd[w] = keyword}

(* A message of a server, with the spelling given of its keywords, once    *)
(* upperTCP has been over it                                               *)
Upper(type, from, is) == upperTCP(<< type, from, input.name, is >> \o input.text)
UpperReply(type, result, is) == upperTCP(<< type, result, is >> \o input.text)

(* Keywords are known in whatever case the server writes them: a message   *)
(* is recognised in any spelling of them if it is in capitals.  But not if *)
(* the name is itself a spelling of IS: then the keyword behind it is not  *)
(* capitalised, and must have been in capitals.                            *)
KeywordsAnyCase ==
  input.kind = "message" =>
    \A is \in Spellings("IS") :
      LET known == is = "IS" \/ input.name \notin Spellings("IS") IN
      /\ \A from \in Spellings("FROM") :
           /\ \A type \in SpelledAtEnd("MSG") :
                parseMSG(Upper(type, from, is)) <=> parseMSG(Upper("MSG", "FROM", "IS")) /\ known
           /\ \A type \in SpelledAtEnd("ERR") :
                parseERR(Upper(type, from, is)) <=> parseERR(Upper("ERR", "FROM", "IS")) /\ known
      /\ \A type \in SpelledAtEnd("REPLY"), result \in {"OK", "NOK"} :
           \A spelled \in Spellings(result) :
             parseRespondAuth(UpperReply(type, spelled, is))
               <=> parseRespondAuth(UpperReply("REPLY", result, "IS"))

(* The client looks neither at the text it sends nor at the name that      *)
(* /rename sets, but at those it receives: another client drops a message  *)
(* exactly if the sender's name is not valid or the text begins with a     *)
(* space or an invalid word; an invalid word further on is not noticed.    *)
Sent     == tcp_construct_msg(parseLine(input.text).message, input.name)
SentOver == upperTCP(Sent)

RejectedExactly ==
  input.kind = "message" =>
    (parseMSG(SentOver) <=> ValidDName(input.name) /\ ValidWord(input.text[1]))

(* How many spellings of the same keyword stand directly in front of the   *)
(* i-th word of a message                                                  *)
InFront(words, i) ==
  LET same(j) == words[j] \in Spellings(Between[words[i]]) IN
  CHOOSE n \in 0..(i - 1) : /\ \A j \in (i - n)..(i - 1) : same(j)
                            /\ n = i - 1 \/ ~same(i - n - 1)

(* What another client shows of a text is what was typed, unless a word of *)
(* it is a keyword.  Its end, or the word BYE in it, gets capitals, and so *)
(* does a word that is a keyword between spaces, but of several spellings  *)
(* in a row only every other one; and an IS cuts off all that is in front  *)
(* of it.                                                                  *)
ShownExactly ==
  input.kind = "message" =>
    LET text == input.text
        kept(i) ==
          /\ Anywhere[text[i]] = text[i]
          /\ i < Len(text) =>
               /\ AtEnd[text[i]] = text[i] /\ text[i] # "IS"
               /\ text[i] \in DOMAIN Between =>
                    text[i] = Between[text[i]] \/ InFront(Sent, i + 4) % 2 = 1
    IN  extractMessageContent(SentOver) = text <=> \A i \in 1..Len(text) : kept(i)

(* A line accepted is the same request over both transports: the fields of *)
(* the UDP datagram, in the order of the protocol (the identity first,     *)
(* then the display name, then the secret), are those between the keywords *)
(* of the TCP text, and they are the arguments of the line in the order    *)
(* that /help prints - README.md names another one, see AuthAsDocumented.  *)
(* None is empty, and none is longer than the protocol allows, the         *)
(* identity with its "discord." apart.                                     *)
SentAsTyped ==
  input.kind = "line" =>
    LET m    == parseLine(input.line)
        auth == tcp_construct_auth(m)
        join == tcp_construct_join(m, "me")
    IN
    /\ m.type = "AUTH" =>
         /\ << auth[1], auth[3], auth[5] >> = << "AUTH", "AS", "USING" >>
         /\ udp_construct_auth(m) = << auth[2], auth[4], auth[6] >>
         /\ SubSeq(input.line, 2, 4) = << auth[2], auth[6], auth[4] >>
         /\ Size[auth[2]] \in 1..28 /\ Size[auth[4]] \in 1..20 /\ Size[auth[6]] \in 1..128
    /\ m.type = "JOIN" =>
         /\ << join[1], join[3] >> = << "JOIN", "AS" >>
         /\ udp_construct_join(m, "me") = << join[2], join[4] >>
         /\ input.line[2] = join[2] /\ Size[join[2]] \in 1..28

(* What README.md says of /auth: "/auth Username DisplayName Secret".  The *)
(* line the user types has the name that others see before the secret.     *)
AuthAsDocumented ==
  input.kind = "line" =>
    LET m    == parseLine(input.line)
        auth == tcp_construct_auth(m)
    IN  m.type = "AUTH" => SubSeq(input.line, 2, 4) = << auth[2], auth[4], auth[6] >>

(* Of several options of one letter the last one counts, and its value is  *)
(* kept exactly if it fits the member: -r 256 means no transmission at all,*)
(* and -p and -d are taken modulo 65536.  A program that gets over its     *)
(* options has a protocol and a host.                                      *)
Latest(letter) ==
  LET places == {i \in 1..Len(given) : given[i].opt = letter}
  IN  IF places = {} THEN << >> ELSE << given[Max(places)] >>

OptionsKept ==
  LET kept(letter, member, limit) ==
        LET asked == IF Latest(letter) = << >> THEN Defaults[member]
                     ELSE Latest(letter)[1].stoi[1]
        IN  members[member] = asked <=> asked \in 0..limit
  IN
  /\ parsing # "ended" =>
       /\ Latest("t") # << >> => members.protocol = Latest("t")[1].arg
       /\ Latest("s") # << >> => members.serverIP = Latest("s")[1].arg
       /\ kept("p", "serverPort", 2^16 - 1) /\ kept("d", "udpTimeout", 2^16 - 1)
       /\ kept("r", "udpRetransmissions", 2^8 - 1)
  /\ parsing = "parsed" =>
       members.protocol \in {"tcp", "udp"} /\ members.serverIP # "" /\ Latest("s") # << >>
=============================================================================
