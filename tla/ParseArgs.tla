----------------------------- MODULE ParseArgs -----------------------------
(***************************************************************************)
(* Class Parse: the loop that takes the options of the command line from   *)
(* getopt, one by one, and what it leaves in the members.  An option is a  *)
(* record of its letter, its argument, and what stoi makes of that:        *)
(* << number >>, or << >> when it throws, which nobody catches.            *)
(***************************************************************************)
EXTENDS Integers, Sequences

CONSTANTS
  Protocols,  \* arguments of -t
  Hosts,      \* arguments of -s, perhaps an empty one
  Numbers,    \* arguments of -p, -d and -r that stoi can read
  MaxOptions  \* bound on the number of options

ASSUME OptionsAssumption == Numbers \subseteq Int /\ MaxOptions \in Nat

NoNumber == << >>
Options ==
  [opt : {"t"}, arg : Protocols, stoi : {NoNumber}]
    \cup [opt : {"s"}, arg : Hosts, stoi : {NoNumber}]
    \cup [opt : {"p", "d", "r"}, arg : {""}, stoi : {NoNumber} \cup {<< n >> : n \in Numbers}]
    \cup [opt : {"h", "?"}, arg : {""}, stoi : {NoNumber}]

VARIABLES
  given,   \* the options that getopt has handed over
  members, \* protocol, serverIP, serverPort, udpTimeout, udpRetransmissions
  parsing  \* "options" in the loop, "parsed" after it, "ended" if the program ends

argVars == << given, members, parsing >>

(* The constructor *)
Defaults ==
  [protocol |-> "", serverIP |-> "", serverPort |-> 4567, udpTimeout |-> 250,
   udpRetransmissions |-> 3]

ParseInit == given = << >> /\ members = Defaults /\ parsing = "options"

(* slip: the type of the member forgotten *)
CastKept(value, width) == value
(* static_cast<unsigned short>, <unsigned char>: the low bits *)
Cast(value, width) == value % 2^width

(* The cases of the switch.  A protocol is kept before it is looked at.    *)
TakeProtocol(option) ==
  /\ option.opt = "t"
  /\ members' = [members EXCEPT !.protocol = option.arg]
  /\ parsing' = IF option.arg \in {"tcp", "udp"} THEN "options" ELSE "ended"

TakeHost(option) ==
  /\ option.opt = "s"
  /\ members' = [members EXCEPT !.serverIP = option.arg]
  /\ UNCHANGED parsing

TakeNumber(option) ==
  /\ option.opt \in {"p", "d", "r"} /\ option.stoi # NoNumber
  /\ members' =
       CASE option.opt = "p" -> [members EXCEPT !.serverPort = Cast(option.stoi[1], 16)]
         [] option.opt = "d" -> [members EXCEPT !.udpTimeout = Cast(option.stoi[1], 16)]
         [] option.opt = "r" -> [members EXCEPT !.udpRetransmissions = Cast(option.stoi[1], 8)]
  /\ UNCHANGED parsing

(* A number that cannot be read, a call for help, an unknown option *)
TakeWrong(option) ==
  /\ option.opt \in {"h", "?"} \/ (option.opt \in {"p", "d", "r"} /\ option.stoi = NoNumber)
  /\ parsing' = "ended"
  /\ UNCHANGED members

TakeOption(option) ==
  /\ parsing = "options"
  /\ Len(given) < MaxOptions
  /\ given' = Append(given, option)
  /\ \/ TakeProtocol(option) \/ TakeHost(option)
     \/ TakeNumber(option) \/ TakeWrong(option)

(* getopt has no more: both the protocol and the host must have been given. *)
EndOptions ==
  /\ parsing = "options"
  /\ parsing' = IF members.protocol = "" \/ members.serverIP = "" THEN "ended" ELSE "parsed"
  /\ UNCHANGED << given, members >>

ParseNext == EndOptions \/ \E option \in Options : TakeOption(option)
=============================================================================
