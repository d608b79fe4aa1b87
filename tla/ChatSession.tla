---------------------------- MODULE ChatSession ----------------------------
(***************************************************************************)
(* What a session is, whatever carries it: the promise that the clients    *)
(* for UDP and for TCP both keep.  The client asks, the server gives each  *)
(* AUTH and JOIN at most one verdict, and the client is authenticated in   *)
(* its own eyes only between a verdict that grants its latest AUTH and one *)
(* that takes it back.  While it is not it asks for nothing but AUTH, one  *)
(* at a time; it may report an error at any moment.  The promise ends when *)
(* the client says BYE.                                                    *)
(***************************************************************************)
EXTENDS Naturals, Sequences

CONSTANT JoinRefusalLogsOut  \* does a refused JOIN end the authentication?

VARIABLES
  phase,     \* START, AUTH (a verdict is awaited) or OPEN
  requests,  \* kinds of the messages sent, by their numbers
  verdicts,  \* << number of the request, result >>
  over       \* the client has said BYE

csVars == << phase, requests, verdicts, over >>

CSInit == phase = "START" /\ requests = << >> /\ verdicts = {} /\ over = FALSE

Sends(kind) == requests' = Append(requests, kind)

Login ==
  /\ phase = "START" /\ phase' = "AUTH"
  /\ Sends("AUTH") /\ UNCHANGED << verdicts, over >>

Ask ==
  /\ phase = "OPEN"
  /\ Sends("MSG") \/ Sends("JOIN")
  /\ UNCHANGED << phase, verdicts, over >>

Complain == Sends("ERR") /\ UNCHANGED << phase, verdicts, over >>

Decide ==
  /\ \E n \in DOMAIN requests, result \in {"ok", "nok", "other"} :
       /\ requests[n] \in {"AUTH", "JOIN"}
       /\ \A v \in verdicts : v[1] # n
       /\ verdicts' = verdicts \cup {<< n, result >>}
  /\ UNCHANGED << phase, requests, over >>

(* A verdict on the latest request of its kind takes effect; a malformed   *)
(* one may be answered by an ERR in the same breath.                       *)
Latest(kind, n) ==
  /\ n \in DOMAIN requests /\ requests[n] = kind
  /\ \A m \in DOMAIN requests : m > n => requests[m] # kind

TakeEffect(from, kind, granted, to) ==
  /\ phase = from /\ phase' = to
  /\ \E v \in verdicts : Latest(kind, v[1]) /\ (v[2] = "ok") = granted
  /\ requests' = requests \/ Sends("ERR")
  /\ UNCHANGED << verdicts, over >>

Granted     == TakeEffect("AUTH", "AUTH", TRUE, "OPEN")
Refused     == TakeEffect("AUTH", "AUTH", FALSE, "START")
JoinRefused == JoinRefusalLogsOut /\ TakeEffect("OPEN", "JOIN", FALSE, "START")

Leave == over' = TRUE /\ UNCHANGED << phase, requests, verdicts >>

CSNext == \/ Login \/ Ask \/ Complain \/ Decide \/ Granted \/ Refused \/ JoinRefused
          \/ Leave
          \/ over /\ UNCHANGED over

CSSpec == CSInit /\ [][CSNext]_csVars
=============================================================================
