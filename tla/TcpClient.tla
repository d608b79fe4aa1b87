----------------------------- MODULE TcpClient -----------------------------
(***************************************************************************)
(* The whole client in TCP mode: TcpUdp::Input(1) with its network,        *)
(* receiver, stdin and signal threads, and the stream from the server.     *)
(*                                                                         *)
(* The stream is a sequence of pieces, three to a message: a first piece   *)
(* that ends inside the first word, a second that ends inside the content, *)
(* and the rest with its line end (for BYE: "B", "YE", the line end).      *)
(* recv returns any run of pieces from the front - a part of a message,    *)
(* one, or several - and the client takes the run for one message.         *)
(* Texts are abstracted to what the checks tell apart.  Operators marked   *)
(* "slip" are wrong variants of the one that follows.                      *)
(***************************************************************************)
EXTENDS StdinReader, ResponseBuffer, FiniteSets

CONSTANTS
  ServerSays,    \* types of the messages the server sends unasked
  ReplyResults,  \* results in its REPLYs
  MaxSaid,       \* bound on the messages the server sends unasked
  Malformed,     \* may names and contents of the server be invalid?
  ServerCloses   \* may the server close the connection?

ASSUME ServerAssumption ==
  /\ ServerSays \subseteq {"MSG", "ERR", "BYE", "BAD"}
  /\ ReplyResults \subseteq {"ok", "nok", "other"}
  /\ MaxSaid \in Nat
  /\ Malformed \in BOOLEAN /\ ServerCloses \in BOOLEAN

VARIABLES
  network,    \* InputBuffer::is_network_active
  status,     \* CurrentStatus
  net,        \* place of the network thread
  recv,       \* place of the receiver thread
  sig,        \* place of the signal thread
  exited,     \* the process has ended
  goodbye,    \* a BYE has been sent
  broken,     \* the process was ended by a send that failed
  responses,  \* ResponseBuffer::messageBufferTCP
  requests,   \* the kind of each message sent, by its number
  answers,    \* which REPLY (by ref) was taken for which request
  verdicts,   \* what the server has answered: << request, result >>
  said,       \* messages the server has sent unasked
  stream,     \* what the client has not received yet
  closed      \* the server has closed the connection

sendVars   == << goodbye, requests >>
threadVars == << net, recv, sig, exited, broken >>
serverVars == << verdicts, said, stream, closed >>
vars == << inputVars, network, status, threadVars, sendVars, responses, answers, serverVars >>

(* A message: BAD is a line that begins with no known word.  Of a text all *)
(* may be valid, or only the first word ("tail"), or nothing ("first"); a  *)
(* text that begins with a space is valid, its first word (none) is not    *)
(* ("lead").                                                               *)
Messages ==
  [type : {"REPLY", "MSG", "ERR", "BYE", "BAD"}, ref : Nat,
   result : {"ok", "nok", "other", "none"}, name : BOOLEAN, text : {"good", "tail", "first", "lead"}]

Pieces == [msg : Messages, part : 1..3]

(* What the buffer holds of a run of pieces: its first message, and whether *)
(* what extractMessageContent finds in it passes isValidContent             *)
Responses == [type : {"REPLY", "ERR"}, msg : Messages, content : BOOLEAN]

NetPlaces ==
  {"loop", "foot", "reply", "err", "idle", "late", "bye", "byeBreak", "byeTimeout",
   "close", "done"}

TcpTypeOK ==
  /\ InputTypeOK
  /\ network \in BOOLEAN /\ status \in {"START", "AUTH", "OPEN"}
  /\ net \in NetPlaces /\ recv \in {"run", "bye", "close", "done"}
  /\ sig \in {"run", "bye", "done"} /\ exited \in BOOLEAN
  /\ goodbye \in BOOLEAN /\ broken \in BOOLEAN
  /\ responses \in Seq(Responses)
  /\ requests \in Seq({"AUTH", "JOIN", "MSG", "ERR"})
  /\ answers \subseteq Nat \X Nat
  /\ verdicts \subseteq Nat \X {"ok", "nok", "other"} /\ said \in 0..MaxSaid
  /\ stream \in Seq(Pieces) /\ closed \in BOOLEAN

(* main starts the threads with network active, in state START. *)
Init ==
  /\ InputInit
  /\ network = TRUE /\ status = "START" /\ net = "loop" /\ recv = "run" /\ sig = "run"
  /\ exited = FALSE /\ goodbye = FALSE /\ broken = FALSE
  /\ responses = << >> /\ requests = << >> /\ answers = {}
  /\ verdicts = {} /\ said = 0 /\ stream = << >> /\ closed = FALSE
-----------------------------------------------------------------------------
(* sendMessageTCP hands the text to the connection.  What it does when the *)
(* connection does not take it is in SendFails.                            *)
SendMessage(kind) == requests' = Append(requests, kind) /\ UNCHANGED goodbye
SendBye == goodbye' = TRUE /\ UNCHANGED requests

StopNetwork == network' = FALSE

(* stdinReaderThread: it reads while the network is active. *)
StdinOnly ==
  UNCHANGED << network, status, threadVars, sendVars, responses, answers, serverVars >>

StdinGoesOn == ((network /\ ReadAgain) \/ (~network /\ StdinStop)) /\ StdinOnly

Stdin ==
  \/ network /\ ((\E line \in Commands : ReadLine(line)) \/ ReadEof) /\ StdinOnly
  \/ StdinGoesOn
-----------------------------------------------------------------------------
(* signalHandlerThread: SIGINT ends the session, and then says BYE. *)
SigStep(from, to) ==
  /\ sig = from /\ sig' = to
  /\ UNCHANGED << inputVars, status, net, recv, exited, broken, responses, answers,
                  serverVars >>

SigInt ==
  /\ "SIGINT" \in UserEnds
  /\ SigStep("run", "bye") /\ network /\ StopNetwork /\ UNCHANGED sendVars

(* slip: no BYE after SIGINT *)
SigByeSilent == SigStep("bye", "done") /\ UNCHANGED << network, sendVars >>
SigBye  == SigStep("bye", "done") /\ SendBye /\ UNCHANGED network
SigStop == SigStep("run", "done") /\ ~network /\ UNCHANGED << network, sendVars >>

(* Input joins the stdin, receiver and signal threads and detaches the     *)
(* network thread: when it returns the process ends, whatever still runs.  *)
Exit ==
  /\ stdin = "done" /\ recv = "done" /\ sig = "done"
  /\ exited' = TRUE
  /\ UNCHANGED << inputVars, network, status, net, recv, sig, broken, sendVars, responses,
                  answers, serverVars >>
-----------------------------------------------------------------------------
(* The server (external): it answers each AUTH and JOIN with one REPLY,    *)
(* says what it likes, and may close the connection.  A MSG is well formed:*)
(* an invalid one changes nothing but what is shown.  What the server      *)
(* says once the network flag is down is never received, and left out.     *)
Make(m) ==
  /\ ~closed /\ network
  /\ stream' = stream \o [part \in 1..3 |-> [msg |-> m, part |-> part]]
  /\ UNCHANGED << inputVars, network, status, threadVars, sendVars, responses, answers,
                  closed >>

(* One thing at most is wrong with a message; a bad tail makes a difference *)
(* to a REPLY only.                                                        *)
Texts == IF Malformed THEN {"good", "tail", "first", "lead"} ELSE {"good"}

Unanswered(n) ==
  requests[n] \in {"AUTH", "JOIN"} /\ \A v \in verdicts : v[1] # n

ServerReply(n) ==
  /\ Unanswered(n)
  /\ \E result \in ReplyResults, text \in Texts :
       /\ result = "other" => text = "good"
       /\ Make([type |-> "REPLY", ref |-> n, result |-> result, name |-> TRUE, text |-> text])
       /\ verdicts' = verdicts \cup {<< n, result >>}
  /\ UNCHANGED said

ServerSay(type) ==
  /\ said < MaxSaid /\ said' = said + 1
  /\ \E name \in {TRUE, ~Malformed}, text \in Texts :
       /\ type # "ERR" => name /\ text = "good"
       /\ (name \/ text = "good") /\ text # "tail"
       /\ Make([type |-> type, ref |-> 0, result |-> "none", name |-> name, text |-> text])
  /\ UNCHANGED verdicts

ServerClose ==
  /\ ServerCloses /\ ~closed
  /\ closed' = TRUE
  /\ UNCHANGED << inputVars, network, status, threadVars, sendVars, responses, answers,
                  verdicts, said, stream >>
-----------------------------------------------------------------------------
(* receiverThreadTCP: one call of recv, taken for one message.  Its first  *)
(* word is known if the run begins with a message and holds all of the     *)
(* word; "BYE" only if its line end is not there as well.                  *)
Typed(run) ==
  /\ Len(run) >= 2 /\ run[1].part = 1
  /\ run[1].msg.type # "BAD"
  /\ run[1].msg.type = "BYE" => Len(run) = 2

(* parseMSG, parseERR and parseRespondAuth look at the name and at the     *)
(* first word of the text only.                                            *)
Parsed(m) ==
  /\ m.text \in {"good", "tail"}
  /\ IF m.type = "REPLY" THEN m.result \in {"ok", "nok"} ELSE m.name

(* extractMessageContent takes what follows the last " IS " of the run, if *)
(* a line end follows it; isValidContent of that                           *)
ContentAt(run) ==
  SelectLastInSeq(run, LAMBDA p : p.part = 2 /\ p.msg.type \notin {"BYE", "BAD"})

Content(run) ==
  LET last == ContentAt(run)
  IN  last # 0 /\ last < Len(run) /\ run[last].msg.text \in {"good", "lead"}

(* The receiver goes on: to the end of what it has started, or to the next *)
(* call of recv.                                                           *)
Receive(n, to) ==
  /\ recv = "run" /\ network
  /\ recv' = to
  /\ stream' = SubSeq(stream, n + 1, Len(stream))
  /\ UNCHANGED << inputVars, network, status, net, sig, exited, broken, answers, verdicts,
                  said, closed >>

(* An invalid message: ERR, BYE, and the end of the session *)
TakeInvalid(n) ==
  /\ ~Typed(SubSeq(stream, 1, n))
  /\ Receive(n, "bye")
  /\ SendMessage("ERR") /\ UNCHANGED responses

(* slip: an ERR is kept for the network thread, as a REPLY is *)
TakeErrKept(n) ==
  LET run == SubSeq(stream, 1, n) IN
  /\ Typed(run) /\ run[1].msg.type = "ERR" /\ Parsed(run[1].msg)
  /\ Receive(n, "run")
  /\ responses' = AddMessage(responses, [type |-> "ERR", msg |-> run[1].msg, content |-> Content(run)])
  /\ UNCHANGED sendVars

(* An ERR: BYE, and the end of the session *)
TakeErr(n) ==
  LET run == SubSeq(stream, 1, n) IN
  /\ Typed(run) /\ run[1].msg.type = "ERR" /\ Parsed(run[1].msg)
  /\ Receive(n, "bye")
  /\ UNCHANGED << sendVars, responses >>

(* A MSG is shown; one that is invalid, or comes before authentication, is *)
(* put into the buffer, where nothing looks for it, and so is a BYE.  What *)
(* is shown is left out.                                                   *)
TakeUnread(n) ==
  LET run == SubSeq(stream, 1, n) IN
  /\ Typed(run) /\ run[1].msg.type \in {"MSG", "BYE"}
  /\ Receive(n, "run")
  /\ UNCHANGED << sendVars, responses >>

(* A REPLY, or an invalid ERR, is kept for the network thread. *)
TakeResponse(n) ==
  LET run == SubSeq(stream, 1, n)
      m   == run[1].msg
  IN
  /\ Typed(run) /\ (m.type = "REPLY" \/ (m.type = "ERR" /\ ~Parsed(m)))
  /\ Receive(n, "run")
  /\ responses' = AddMessage(responses, [type |-> m.type, msg |-> m, content |-> Content(run)])
  /\ UNCHANGED sendVars

RecvStep(from, to) ==
  /\ recv = from /\ recv' = to
  /\ UNCHANGED << inputVars, status, net, sig, exited, broken, responses, answers, serverVars >>

(* slip: no BYE after an ERR *)
RecvByeSilent == RecvStep("bye", "close") /\ UNCHANGED << network, sendVars >>
RecvBye   == RecvStep("bye", "close") /\ SendBye /\ UNCHANGED network
RecvClose == RecvStep("close", "done") /\ StopNetwork /\ UNCHANGED sendVars
RecvStop  == RecvStep("run", "done") /\ ~network /\ UNCHANGED << network, sendVars >>

(* At the end of a closed stream recv returns 0, and the loop goes round.  *)
Take(n) == TakeInvalid(n) \/ TakeErr(n) \/ TakeUnread(n) \/ TakeResponse(n)
Receiver == (\E n \in 1..Len(stream) : Take(n)) \/ RecvBye \/ RecvClose \/ RecvStop
-----------------------------------------------------------------------------
(* networkCommunicationThread.  A step that moves the thread from one place *)
(* to another and leaves everything but its own variables alone             *)
NetStep(from, to) ==
  /\ net = from /\ net' = to
  /\ UNCHANGED << recv, sig, exited, broken, serverVars >>

NetQuiet(from, to) ==
  /\ NetStep(from, to)
  /\ UNCHANGED << inputVars, status, responses, answers >>

(* The head of the loop: the session has ended, or there is no line *)
NetStop == NetQuiet("loop", "close") /\ ~network /\ UNCHANGED << network, sendVars >>
NetNoLine ==
  /\ NetQuiet("loop", "foot") /\ network /\ lines = << >>
  /\ UNCHANGED << network, sendVars >>

(* The foot of the loop: at the end of input, BYE and out, whatever lines  *)
(* still wait.                                                             *)
NetGoOn == NetQuiet("foot", "loop") /\ ~stdinEof /\ UNCHANGED << network, sendVars >>
(* slip: the end of input not looked at *)
NetEofIgnored == NetQuiet("foot", "loop") /\ stdinEof /\ UNCHANGED << network, sendVars >>
NetEof   == NetQuiet("foot", "close") /\ stdinEof /\ SendBye /\ UNCHANGED network
NetClose == NetQuiet("close", "done") /\ StopNetwork /\ UNCHANGED sendVars

(* retrieveLine and parseLine *)
NextLine(line) == net = "loop" /\ network /\ FirstLine(line)
NetLine(to) == NetStep("loop", to) /\ RetrieveLine /\ UNCHANGED << network, responses, answers >>

(* An invalid line and /help are passed over; /rename is not, and goes on  *)
(* to the foot of the loop.                                                *)
LineWithoutMessage ==
  /\ \/ NextLine("NONE") /\ NetLine("loop")
     \/ NextLine("RENAME") /\ NetLine("foot")
  /\ UNCHANGED << status, sendVars >>

(* "You need to authenticate first", "You are already authenticated" *)
LineRefused ==
  /\ \/ status # "OPEN" /\ (NextLine("MSG") \/ NextLine("JOIN"))
     \/ status # "START" /\ NextLine("AUTH")
  /\ NetLine("loop")
  /\ UNCHANGED << status, sendVars >>

LineMsg ==
  /\ NextLine("MSG") /\ status = "OPEN"
  /\ NetLine("foot") /\ SendMessage("MSG") /\ UNCHANGED status

LineAuth ==
  /\ NextLine("AUTH") /\ status = "START"
  /\ NetLine("reply") /\ SendMessage("AUTH") /\ status' = "AUTH"

(* slip: the status not looked at *)
LineJoinUnchecked ==
  /\ NextLine("JOIN")
  /\ NetLine("reply") /\ SendMessage("JOIN") /\ UNCHANGED status

LineJoin ==
  /\ NextLine("JOIN") /\ status = "OPEN"
  /\ NetLine("reply") /\ SendMessage("JOIN") /\ UNCHANGED status

(* The request under way: the thread waits after an AUTH or a JOIN. *)
Asked == SelectLastInSeq(requests, LAMBDA kind : kind \in {"AUTH", "JOIN"})
-----------------------------------------------------------------------------
(* The wait for a REPLY or ERR.  What a response does to the status and    *)
(* where the thread goes then: to the foot of the loop - after an AUTH by  *)
(* way of a last look for an ERR -, through a BYE to the foot, or through  *)
(* a BYE out of the loop.                                                  *)
Found(type) == HasType(responses, type)

Granted(r) == Parsed(r.msg) /\ r.msg.type = "REPLY" /\ r.msg.result = "ok"
Denied(r)  == Parsed(r.msg) /\ r.msg.type = "REPLY" /\ r.msg.result = "nok"

(* slips: the verdict not looked at; a state ERR that nothing leaves *)
JudgeAuthAny(r) == status' = "OPEN" /\ net' = "late"
JudgeAuthError(r) ==
  /\ status' = IF Granted(r) THEN "OPEN" ELSE "ERR"
  /\ net' = IF Granted(r) THEN "late" ELSE "bye"

JudgeAuth(r) ==
  \/ Granted(r) /\ status' = "OPEN" /\ net' = "late"
  \/ Denied(r) /\ status' = "START" /\ net' = "late"
  \/ ~Granted(r) /\ ~Denied(r) /\ net' = "bye" /\ UNCHANGED status

(* A refused JOIN puts the client back to START. *)
JudgeJoin(r) ==
  LET named == r.msg.type = "REPLY" \/ r.msg.name
      rightly == named /\ r.content
  IN
  \/ rightly /\ Granted(r) /\ status' = "OPEN" /\ net' = "foot"
  \/ rightly /\ Denied(r) /\ status' = "START" /\ net' = "foot"
  \/ rightly /\ ~Granted(r) /\ ~Denied(r) /\ net' = "bye" /\ UNCHANGED status
  \/ ~rightly /\ net' = "byeBreak" /\ UNCHANGED status

Judge(type) ==
  LET r == MessageByID(responses, type) IN
  /\ Found(type)
  /\ IF requests[Asked] = "AUTH" THEN JudgeAuth(r) ELSE JudgeJoin(r)
  /\ responses' = Taken(responses, type)
  /\ answers' = IF type = "REPLY" THEN answers \cup {<< Asked, r.msg.ref >>} ELSE answers
  /\ UNCHANGED << inputVars, network, recv, sig, exited, broken, sendVars, serverVars >>

NotFound(type, from, to) ==
  NetQuiet(from, to) /\ ~Found(type) /\ UNCHANGED << network, sendVars >>

NetReply == (net = "reply" /\ Judge("REPLY")) \/ NotFound("REPLY", "reply", "err")
NetErr   == (net = "err" /\ Judge("ERR")) \/ NotFound("ERR", "err", "idle")

(* The pause of 100 ms, and the end of the time for the response *)
NetPoll == NetQuiet("idle", "reply") /\ UNCHANGED << network, sendVars >>
(* slip: the time is never over *)
NetTimeoutRepeats == NetQuiet("idle", "reply") /\ UNCHANGED << network, sendVars >>
NetTimeout == NetQuiet("idle", "byeTimeout") /\ StopNetwork /\ UNCHANGED sendVars

(* The last look after an AUTH *)
NetLate ==
  \/ NotFound("ERR", "late", "foot")
  \/ /\ Found("ERR") /\ NetStep("late", "bye")
     /\ responses' = Taken(responses, "ERR")
     /\ UNCHANGED << inputVars, network, status, answers, sendVars >>

(* A BYE that leaves only the wait, and one that leaves the loop as well *)
NetBye ==
  /\ \/ NetQuiet("bye", "foot") \/ NetQuiet("byeTimeout", "foot") \/ NetQuiet("byeBreak", "close")
  /\ SendBye /\ UNCHANGED network

NetLines == LineWithoutMessage \/ LineRefused \/ LineMsg \/ LineAuth \/ LineJoin
NetWait  == NetReply \/ NetErr \/ NetPoll \/ NetTimeout \/ NetLate
Network  == NetStop \/ NetNoLine \/ NetGoOn \/ NetEof \/ NetClose \/ NetLines \/ NetWait \/ NetBye
-----------------------------------------------------------------------------
(* A send may fail at any time and then ends the process: with exit(3), as *)
(* the socket does not block and its buffer may be full, or, when the      *)
(* server has closed the connection, by SIGPIPE as well.                   *)
AboutToSend ==
  \/ sig = "bye" \/ recv = "bye"
  \/ recv = "run" /\ network /\ \E n \in 1..Len(stream) : ~Typed(SubSeq(stream, 1, n))
  \/ net \in {"bye", "byeBreak", "byeTimeout"} \/ (net = "foot" /\ stdinEof)
  \/ (NextLine("MSG") \/ NextLine("JOIN")) /\ status = "OPEN"
  \/ NextLine("AUTH") /\ status = "START"

SendFails ==
  /\ AboutToSend
  /\ broken' = TRUE /\ exited' = TRUE
  /\ UNCHANGED << inputVars, network, status, net, recv, sig, sendVars, responses, answers,
                  serverVars >>

Signal == SigInt \/ SigBye \/ SigStop
Server == \/ \E n \in DOMAIN requests : ServerReply(n)
          \/ \E type \in ServerSays : ServerSay(type)
          \/ ServerClose

Running == Stdin \/ Signal \/ Network \/ Receiver \/ Server \/ Exit \/ SendFails

(* After main has returned nothing moves. *)
Ended == exited /\ UNCHANGED vars
Next  == (~exited /\ Running) \/ Ended

Spec == Init /\ [][Next]_vars

(* Every thread of the client that can go on does; the clock that bounds   *)
(* the wait goes on as well, however often the thread polls meanwhile.     *)
(* Nothing is assumed of the user, of SIGINT or of the server.             *)
Fairness ==
  /\ WF_vars(Network /\ ~exited)
  /\ SF_vars(NetTimeout /\ ~exited)
  /\ WF_vars(Receiver /\ ~exited)
  /\ WF_vars(StdinGoesOn /\ ~exited)
  /\ WF_vars((SigBye \/ SigStop) /\ ~exited)
  /\ WF_vars(Exit /\ ~exited)

FairSpec == Spec /\ Fairness
-----------------------------------------------------------------------------
(* The client over TCP keeps a chat session (ChatSession), where a refused *)
(* JOIN ends the authentication: whatever the stream is cut into, nothing  *)
(* but AUTH and ERR goes out before an AUTH was granted, and the status    *)
(* follows verdicts on the latest AUTH and JOIN only - until a BYE is said.*)
Session == INSTANCE ChatSession WITH
  JoinRefusalLogsOut <- TRUE, phase <- status, over <- goodbye

ImplementsChatSession == Session!CSSpec

(* Between two commands of a session that goes on no verdict is lost: the  *)
(* client believes it is authenticated exactly if the server's last        *)
(* verdict was good.                                                       *)
LastVerdict(result) ==
  \E v \in verdicts : v[2] = result /\ \A w \in verdicts : w[1] <= v[1]

SessionsAgree ==
  net \in {"loop", "foot"} /\ network /\ ~goodbye =>
    /\ status # "AUTH"
    /\ status = "OPEN" <=> LastVerdict("ok")

(* A REPLY is taken for the request it answers, although it does not name  *)
(* one: no REPLY stays behind in the buffer or the stream.  Not so once a  *)
(* BYE is said: a BYE that leaves only the wait (an ERR whose text begins  *)
(* with a space, after a JOIN) leaves the REPLY for the next request.      *)
RepliesMatch == goodbye \/ \A pair \in answers : pair[1] = pair[2]

(* The process ends without a BYE only in two ways: a send has failed, or  *)
(* main overtakes the network thread between the timeout, which lowers the *)
(* flag, and the BYE that follows.                                         *)
ByeBeforeExit == exited => goodbye \/ broken \/ net = "byeTimeout"

(* The wait for a response ends, whatever arrives or does not.             *)
ReplyWaitEnds == net \in {"reply", "err", "idle"} ~> net \in {"loop", "close", "done"} \/ exited

(* An ERR with a valid name and text, or a BYE, ends the client however    *)
(* recv cuts it - if it is next in the stream.  One that shares a recv     *)
(* with a message in front of it is not seen.                              *)
ServerEnds ==
  /\ stream # << >> /\ Head(stream).part = 1
  /\ LET m == Head(stream).msg IN m.type = "BYE" \/ (m.type = "ERR" /\ Parsed(m))

ErrEnds == ServerEnds ~> exited

(* Once the session is over the process ends. *)
CloseExits == ~network ~> exited

(* The end of input after a newline exits the client. *)
EofExits == stdinEof /\ lastLine = "" ~> exited
=============================================================================
