----------------------------- MODULE UdpClient -----------------------------
(***************************************************************************)
(* The whole client in UDP mode: TcpUdp::Input(2) with its four threads -  *)
(* network, receiver, stdin and signal - and the confirm threads they      *)
(* start, over the shared state of class TcpUdp, class InputBuffer and     *)
(* class ResponseBuffer.                                                   *)
(*                                                                         *)
(* The module extends ConfirmedSend: every step here is a step of that     *)
(* module, or leaves its variables alone.  The network and the receiver    *)
(* thread are its callers.  Each thread has a program counter named after  *)
(* what it does next; a thread's step ends where another thread can see or *)
(* disturb what it does.  Texts are abstracted to "valid" (isValidDName    *)
(* and isValidContent both hold) or not; the server's datagrams come in    *)
(* any order, late, never, or more than once.  Operators marked "slip" are *)
(* wrong variants of the one that follows, which the checks detect.        *)
(***************************************************************************)
EXTENDS ConfirmedSend, StdinReader, ResponseBuffer, UdpWire

CONSTANTS
  NetworkThread, ReceiverThread,
  ServerSays,    \* types of the datagrams the server sends unasked
  ReplyResults,  \* result bytes of its REPLYs
  MaxSaid,       \* bound on the datagrams the server sends unasked
  MaxCopies,     \* copies of a datagram of the server that may arrive
  Malformed      \* may names and contents of the server be invalid?

ASSUME CallersAssumption ==
  /\ Callers = {NetworkThread, ReceiverThread}
  /\ NetworkThread # ReceiverThread

ASSUME ServerAssumption ==
  /\ ServerSays \subseteq {"MSG", "ERR", "BYE", "BAD"}
  /\ ReplyResults \subseteq {"ok", "nok", "other"}
  /\ MaxSaid \in Nat /\ MaxCopies \in Nat \ {0}
  /\ Malformed \in BOOLEAN

VARIABLES
  status,     \* CurrentStatus
  net,        \* place of the network thread
  todo,       \* what_to_do: 0 undecided, 1 continue, 2 break
  heldErr,    \* the pointers err and bye of the JOIN branch
  heldBye,
  recv,       \* place of the receiver thread
  sig,        \* place of the signal thread
  exited,     \* main has returned from Input
  responses,  \* ResponseBuffer::messageBuffer, CONFIRMs apart
  acks,       \* identifier bytes of the CONFIRMs the client has sent
  requests,   \* the kind of each message sent, by its number
  answers,    \* which REPLY (by ref) was taken for which request
  made,       \* datagrams the server has made
  fromServer  \* copies of them on their way to the client

netVars    == << status, net, todo, heldErr, heldBye, answers >>
serverVars == << made, fromServer >>
clientVars == << inputVars, netVars, recv, sig, exited, responses, acks,
                 requests, serverVars >>
vars       == << coreVars, clientVars >>

(* A datagram of the server.  BAD has an unknown type byte; ref and result *)
(* are those of a REPLY: the number of the request, 0 and "none" otherwise.*)
Datagrams ==
  [type : {"REPLY", "MSG", "ERR", "BYE", "BAD"}, id : IDs, valid : BOOLEAN,
   ref : Nums, result : {"ok", "nok", "other", "none"}]
NoDatagram == [type |-> "NONE", id |-> 0, valid |-> TRUE, ref |-> 0, result |-> "none"]

NetPlaces ==
  {"loop", "eof", "waitMsg", "msgErr", "msgBye", "waitAuth", "authReply", "authErr",
   "authErrBye", "authLate", "waitJoin", "joinReply", "joinErr", "joinBye", "bye", "again",
   "leave", "close", "stuck", "done"}

ClientTypeOK ==
  /\ InputTypeOK
  /\ status \in {"START", "AUTH", "OPEN"}
  /\ net \in NetPlaces /\ todo \in 0..2
  /\ heldErr \in Datagrams \cup {NoDatagram} /\ heldBye \in Datagrams \cup {NoDatagram}
  /\ recv \in {"run", "wait", "bye", "stop", "unlock", "clear", "done"}
  /\ sig \in {"run", "bye", "done"} /\ exited \in BOOLEAN
  /\ responses \in Seq(Datagrams) /\ acks \subseteq Bytes \X Bytes
  /\ requests \in Seq({"AUTH", "JOIN", "MSG", "ERR"}) /\ Len(requests) = sends
  /\ answers \subseteq Nums \X Nums
  /\ made \subseteq Datagrams /\ IsABag(fromServer) /\ BagToSet(fromServer) \subseteq made

(* main starts the threads with network active, in state START. *)
Init ==
  /\ CoreInit /\ InputInit
  /\ status = "START" /\ net = "loop" /\ todo = 0
  /\ heldErr = NoDatagram /\ heldBye = NoDatagram /\ answers = {}
  /\ recv = "run" /\ sig = "run" /\ exited = FALSE
  /\ responses = << >> /\ acks = {} /\ requests = << >>
  /\ made = {} /\ fromServer = EmptyBag
-----------------------------------------------------------------------------
(* stdinReaderThread: it reads while the network is active. *)
StdinOnly == UNCHANGED << coreVars, netVars, recv, sig, exited, responses, acks,
                          requests, serverVars >>

StdinGoesOn == ((network /\ ReadAgain) \/ (~network /\ StdinStop)) /\ StdinOnly

Stdin ==
  \/ network /\ ((\E line \in Commands : ReadLine(line)) \/ ReadEof) /\ StdinOnly
  \/ StdinGoesOn
-----------------------------------------------------------------------------
(* signalHandlerThread: SIGINT ends the session, and then says BYE. *)
SigInt ==
  /\ "SIGINT" \in UserEnds
  /\ sig = "run" /\ network
  /\ StopNetwork
  /\ sig' = "bye"
  /\ UNCHANGED << inputVars, netVars, recv, exited, responses, acks, requests,
                  serverVars >>

(* slip: no BYE after SIGINT *)
SigByeSilent ==
  /\ sig = "bye"
  /\ sig' = "done"
  /\ UNCHANGED << coreVars, inputVars, netVars, recv, exited, responses, acks,
                  requests, serverVars >>

SigBye ==
  /\ sig = "bye"
  /\ SendBye
  /\ sig' = "done"
  /\ UNCHANGED << inputVars, netVars, recv, exited, responses, acks, requests,
                  serverVars >>

SigStop ==
  /\ sig = "run" /\ ~network
  /\ sig' = "done"
  /\ UNCHANGED << coreVars, inputVars, netVars, recv, exited, responses, acks,
                  requests, serverVars >>

(* Input joins the signal, stdin and receiver threads and detaches the     *)
(* network thread: when it returns the process ends, whatever still runs.  *)
Exit ==
  /\ sig = "done" /\ stdin = "done" /\ recv = "done"
  /\ exited' = TRUE
  /\ UNCHANGED << coreVars, inputVars, netVars, recv, sig, responses, acks,
                  requests, serverVars >>
-----------------------------------------------------------------------------
(* The server (external): it makes datagrams, numbers them, and answers an *)
(* AUTH or JOIN it has got with one REPLY.  Receiving is ConfirmedSend's   *)
(* Transmit, which also makes the CONFIRM.                                 *)
Make(d) ==
  /\ made' = made \cup {d}
  /\ fromServer' = fromServer (+) [e \in {d} |-> MaxCopies]
  /\ UNCHANGED << coreVars, inputVars, netVars, recv, sig, exited, responses,
                  acks, requests >>

ServerID   == Cardinality(made) % 2^16
Validities == {TRUE, ~Malformed}

Unanswered(n) ==
  requests[n] \in {"AUTH", "JOIN"} /\ \A d \in made : d.type = "REPLY" => d.ref # n

ServerReply(n) ==
  /\ n \in received /\ Unanswered(n)
  /\ \E result \in ReplyResults, valid \in Validities :
       Make([type |-> "REPLY", id |-> ServerID, valid |-> valid,
             ref |-> n, result |-> result])

ServerSay(type) ==
  /\ Cardinality({d \in made : d.type # "REPLY"}) < MaxSaid
  /\ \E valid \in Validities :
    /\ type = "BYE" => valid
    /\ Make([type |-> type, id |-> ServerID, valid |-> valid,
             ref |-> 0, result |-> "none"])
-----------------------------------------------------------------------------
(* sendMessageUDP, from a thread that goes on to wait *)
SendMessage(k, kind) ==
  /\ \E c \in ConfThreads : Send(k, c)
  /\ requests' = Append(requests, kind)

(* receiverThreadUDP: it takes what arrives while the network is active. *)
Take(d) ==
  /\ recv = "run" /\ network
  /\ BagIn(d, fromServer)
  /\ fromServer' = fromServer (-) SetToBag({d})

ConfirmAsReceiver(d) ==
  acks' = acks \cup {ReceiverConfirm(ShortToBytes(d.id))}

(* A CONFIRM goes to the response buffer. *)
TakeConfirm(id) ==
  /\ recv = "run" /\ network
  /\ ReceiveConfirm(id)
  /\ UNCHANGED clientVars

(* REPLY, ERR and BYE too, whatever the status: the network thread reads   *)
(* them when a command of the user makes it look.                          *)
TakeResponse(d) ==
  /\ d.type \in {"REPLY", "ERR", "BYE"}
  /\ Take(d)
  /\ responses' = AddMessage(responses, d)
  /\ UNCHANGED << coreVars, inputVars, netVars, recv, sig, exited, acks,
                  requests, made >>

(* A MSG is confirmed and shown - before authentication it is buffered,    *)
(* and nothing ever looks for it.                                          *)
TakeMsg(d) ==
  /\ d.type = "MSG" /\ (d.valid \/ status = "START")
  /\ Take(d)
  /\ IF status = "START" THEN UNCHANGED acks ELSE ConfirmAsReceiver(d)
  /\ UNCHANGED << coreVars, inputVars, netVars, recv, sig, exited, responses,
                  requests, made >>

(* An unknown type, or a MSG whose name or content is invalid: confirmed,  *)
(* and reported by handleErrFromServerUDP.                                 *)
TakeInvalid(d) ==
  /\ d.type = "BAD" \/ (d.type = "MSG" /\ ~d.valid /\ status # "START")
  /\ Take(d)
  /\ ConfirmAsReceiver(d)
  /\ SendMessage(ReceiverThread, "ERR")
  /\ recv' = "wait"
  /\ UNCHANGED << inputVars, netVars, sig, exited, responses, made >>

(* handleErrFromServerUDP in the receiver thread, which reads no datagram  *)
(* in the meantime: it waits, says BYE, ends the session and unlocks.      *)
RecvStep(from, to) ==
  /\ recv = from /\ recv' = to
  /\ UNCHANGED << inputVars, netVars, sig, exited, acks, requests, serverVars >>

RecvWake   == RecvStep("wait", "bye")     /\ Wake(ReceiverThread) /\ UNCHANGED responses
RecvBye    == RecvStep("bye", "stop")     /\ SendBye /\ UNCHANGED responses
RecvClose  == RecvStep("stop", "unlock")  /\ StopNetwork /\ UNCHANGED responses
RecvUnlock == RecvStep("unlock", "clear") /\ Unlock(ReceiverThread) /\ UNCHANGED responses

(* The loop ends with the session; either way the buffer is cleared. *)
RecvStop  == RecvStep("run", "clear") /\ ~network /\ UNCHANGED << coreVars, responses >>
RecvClear == RecvStep("clear", "done") /\ ClearBuffer /\ responses' = << >>

Receiver == RecvWake \/ RecvBye \/ RecvClose \/ RecvUnlock \/ RecvStop \/ RecvClear
-----------------------------------------------------------------------------
(* networkCommunicationThread.  A step that moves the thread from one place *)
(* to another and leaves everything but its own variables alone             *)
NetStep(from, to) ==
  /\ net = from /\ net' = to
  /\ UNCHANGED << inputVars, recv, sig, exited, serverVars >>

(* The same, with nothing sent, said or looked up *)
NetQuiet(from, to) == NetStep(from, to) /\ UNCHANGED << acks, responses, requests, answers >>

NetOnly == UNCHANGED << status, todo, heldErr, heldBye >>

(* The head of the loop: the session has ended, or there is no line *)
NetStop == NetQuiet("loop", "done") /\ ~network /\ NetOnly /\ UNCHANGED coreVars
NetIdle ==
  /\ NetQuiet("loop", "eof") /\ network /\ lines = << >>
  /\ NetOnly /\ UNCHANGED coreVars

(* The foot of the loop: at the end of input, BYE and out *)
(* slip: no BYE at the end of input *)
NetEofSilent ==
  NetQuiet("eof", IF stdinEof THEN "close" ELSE "loop") /\ UNCHANGED coreVars /\ NetOnly

NetEof ==
  /\ NetQuiet("eof", IF stdinEof THEN "close" ELSE "loop")
  /\ IF stdinEof THEN SendBye ELSE UNCHANGED coreVars
  /\ NetOnly

NetClose == NetQuiet("close", "done") /\ StopNetwork /\ NetOnly

(* retrieveLine and parseLine *)
NextLine(line) == net = "loop" /\ network /\ FirstLine(line)

NetLine(to) ==
  /\ net' = to
  /\ RetrieveLine
  /\ UNCHANGED << recv, sig, exited, serverVars, todo, heldErr, heldBye, answers,
                  acks, responses >>

(* An invalid line and /help are passed over; /rename is not, and goes on  *)
(* to the check for the end of input.                                      *)
LineWithoutMessage ==
  /\ \/ NextLine("NONE") /\ NetLine("loop")
     \/ NextLine("RENAME") /\ NetLine("eof")
  /\ UNCHANGED << coreVars, status, requests >>

(* "You need to authenticate first", "You are already authenticated" *)
LineRefused ==
  /\ \/ status # "OPEN" /\ (NextLine("MSG") \/ NextLine("JOIN"))
     \/ status # "START" /\ NextLine("AUTH")
  /\ NetLine("loop")
  /\ UNCHANGED << coreVars, status, requests >>

(* slip: the status not looked at *)
LineMsgUnchecked ==
  /\ NextLine("MSG")
  /\ SendMessage(NetworkThread, "MSG")
  /\ NetLine("waitMsg")
  /\ UNCHANGED status

LineMsg ==
  /\ NextLine("MSG") /\ status = "OPEN"
  /\ SendMessage(NetworkThread, "MSG")
  /\ NetLine("waitMsg")
  /\ UNCHANGED status

(* slip: AUTH sent again by who is authenticated *)
LineAuthAgain ==
  /\ NextLine("AUTH") /\ status # "AUTH"
  /\ SendMessage(NetworkThread, "AUTH")
  /\ status' = "AUTH"
  /\ NetLine("waitAuth")

LineAuth ==
  /\ NextLine("AUTH") /\ status = "START"
  /\ SendMessage(NetworkThread, "AUTH")
  /\ status' = "AUTH"
  /\ NetLine("waitAuth")

LineJoin ==
  /\ NextLine("JOIN") /\ status = "OPEN"
  /\ SendMessage(NetworkThread, "JOIN")
  /\ NetLine("waitJoin")
  /\ UNCHANGED status

(* confirmCondition.wait returns; the lookups begin. *)
NetWake ==
  /\ \/ NetQuiet("waitMsg", "msgErr")
     \/ NetQuiet("waitAuth", "authReply")
     \/ NetQuiet("waitJoin", "joinReply")
  /\ Wake(NetworkThread)
  /\ todo' = 0 /\ heldErr' = NoDatagram /\ heldBye' = NoDatagram
  /\ UNCHANGED status

(* Leaving a command: sendByeUDP, the end of the lock's scope *)
NetBye   == NetQuiet("bye", "leave") /\ SendBye /\ NetOnly
NetLeave == NetQuiet("leave", "close") /\ Unlock(NetworkThread) /\ NetOnly
(* slip: the lock outlives the command it was taken for *)
NetAgainLocked ==
  /\ NetQuiet("again", "loop") /\ NetOnly
  /\ caller' = [caller EXCEPT ![NetworkThread] = [state |-> "running", num |-> 0]]
  /\ UNCHANGED << sentID, sends, conf, confirmMutex, confirmReceived, confirms,
                  inflight, received, failed, byes, network >>
NetAgain == NetQuiet("again", "loop") /\ Unlock(NetworkThread) /\ NetOnly

(* A lookup by type that finds a datagram or does not.  The network thread *)
(* confirms what it takes; the datagram goes from the buffer unless it is  *)
(* reported as invalid by handleErrFromServerUDP.                          *)
Found(type)   == HasType(responses, type)
Oldest(type)  == MessageByID(responses, type)
ConfirmAsNetwork(d) ==
  acks' = acks \cup {NetworkConfirm(ShortToBytes(d.id))}

Looked(from, to) == NetQuiet(from, to) /\ UNCHANGED << coreVars, status, heldErr, heldBye >>

Handled(d, from, to) ==
  /\ NetStep(from, to)
  /\ ConfirmAsNetwork(d)
  /\ responses' \in RemoveMessage(responses, d)
  /\ UNCHANGED << coreVars, requests >>

(* handleErrFromServerUDP in the network thread, which owns confirmMutex:  *)
(* the ERR is handed to a thread that needs the mutex, and so does the     *)
(* wait that follows.  A second lock of a std::mutex blocks for ever.      *)
ReportInvalid(d, from) ==
  /\ NetStep(from, "stuck")
  /\ ConfirmAsNetwork(d)
  /\ \E c \in ConfThreads : SendWhileHolding(NetworkThread, c)
  /\ requests' = Append(requests, "ERR")
  /\ UNCHANGED << responses, todo, heldErr, heldBye >>

Answer(d) == answers' = answers \cup {<< caller[NetworkThread].num, d.ref >>}
-----------------------------------------------------------------------------
(* After a MSG: one look for an ERR, one for a BYE *)
MsgErr ==
  LET err == Oldest("ERR") IN
  \/ ~Found("ERR") /\ Looked("msgErr", "msgBye") /\ UNCHANGED todo
  \/ Found("ERR") /\ err.valid /\ Handled(err, "msgErr", "bye") /\ NetOnly /\ UNCHANGED answers
  \/ Found("ERR") /\ ~err.valid /\ ReportInvalid(err, "msgErr") /\ UNCHANGED << status, answers >>

MsgBye ==
  \/ ~Found("BYE") /\ Looked("msgBye", "again") /\ UNCHANGED todo
  \/ Found("BYE") /\ Handled(Oldest("BYE"), "msgBye", "bye") /\ NetOnly /\ UNCHANGED answers

(* slips: the result byte not looked at; a state ERR that nothing leaves *)
StatusAfterAny(reply)   == "OPEN"
StatusAfterError(reply) == IF reply.result = "ok" THEN "OPEN" ELSE "ERR"

StatusAfter(reply) == IF reply.result = "ok" THEN "OPEN" ELSE "START"

(* After an AUTH: a REPLY, an ERR, or the end of the time for them *)
AuthReply ==
  LET reply == Oldest("REPLY")
      accepted == reply.valid \/ reply.result = "other"
  IN
  \/ ~Found("REPLY") /\ Looked("authReply", "authErr") /\ UNCHANGED todo
  \/ /\ Found("REPLY") /\ accepted
     /\ Handled(reply, "authReply", "authErr")
     /\ Answer(reply)
     /\ status' = StatusAfter(reply) /\ todo' = 1
     /\ UNCHANGED << heldErr, heldBye >>
  \/ /\ Found("REPLY") /\ ~accepted
     /\ ReportInvalid(reply, "authReply")
     /\ Answer(reply)
     /\ status' = IF reply.result = "ok" THEN "OPEN" ELSE status

AuthErr ==
  LET err == Oldest("ERR") IN
  \/ /\ ~Found("ERR")
     /\ Looked("authErr", IF todo = 0 THEN "authReply" ELSE "authLate")
     /\ UNCHANGED todo
  \/ /\ Found("ERR") /\ err.valid
     /\ Handled(err, "authErr", "authErrBye")
     /\ todo' = 2
     /\ UNCHANGED << status, heldErr, heldBye, answers >>
  \/ Found("ERR") /\ ~err.valid /\ ReportInvalid(err, "authErr") /\ UNCHANGED << status, answers >>

(* slip: the time is over, what_to_do stays 0 *)
AuthTimeoutRepeats ==
  /\ todo = 0 /\ ~Found("ERR")
  /\ NetQuiet("authErr", "authReply")
  /\ UNCHANGED << coreVars, todo, status, heldErr, heldBye >>

(* "Timeout of reply reached": BYE, and on to the last look *)
AuthTimeout ==
  /\ todo = 0 /\ ~Found("ERR")
  /\ NetQuiet("authErr", "authErrBye")
  /\ todo' = 2
  /\ UNCHANGED << coreVars, status, heldErr, heldBye >>

AuthErrBye == NetQuiet("authErrBye", "authLate") /\ SendBye /\ NetOnly

(* slip: no second look for an ERR *)
AuthLateSkipped == Looked("authLate", IF todo = 1 THEN "again" ELSE "leave") /\ UNCHANGED todo

(* 300 ms later, one more look for an ERR.  With an ERR handled there, the *)
(* session ends even after a good REPLY.                                   *)
AuthLate ==
  LET err == Oldest("ERR") IN
  \/ /\ ~Found("ERR")
     /\ Looked("authLate", IF todo = 1 THEN "again" ELSE "leave")
     /\ UNCHANGED todo
  \/ /\ Found("ERR") /\ err.valid
     /\ Handled(err, "authLate", "bye")
     /\ todo' = 2
     /\ UNCHANGED << status, heldErr, heldBye, answers >>
  \/ Found("ERR") /\ ~err.valid /\ ReportInvalid(err, "authLate") /\ UNCHANGED << status, answers >>
-----------------------------------------------------------------------------
(* After a JOIN: a REPLY; or an ERR or a BYE, which is handled when the    *)
(* loop comes round with the pointer in hand.  There is no time limit.     *)
JoinReply ==
  LET reply == Oldest("REPLY") IN
  \/ ~Found("REPLY") /\ Looked("joinReply", "joinErr") /\ UNCHANGED todo
  \/ /\ Found("REPLY")
     /\ Handled(reply, "joinReply", IF reply.result = "other" THEN "bye" ELSE "again")
     /\ Answer(reply)
     /\ NetOnly

(* What a pointer taken earlier points at: the receiver thread may have    *)
(* freed it when it cleared the buffer, and its contents are then anything.*)
StillValid(held) == IF held \in ToSet(responses) THEN {held.valid} ELSE BOOLEAN

JoinErr ==
  \/ /\ heldErr = NoDatagram
     /\ NetQuiet("joinErr", "joinBye")
     /\ heldErr' = IF Found("ERR") THEN Oldest("ERR") ELSE NoDatagram
     /\ UNCHANGED << coreVars, status, todo, heldBye >>
  \/ /\ heldErr # NoDatagram /\ TRUE \in StillValid(heldErr)
     /\ Handled(heldErr, "joinErr", "bye")
     /\ NetOnly /\ UNCHANGED answers
  \/ /\ heldErr # NoDatagram /\ FALSE \in StillValid(heldErr)
     /\ ReportInvalid(heldErr, "joinErr")
     /\ UNCHANGED << status, answers >>

JoinBye ==
  \/ /\ heldBye = NoDatagram
     /\ NetQuiet("joinBye", "joinReply")
     /\ heldBye' = IF Found("BYE") THEN Oldest("BYE") ELSE NoDatagram
     /\ UNCHANGED << coreVars, status, todo, heldErr >>
  \/ /\ heldBye # NoDatagram
     /\ Handled(heldBye, "joinBye", "bye")
     /\ NetOnly /\ UNCHANGED answers

NetLines == LineWithoutMessage \/ LineRefused \/ LineMsg \/ LineAuth \/ LineJoin
NetAuth  == AuthReply \/ AuthErr \/ AuthTimeout \/ AuthErrBye \/ AuthLate
Network  == \/ NetStop \/ NetIdle \/ NetEof \/ NetClose \/ NetLines \/ NetWake
            \/ NetBye \/ NetLeave \/ NetAgain \/ MsgErr \/ MsgBye \/ NetAuth
            \/ JoinReply \/ JoinErr \/ JoinBye
-----------------------------------------------------------------------------
ConfirmThread(c) == ConfStep(c) /\ UNCHANGED clientVars
Server == \/ \E n \in received : ServerReply(n)
          \/ \E type \in ServerSays : ServerSay(type)
Signal == SigInt \/ SigBye \/ SigStop
Arrival == \/ \E id \in inflight : TakeConfirm(id)
           \/ \E d \in BagToSet(fromServer) : TakeResponse(d) \/ TakeMsg(d) \/ TakeInvalid(d)

Running == \/ Stdin \/ Signal \/ Network \/ Arrival \/ Receiver \/ Server \/ Exit
           \/ \E c \in ConfThreads : ConfirmThread(c)

(* After main has returned nothing moves. *)
Ended == exited /\ UNCHANGED vars
Next  == (~exited /\ Running) \/ Ended

Spec == Init /\ [][Next]_vars

(* Every thread of the client that can go on does; the clock that bounds   *)
(* the wait for a REPLY to an AUTH goes on as well, however often the      *)
(* thread polls meanwhile.  Nothing is assumed of the user, of SIGINT, of  *)
(* the network or of the server.                                           *)
Fairness ==
  /\ WF_vars(Network /\ ~exited)
  /\ SF_vars(AuthTimeout /\ ~exited)
  /\ WF_vars(Receiver /\ ~exited)
  /\ WF_vars(StdinGoesOn /\ ~exited)
  /\ WF_vars((SigBye \/ SigStop) /\ ~exited)
  /\ WF_vars(Exit /\ ~exited)
  /\ \A c \in ConfThreads : WF_vars(ConfirmThread(c) /\ ~exited)

FairSpec == Spec /\ Fairness
-----------------------------------------------------------------------------
(* The client takes part in confirmed sending by the rules of that module: *)
(* what is checked and proved of ConfirmedSend holds of the whole client.  *)
CoreSteps == CoreSpec

(* The client over UDP keeps a chat session (ChatSession), where a refused *)
(* JOIN changes nothing: however slow or lossy the network, nothing but    *)
(* AUTH and ERR goes out before an AUTH was granted, and the status        *)
(* follows verdicts of the server on the latest AUTH only - even after a   *)
(* BYE of a confirm thread, which the other threads do not see at once.    *)
Verdicts == {<< d.ref, d.result >> : d \in {e \in made : e.type = "REPLY"}}

Session == INSTANCE ChatSession WITH
  JoinRefusalLogsOut <- FALSE, phase <- status, verdicts <- Verdicts, over <- FALSE

ImplementsChatSession == Session!CSSpec

AuthAccepted(d) ==
  d.type = "REPLY" /\ d.result = "ok" /\ requests[d.ref] = "AUTH"

(* The client believes that it is authenticated only if the server has     *)
(* said so in a REPLY to an AUTH; and nothing but an AUTH or an ERR has    *)
(* reached the server before it said so.                                   *)
NothingBeforeOpen ==
  /\ status = "OPEN" => \E d \in made : AuthAccepted(d)
  /\ \A n \in received : requests[n] \in {"MSG", "JOIN"} =>
       \E d \in made : AuthAccepted(d) /\ d.ref < n

(* Between two commands of a session that goes on, client and server agree *)
(* whether the user is authenticated: no verdict is lost or taken twice.   *)
SessionsAgree ==
  net \in {"loop", "eof"} /\ network =>
    /\ status # "AUTH"
    /\ status = "OPEN" <=> \E d \in made : AuthAccepted(d)

(* The session is never closed without a word: once the network flag is    *)
(* down a BYE has been sent, or the signal thread is about to send it (and *)
(* main waits for that thread).                                            *)
GoodbyeBeforeClose == ~network => byes # {} \/ sig = "bye"

(* A REPLY is taken for the request it answers. *)
RepliesMatch == \A pair \in answers : pair[1] = pair[2]

(* The wait for the REPLY to an AUTH ends in every case: the network       *)
(* thread is back at its loop, on its way out, or the process has ended.   *)
AuthEnds ==
  net \in {"waitAuth", "authReply", "authErr"} ~>
     net \in {"loop", "close", "done", "stuck"} \/ exited

(* An ERR of the server ends the session if it is in the buffer by the     *)
(* last look for one that a MSG or an AUTH takes: also one that comes      *)
(* while the thread handles the REPLY, after the looks of the wait.        *)
LookToCome ==
  {"waitMsg", "msgErr", "waitAuth", "authReply", "authErr", "authErrBye", "authLate"}

ErrNoticed ==
  net \in LookToCome /\ (\E d \in ToSet(responses) : d.type = "ERR") ~> ~network

(* Once the session is over - SIGINT, the end of input, loss, ERR or BYE - *)
(* the process ends.                                                       *)
CloseExits == ~network ~> exited

(* What README.md says of CTRL/COMMAND + D: it exits the client. *)
EofExits == stdinEof ~> exited

(* What tcp_udp.h says of handleErrFromServerUDP: it sends ERR to the      *)
(* server and gracefully ends the program.                                 *)
HandleErrEnds == (\E n \in 1..sends : requests[n] = "ERR") ~> exited
=============================================================================
