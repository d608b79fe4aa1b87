-------------------------- MODULE TcpClientProofs --------------------------
(***************************************************************************)
(* Proofs about the whole client in TCP mode, for any input, any server    *)
(* and any cuts of the stream.                                             *)
(***************************************************************************)
EXTENDS TcpClient, SequenceFacts, StdinFacts

Kinds == {"AUTH", "JOIN", "MSG", "ERR"}
Results == {"ok", "nok", "other"}

(* A message sent is one more of its kind. *)
LEMMA SendMessageType ==
  ASSUME requests \in Seq(Kinds), NEW kind \in Kinds, SendMessage(kind)
  PROVE  requests' \in Seq(Kinds) /\ goodbye' = goodbye
BY AppendProperties DEF SendMessage

(* The number of the request under way is a number. *)
LEMMA AskedType == requests \in Seq(Kinds) => Asked \in Nat
<1> SUFFICES ASSUME requests \in Seq(Kinds) PROVE Asked \in Nat
  OBVIOUS
<1> DEFINE I == {i \in 1..Len(requests) : requests[i] \in {"AUTH", "JOIN"}}
<1>1. I # {} => Max(I) \in 1..Len(requests)
  BY MaxIsGreatest, LenProperties
<1>2. Asked = IF I # {} THEN Max(I) ELSE 0
  BY DEF Asked, SelectLastInSeq
<1> QED BY <1>1, <1>2, LenProperties

(* The stdin thread keeps the types of what it reads. *)
LEMMA StdinType == TcpTypeOK /\ Stdin => TcpTypeOK'
<1> SUFFICES ASSUME TcpTypeOK, Stdin PROVE TcpTypeOK'
  OBVIOUS
<1>1. StdinOnly
  BY DEF Stdin, StdinGoesOn
<1>2. InputTypeOK'
  BY ReadingType DEF TcpTypeOK, Stdin, StdinGoesOn
<1> QED BY <1>1, <1>2 DEF TcpTypeOK, StdinOnly, threadVars, sendVars, serverVars

(* The signal thread and main move their own places and the flag. *)
LEMMA SignalType == TcpTypeOK /\ (Signal \/ Exit \/ SendFails) => TcpTypeOK'
<1> SUFFICES ASSUME TcpTypeOK, Signal \/ Exit \/ SendFails PROVE TcpTypeOK'
  OBVIOUS
<1>1. /\ UNCHANGED << inputVars, status, net, responses, requests, answers, serverVars >>
      /\ network' \in {network, FALSE} /\ goodbye' \in {goodbye, TRUE}
      /\ exited' \in {exited, TRUE} /\ broken' \in {broken, TRUE}
      /\ recv' = recv /\ sig' \in {sig, "bye", "done"}
  BY DEF Signal, SigInt, SigBye, SigStop, SigStep, Exit, SendFails, StopNetwork, SendBye,
         sendVars
<1>2. InputTypeOK'
  BY <1>1, InputKept
      DEF TcpTypeOK
<1>3. network' \in BOOLEAN /\ goodbye' \in BOOLEAN /\ exited' \in BOOLEAN /\ broken' \in BOOLEAN
  BY <1>1, Zenon DEF TcpTypeOK
<1>4. recv' \in {"run", "bye", "close", "done"} /\ sig' \in {"run", "bye", "done"}
  BY <1>1 DEF TcpTypeOK
<1> QED BY <1>1, <1>2, <1>3, <1>4 DEF TcpTypeOK, serverVars

(* The server adds three pieces to the stream, and to what it has said. *)
LEMMA MakeType ==
  ASSUME TcpTypeOK, NEW m \in Messages, Make(m)
  PROVE  stream' \in Seq(Pieces)
<1> DEFINE three == [part \in 1..3 |-> [msg |-> m, part |-> part]]
<1>1. three \in Seq(Pieces)
  BY DEF Pieces
<1> QED BY <1>1, ConcatProperties DEF TcpTypeOK, Make

(* What the server may do keeps the types.                                 *)
LEMMA ServerType == TcpTypeOK /\ Server => TcpTypeOK'
<1> SUFFICES ASSUME TcpTypeOK, Server PROVE TcpTypeOK'
  OBVIOUS
<1>1. ASSUME NEW n \in DOMAIN requests, ServerReply(n) PROVE TcpTypeOK'
  <2>1. PICK result \in ReplyResults, text \in Texts :
          /\ Make([type |-> "REPLY", ref |-> n, result |-> result, name |-> TRUE, text |-> text])
          /\ verdicts' = verdicts \cup {<< n, result >>}
    BY <1>1 DEF ServerReply
  <2> DEFINE m == [type |-> "REPLY", ref |-> n, result |-> result, name |-> TRUE, text |-> text]
  <2>2. m \in Messages /\ n \in Nat
    BY ServerAssumption, LenProperties DEF Messages, Texts, ServerAssumption, TcpTypeOK
  <2>3. stream' \in Seq(Pieces)
    BY <2>1, <2>2, MakeType
  <2>4. verdicts' \subseteq Nat \X {"ok", "nok", "other"}
    BY <2>1, <2>2, ServerAssumption DEF ServerAssumption, TcpTypeOK
  <2> QED BY <1>1, <2>1, <2>3, <2>4, InputKept
      DEF TcpTypeOK, ServerReply, Make, threadVars, sendVars
<1>2. ASSUME NEW type \in ServerSays, ServerSay(type) PROVE TcpTypeOK'
  <2>1. PICK name \in {TRUE, ~Malformed}, text \in Texts :
          Make([type |-> type, ref |-> 0, result |-> "none", name |-> name, text |-> text])
    BY <1>2 DEF ServerSay
  <2> DEFINE m == [type |-> type, ref |-> 0, result |-> "none", name |-> name, text |-> text]
  <2>2. m \in Messages
    BY ServerAssumption DEF Messages, Texts, ServerAssumption
  <2>3. stream' \in Seq(Pieces)
    BY <2>1, <2>2, MakeType
  <2>4. said' \in 0..MaxSaid
    BY <1>2, ServerAssumption DEF ServerSay, TcpTypeOK, ServerAssumption
  <2> HIDE DEF m
  <2> QED BY <1>2, <2>1, <2>3, <2>4, InputKept
      DEF TcpTypeOK, ServerSay, Make, m, threadVars, sendVars
<1>3. ASSUME ServerClose PROVE TcpTypeOK'
  BY <1>3, InputKept
      DEF TcpTypeOK, ServerClose, threadVars, sendVars
<1> QED BY <1>1, <1>2, <1>3 DEF Server

(* The receiver takes a run off the stream. *)
LEMMA ReceiveType ==
  ASSUME TcpTypeOK, NEW n \in 1..Len(stream), NEW to \in {"run", "bye"}, Receive(n, to)
  PROVE  /\ stream' \in Seq(Pieces) /\ Len(stream') = Len(stream) - n
         /\ \A j \in 1..(Len(stream) - n) : stream'[j] = stream[j + n]
<1> DEFINE k == n + 1  last == Len(stream)
<1>1. stream \in Seq(Pieces)
  BY DEF TcpTypeOK
<1>2. k \in Int /\ last \in Int /\ \A j \in k..last : stream[j] \in Pieces
  BY <1>1, ElementOfSeq, LenProperties
<1>3. /\ SubSeq(stream, k, last) \in Seq(Pieces)
      /\ Len(SubSeq(stream, k, last)) = IF k <= last THEN last - k + 1 ELSE 0
      /\ \A j \in 1..(last - k + 1) : SubSeq(stream, k, last)[j] = stream[k + j - 1]
  BY <1>2, SubSeqProperties
<1>4. stream' = SubSeq(stream, k, last)
  BY DEF Receive
<1>5. Len(stream) \in Nat
  BY <1>1, LenProperties
<1>6. Len(stream') = Len(stream) - n
  BY <1>3, <1>4, <1>5
<1>7. \A j \in 1..(Len(stream) - n) : stream'[j] = stream[j + n]
  BY <1>3, <1>4, <1>5
<1> QED BY <1>3, <1>4, <1>6, <1>7

(* A run begins with the first piece of the stream. *)
LEMMA RunHead ==
  ASSUME TcpTypeOK, NEW n \in 1..Len(stream)
  PROVE  SubSeq(stream, 1, n)[1] = stream[1] /\ stream[1] \in Pieces
<1>1. stream \in Seq(Pieces)
  BY DEF TcpTypeOK
<1>2. \A j \in 1..n : stream[j] \in Pieces
  BY <1>1, ElementOfSeq, LenProperties
<1>3. \A j \in 1..(n - 1 + 1) : SubSeq(stream, 1, n)[j] = stream[1 + j - 1]
  BY <1>1, <1>2, SubSeqProperties, LenProperties
<1>4. n \in Nat /\ n >= 1
  BY <1>1, LenProperties
<1> QED BY <1>2, <1>3, <1>4

(* One call of recv, taken for one message, keeps the types.               *)
LEMMA TakeType ==
  ASSUME TcpTypeOK, NEW n \in 1..Len(stream), Take(n)
  PROVE  TcpTypeOK'
<1>1. stream[1] \in Pieces /\ SubSeq(stream, 1, n)[1] = stream[1]
  BY RunHead
<1>2. ASSUME TakeInvalid(n) PROVE TcpTypeOK'
  <2>1. stream' \in Seq(Pieces)
    BY <1>2, ReceiveType DEF TakeInvalid
  <2>2. requests' \in Seq(Kinds) /\ goodbye' = goodbye
    BY <1>2, SendMessageType DEF TakeInvalid, TcpTypeOK, Kinds
  <2> QED BY <1>2, <2>1, <2>2, InputKept
      DEF TakeInvalid, Receive, TcpTypeOK, Kinds
<1>3. ASSUME TakeErr(n) \/ TakeUnread(n) PROVE TcpTypeOK'
  <2>1. stream' \in Seq(Pieces)
    BY <1>3, ReceiveType DEF TakeErr, TakeUnread
  <2> QED BY <1>3, <2>1, InputKept
      DEF TakeErr, TakeUnread, Receive, TcpTypeOK, sendVars
<1>4. ASSUME TakeResponse(n) PROVE TcpTypeOK'
  <2> DEFINE r == [type |-> stream[1].msg.type, msg |-> stream[1].msg,
                   content |-> Content(SubSeq(stream, 1, n))]
  <2>1. stream' \in Seq(Pieces)
    BY <1>4, ReceiveType DEF TakeResponse
  <2>2. r \in Responses
    <3>1. Content(SubSeq(stream, 1, n)) \in BOOLEAN
      BY DEF Content
    <3>2. stream[1].msg \in Messages /\ stream[1].msg.type \in {"REPLY", "ERR"}
      BY <1>1, <1>4 DEF TakeResponse, Pieces
    <3> QED BY <3>1, <3>2 DEF Responses
  <2>3. responses' = Append(responses, r)
    BY <1>1, <1>4 DEF TakeResponse, AddMessage
  <2> HIDE DEF r
  <2>4. responses' \in Seq(Responses)
    BY <2>2, <2>3, AppendProperties DEF TcpTypeOK
  <2> QED BY <1>4, <2>1, <2>4, InputKept
      DEF TakeResponse, Receive, TcpTypeOK, sendVars
<1> QED BY <1>2, <1>3, <1>4 DEF Take

(* Every step of receiverThreadTCP keeps the types.                        *)
LEMMA ReceiverType == TcpTypeOK /\ Receiver => TcpTypeOK'
<1> SUFFICES ASSUME TcpTypeOK, Receiver PROVE TcpTypeOK'
  OBVIOUS
<1>1. ASSUME RecvBye \/ RecvClose \/ RecvStop PROVE TcpTypeOK'
  BY <1>1, InputKept
      DEF RecvBye, RecvClose, RecvStop, RecvStep, SendBye, StopNetwork, TcpTypeOK,
              sendVars, serverVars
<1> QED BY <1>1, TakeType DEF Receiver

(* Taking a line from the input buffer, and acting on it, keeps the types. *)
LEMMA LinesType == TcpTypeOK /\ NetLines => TcpTypeOK'
<1> SUFFICES ASSUME TcpTypeOK, NetLines PROVE TcpTypeOK'
  OBVIOUS
<1>1. PICK to \in {"loop", "foot", "reply"} : NetLine(to)
  BY DEF NetLines, LineWithoutMessage, LineRefused, LineMsg, LineAuth, LineJoin
<1>2. lines # << >>
  BY DEF NetLines, LineWithoutMessage, LineRefused, LineMsg, LineAuth, LineJoin, NextLine,
         FirstLine
<1>3. InputTypeOK'
  BY <1>1, <1>2, RetrieveType DEF NetLine, TcpTypeOK
<1>4. requests' \in Seq(Kinds) /\ goodbye' = goodbye /\ status' \in {"START", "AUTH", "OPEN"}
  <2>1. ASSUME LineWithoutMessage \/ LineRefused
        PROVE  requests' = requests /\ goodbye' = goodbye /\ status' = status
    BY <2>1 DEF LineWithoutMessage, LineRefused, sendVars
  <2>2. ASSUME NEW kind \in Kinds, SendMessage(kind)
        PROVE  requests' \in Seq(Kinds) /\ goodbye' = goodbye
    BY <2>2, SendMessageType DEF TcpTypeOK, Kinds
  <2> QED BY <2>1, <2>2 DEF NetLines, LineMsg, LineAuth, LineJoin, TcpTypeOK, Kinds
<1> QED BY <1>1, <1>3, <1>4
        DEF NetLine, NetStep, TcpTypeOK, NetPlaces, serverVars, Kinds

(* A response judged is taken out of the buffer. *)
LEMMA JudgeType == \A type : TcpTypeOK /\ Judge(type) => TcpTypeOK'
<1> SUFFICES ASSUME TcpTypeOK, NEW type, Judge(type) PROVE TcpTypeOK'
  OBVIOUS
<1> DEFINE r == MessageByID(responses, type)
<1>0. responses \in Seq(Responses) /\ HasType(responses, type)
  BY DEF TcpTypeOK, Judge, Found
<1>1. r \in Responses /\ Taken(responses, type) \in Seq(Responses)
  BY <1>0, TakenProperties, ElementOfSeq
<1> HIDE DEF r
<1>2. JudgeAuth(r) \/ JudgeJoin(r)
  BY DEF Judge, r
<1>3. status' \in {"START", "AUTH", "OPEN"} /\ net' \in NetPlaces
  BY <1>2 DEF JudgeAuth, JudgeJoin, TcpTypeOK, NetPlaces
<1>4. r.msg.ref \in Nat /\ Asked \in Nat
  BY <1>1, AskedType DEF Responses, Messages, TcpTypeOK, Kinds
<1>5. answers' = answers \cup {<< Asked, r.msg.ref >>} \/ answers' = answers
  BY DEF Judge, r
<1>6. answers' \subseteq Nat \X Nat
  BY <1>4, <1>5 DEF TcpTypeOK
<1>7. responses' \in Seq(Responses)
  BY <1>1 DEF Judge
<1> QED BY <1>3, <1>6, <1>7, InputKept
      DEF Judge, TcpTypeOK, sendVars, serverVars

(* Every step of the network thread keeps the types.                       *)
LEMMA NetworkType == TcpTypeOK /\ Network => TcpTypeOK'
<1> SUFFICES ASSUME TcpTypeOK, Network PROVE TcpTypeOK'
  OBVIOUS
<1>1. ASSUME NEW from, NEW to \in NetPlaces, NetQuiet(from, to),
             UNCHANGED requests, network' \in BOOLEAN, goodbye' \in BOOLEAN
      PROVE  TcpTypeOK'
  BY <1>1, InputKept
      DEF NetQuiet, NetStep, TcpTypeOK, serverVars
<1>2. ASSUME NetStop \/ NetNoLine \/ NetGoOn \/ NetEof \/ NetClose PROVE TcpTypeOK'
  BY <1>1, <1>2 DEF NetStop, NetNoLine, NetGoOn, NetEof, NetClose, NetPlaces, SendBye,
                    StopNetwork, sendVars, TcpTypeOK
<1>3. ASSUME NEW type, NEW from, NEW to \in NetPlaces, NotFound(type, from, to)
      PROVE  TcpTypeOK'
  BY <1>1, <1>3 DEF NotFound, sendVars, TcpTypeOK
<1>4. ASSUME NetPoll \/ NetTimeout \/ NetBye PROVE TcpTypeOK'
  BY <1>1, <1>4 DEF NetPoll, NetTimeout, NetBye, NetPlaces, SendBye, StopNetwork, sendVars,
                    TcpTypeOK
<1>5. ASSUME NetLate PROVE TcpTypeOK'
  <2>1. CASE NotFound("ERR", "late", "foot")
    BY <1>3, <2>1 DEF NetPlaces
  <2>2. CASE Found("ERR") /\ ~NotFound("ERR", "late", "foot")
    <3>1. responses' \in Seq(Responses)
      BY <1>5, <2>2, TakenProperties DEF NetLate, Found, TcpTypeOK
    <3> QED BY <1>5, <2>2, <3>1, InputKept
      DEF NetLate, NetStep, TcpTypeOK, NetPlaces, sendVars,
                serverVars
  <2> QED BY <1>5, <2>1, <2>2 DEF NetLate
<1>6. ASSUME NetReply \/ NetErr PROVE TcpTypeOK'
  BY <1>3, <1>6, JudgeType DEF NetReply, NetErr, NetPlaces
<1> QED BY <1>2, <1>4, <1>5, <1>6, LinesType DEF Network, NetWait

(* The threads start with well-typed members.                              *)
LEMMA TcpTypeInit == Init => TcpTypeOK
<1> SUFFICES ASSUME Init PROVE TcpTypeOK
  OBVIOUS
<1>1. InputTypeOK
  BY InputInitType DEF Init
<1>2. said \in 0..MaxSaid
  BY ServerAssumption DEF Init, ServerAssumption
<1>3. requests \in Seq(Kinds) /\ responses \in Seq(Responses) /\ stream \in Seq(Pieces)
  BY DEF Init
<1> QED BY <1>1, <1>2, <1>3 DEF Init, TcpTypeOK, NetPlaces, Kinds

(* Every step of the client and of the server keeps the types.             *)
LEMMA TcpTypeStep == TcpTypeOK /\ [Next]_vars => TcpTypeOK'
<1>1. ASSUME TcpTypeOK, UNCHANGED vars PROVE TcpTypeOK'
  <2>1. InputTypeOK'
    BY <1>1, InputKept
      DEF TcpTypeOK, vars
  <2> QED BY <1>1, <2>1 DEF vars, threadVars, sendVars, serverVars, TcpTypeOK
<1> QED BY <1>1, StdinType, SignalType, ServerType, ReceiverType, NetworkType
        DEF Next, Ended, Running

(* Type correctness of the client over TCP *)
THEOREM TcpTypeCorrect == Spec => []TcpTypeOK
BY TcpTypeInit, TcpTypeStep, PTL DEF Spec
-----------------------------------------------------------------------------
(* Who lowers the flag has said BYE, or is about to: SIGINT and the        *)
(* timeout say it afterwards.                                              *)
FlagDown ==
  /\ ~network => goodbye \/ sig = "bye" \/ net = "byeTimeout"
  /\ recv = "close" => goodbye
  /\ recv = "done" \/ net = "close" => goodbye \/ ~network

TcpGoodbyeInv == FlagDown /\ ByeBeforeExit

(* What each thread does to the flag and the BYE *)
LEMMA GoodbyeSignal == TcpGoodbyeInv /\ ~exited /\ (Signal \/ Exit \/ SendFails) => TcpGoodbyeInv'
BY DEF TcpGoodbyeInv, FlagDown, ByeBeforeExit, Signal, SigInt, SigBye, SigStop, SigStep, Exit,
       SendFails, StopNetwork, SendBye, sendVars

(* receiverThreadTCP says BYE before it is done, unless another has        *)
(* closed.                                                                 *)
LEMMA GoodbyeReceiver == TcpGoodbyeInv /\ ~exited /\ Receiver => TcpGoodbyeInv'
<1>1. ASSUME TcpGoodbyeInv, ~exited, RecvBye \/ RecvClose \/ RecvStop PROVE TcpGoodbyeInv'
  BY <1>1 DEF TcpGoodbyeInv, FlagDown, ByeBeforeExit, RecvBye, RecvClose, RecvStop, RecvStep,
              StopNetwork, SendBye, sendVars
<1>2. ASSUME TcpGoodbyeInv, ~exited, NEW n, Take(n) PROVE TcpGoodbyeInv'
  BY <1>2 DEF TcpGoodbyeInv, FlagDown, ByeBeforeExit, Take, TakeInvalid, TakeErr, TakeUnread,
              TakeResponse, Receive, SendMessage, sendVars
<1> QED BY <1>1, <1>2 DEF Receiver

(* The network thread says BYE before it closes, the timeout apart.        *)
LEMMA GoodbyeNetwork == TcpGoodbyeInv /\ ~exited /\ Network => TcpGoodbyeInv'
<1> SUFFICES ASSUME TcpGoodbyeInv, ~exited, Network PROVE TcpGoodbyeInv'
  OBVIOUS
<1> USE DEF TcpGoodbyeInv, FlagDown, ByeBeforeExit, NetStep, NetQuiet, sendVars, StopNetwork,
            SendBye, SendMessage
<1>1. ASSUME NetStop \/ NetNoLine \/ NetGoOn \/ NetEof \/ NetClose PROVE TcpGoodbyeInv'
  BY <1>1 DEF NetStop, NetNoLine, NetGoOn, NetEof, NetClose
<1>2. ASSUME NetLines PROVE TcpGoodbyeInv'
  BY <1>2 DEF NetLines, LineWithoutMessage, LineRefused, LineMsg, LineAuth, LineJoin, NextLine,
              NetLine
<1>3. ASSUME NEW type, NEW from, NEW to \in NetPlaces \ {"close", "done"},
             from \in {"reply", "err", "late"}, NotFound(type, from, to)
      PROVE  TcpGoodbyeInv'
  BY <1>3 DEF NotFound
<1>4. ASSUME NEW type, net # "byeTimeout", Judge(type) PROVE TcpGoodbyeInv'
  <2>1. net' \notin {"close", "done"}
    BY <1>4 DEF Judge, JudgeAuth, JudgeJoin
  <2> QED BY <1>4, <2>1 DEF Judge
<1>5. ASSUME NetReply \/ NetErr PROVE TcpGoodbyeInv'
  BY <1>3, <1>4, <1>5 DEF NetReply, NetErr, NetPlaces
<1>6. ASSUME NetPoll \/ NetTimeout \/ NetBye \/ NetLate PROVE TcpGoodbyeInv'
  BY <1>6 DEF NetPoll, NetTimeout, NetBye, NetLate, NotFound
<1> QED BY <1>1, <1>2, <1>5, <1>6 DEF Network, NetWait

(* No step loses the BYE that a closed session owes.                       *)
LEMMA GoodbyeStep == TcpGoodbyeInv /\ [Next]_vars => TcpGoodbyeInv'
<1>1. ASSUME TcpGoodbyeInv, UNCHANGED vars PROVE TcpGoodbyeInv'
  BY <1>1 DEF TcpGoodbyeInv, FlagDown, ByeBeforeExit, vars, threadVars, sendVars
<1>2. ASSUME TcpGoodbyeInv, ~exited, Stdin PROVE TcpGoodbyeInv'
  BY <1>2 DEF TcpGoodbyeInv, FlagDown, ByeBeforeExit, Stdin, StdinGoesOn, StdinOnly,
              threadVars, sendVars
<1>3. ASSUME TcpGoodbyeInv, ~exited, Server PROVE TcpGoodbyeInv'
  BY <1>3 DEF TcpGoodbyeInv, FlagDown, ByeBeforeExit, Server, ServerReply, ServerSay, Make,
              ServerClose, threadVars, sendVars
<1> QED BY <1>1, <1>2, <1>3, GoodbyeSignal, GoodbyeReceiver, GoodbyeNetwork
        DEF Next, Ended, Running

(* Over TCP the client takes its leave before the process ends, but for a  *)
(* send that fails and a main thread that overtakes the timeout.           *)
THEOREM ByeCorrect == Spec => []ByeBeforeExit
<1>1. Init => TcpGoodbyeInv
  BY DEF Init, TcpGoodbyeInv, FlagDown, ByeBeforeExit
<1>2. TcpGoodbyeInv => ByeBeforeExit
  BY DEF TcpGoodbyeInv
<1> QED BY <1>1, <1>2, GoodbyeStep, PTL DEF Spec
-----------------------------------------------------------------------------
(* Requests are the messages the server answers. *)
IsRequest(sent, n) == n \in 1..Len(sent) /\ sent[n] \in {"AUTH", "JOIN"}

LastRequest(sent) == SelectLastInSeq(sent, LAMBDA kind : kind \in {"AUTH", "JOIN"})

(* The last one is a request, and none comes after it. *)
LEMMA LastRequestIsLast ==
  ASSUME NEW sent \in Seq(Kinds), NEW n, IsRequest(sent, n)
  PROVE  /\ IsRequest(sent, LastRequest(sent)) /\ LastRequest(sent) \in Nat
         /\ \A m : IsRequest(sent, m) => m \in Nat /\ m <= LastRequest(sent)
<1> DEFINE I == {i \in 1..Len(sent) : sent[i] \in {"AUTH", "JOIN"}}
<1>0. Len(sent) \in Nat
  BY LenProperties
<1>1. Max(I) \in I /\ \A i \in I : i <= Max(I)
  <2>1. n \in I /\ I \subseteq 1..Len(sent)
    BY DEF IsRequest
  <2> QED BY <2>1, <1>0, MaxIsGreatest
<1>2. LastRequest(sent) = Max(I)
  BY <1>1 DEF LastRequest, SelectLastInSeq
<1> QED BY <1>0, <1>1, <1>2 DEF IsRequest

(* What a message that is no request changes: nothing *)
LEMMA OtherMessage ==
  ASSUME NEW sent \in Seq(Kinds), NEW kind \in {"MSG", "ERR"}
  PROVE  /\ Append(sent, kind) \in Seq(Kinds)
         /\ \A n : IsRequest(Append(sent, kind), n) <=> IsRequest(sent, n)
         /\ \A n : IsRequest(sent, n) => Append(sent, kind)[n] = sent[n]
         /\ \A n : IsRequest(sent, n) => LastRequest(Append(sent, kind)) = LastRequest(sent)
<1> DEFINE more == Append(sent, kind)
<1>1. /\ more \in Seq(Kinds) /\ Len(more) = Len(sent) + 1 /\ more[Len(sent) + 1] = kind
      /\ \A i \in 1..Len(sent) : more[i] = sent[i]
  BY AppendProperties DEF Kinds
<1>2. Len(sent) \in Nat
  BY LenProperties
<1> HIDE DEF more
<1>3. \A n : IsRequest(more, n) <=> IsRequest(sent, n)
  BY <1>1, <1>2 DEF IsRequest
<1>4. \A n : IsRequest(sent, n) => more[n] = sent[n]
  BY <1>1 DEF IsRequest
<1>5. ASSUME NEW n, IsRequest(sent, n) PROVE LastRequest(more) = LastRequest(sent)
  <2>1. /\ IsRequest(sent, LastRequest(sent)) /\ LastRequest(sent) \in Nat
        /\ \A m : IsRequest(sent, m) => m \in Nat /\ m <= LastRequest(sent)
    BY <1>5, LastRequestIsLast
  <2>2. /\ IsRequest(more, LastRequest(more)) /\ LastRequest(more) \in Nat
        /\ \A m : IsRequest(more, m) => m \in Nat /\ m <= LastRequest(more)
    BY <1>1, <1>3, <1>5, LastRequestIsLast
  <2> QED BY <1>3, <2>1, <2>2
<1> QED BY <1>1, <1>3, <1>4, <1>5 DEF more

(* A request becomes the last one. *)
LEMMA NewRequest ==
  ASSUME NEW sent \in Seq(Kinds), NEW kind \in {"AUTH", "JOIN"}
  PROVE  /\ LastRequest(Append(sent, kind)) = Len(sent) + 1
         /\ Append(sent, kind)[Len(sent) + 1] = kind
         /\ \A n : IsRequest(Append(sent, kind), n) <=> IsRequest(sent, n) \/ n = Len(sent) + 1
<1> DEFINE more == Append(sent, kind)
<1>1. /\ more \in Seq(Kinds) /\ Len(more) = Len(sent) + 1 /\ more[Len(sent) + 1] = kind
      /\ \A i \in 1..Len(sent) : more[i] = sent[i]
  BY AppendProperties DEF Kinds
<1>2. Len(sent) \in Nat
  BY LenProperties
<1> HIDE DEF more
<1>3. \A n : IsRequest(more, n) <=> IsRequest(sent, n) \/ n = Len(sent) + 1
  BY <1>1, <1>2 DEF IsRequest
<1>4. /\ IsRequest(more, LastRequest(more)) /\ LastRequest(more) \in Nat
      /\ \A m : IsRequest(more, m) => m \in Nat /\ m <= LastRequest(more)
  BY <1>1, <1>3, LastRequestIsLast
<1>5. LastRequest(more) = Len(sent) + 1
  BY <1>2, <1>3, <1>4, <1>1 DEF IsRequest
<1> QED BY <1>1, <1>3, <1>5 DEF more
-----------------------------------------------------------------------------
(* REPLYs that the network thread may still take: in the buffer, and in    *)
(* the stream as long as their first piece is there                        *)
Kept(buffer, i)   == i \in 1..Len(buffer) /\ buffer[i].msg.type = "REPLY"
Coming(pieces, j) ==
  j \in 1..Len(pieces) /\ pieces[j].part = 1 /\ pieces[j].msg.type = "REPLY"

(* The server answers requests, each once. *)
VerdictsKnown ==
  \A v \in verdicts :
    IsRequest(requests, v[1]) /\ \A w \in verdicts : w[1] = v[1] => w[2] = v[2]

(* Every REPLY is one of its verdicts, ... *)
RepliesKnown ==
  /\ \A i \in 1..Len(responses) : responses[i].type = responses[i].msg.type
  /\ \A i : Kept(responses, i) =>
       << responses[i].msg.ref, responses[i].msg.result >> \in verdicts
  /\ \A j : Coming(stream, j) => << stream[j].msg.ref, stream[j].msg.result >> \in verdicts

(* ... and none is there twice. *)
RepliesOnce ==
  /\ \A i, k : Kept(responses, i) /\ Kept(responses, k)
                 /\ responses[i].msg.ref = responses[k].msg.ref => i = k
  /\ \A i, k : Coming(stream, i) /\ Coming(stream, k)
                 /\ stream[i].msg.ref = stream[k].msg.ref => i = k
  /\ \A i, k : Kept(responses, i) /\ Coming(stream, k)
                 => responses[i].msg.ref # stream[k].msg.ref

(* Between two commands nothing is left open, and the status is what the   *)
(* last verdict said.                                                      *)
Settled ==
  /\ \A n : IsRequest(requests, n) => \E v \in verdicts : v[1] = n
  /\ \A i : ~Kept(responses, i)
  /\ \A j : ~Coming(stream, j)
  /\ status # "AUTH" /\ (status = "OPEN" <=> LastVerdict("ok"))

(* In a wait only the request under way is open. *)
OneOpen ==
  /\ IsRequest(requests, LastRequest(requests))
  /\ status = IF requests[LastRequest(requests)] = "AUTH" THEN "AUTH" ELSE "OPEN"
  /\ \A n : IsRequest(requests, n) /\ n # LastRequest(requests)
              => \E v \in verdicts : v[1] = n
  /\ \A i : Kept(responses, i) => responses[i].msg.ref = LastRequest(requests)
  /\ \A j : Coming(stream, j) => stream[j].msg.ref = LastRequest(requests)

(* All that holds until the BYE *)
WithoutBye ==
  /\ net \in {"loop", "foot", "late"} => Settled
  /\ net \in {"reply", "err", "idle"} => OneOpen
  /\ \A pair \in answers : pair[1] = pair[2]

Exchange == VerdictsKnown /\ RepliesKnown /\ RepliesOnce
SessionInv == Exchange /\ (~goodbye => WithoutBye)

(* A step that moves the network thread, or none, and leaves requests and  *)
(* REPLYs alone                                                            *)
LEMMA QuietSession ==
  ASSUME SessionInv, UNCHANGED << requests, verdicts, responses, stream, status, answers >>,
         goodbye => goodbye',
         ~goodbye' /\ net' \in {"loop", "foot", "late"} => net \in {"loop", "foot", "late"},
         ~goodbye' /\ net' \in {"reply", "err", "idle"} => net \in {"reply", "err", "idle"}
  PROVE  SessionInv'
<1>1. Exchange'
  BY DEF SessionInv, Exchange, VerdictsKnown, RepliesKnown, RepliesOnce
<1>2. (Settled => Settled') /\ (OneOpen => OneOpen')
  BY DEF Settled, OneOpen, LastVerdict
<1> QED BY <1>1, <1>2 DEF SessionInv, WithoutBye

(* A step after which the server has the same requests to answer *)
SameRequests ==
  /\ \A n : IsRequest(requests', n) <=> IsRequest(requests, n)
  /\ \A n : IsRequest(requests, n) =>
       /\ requests'[n] = requests[n]
       /\ LastRequest(requests') = LastRequest(requests)

(* What concerns neither messages nor verdicts leaves the exchange alone.  *)
LEMMA OthersSame ==
  ASSUME TcpTypeOK, UNCHANGED requests \/ SendMessage("MSG") \/ SendMessage("ERR")
  PROVE  SameRequests
BY OtherMessage DEF SendMessage, SameRequests, TcpTypeOK, Kinds

(* What the receiver leaves of REPLYs when it takes a run off the stream:  *)
(* those further on keep their order; the first may go into the buffer.    *)
LEMMA TakenOff ==
  ASSUME TcpTypeOK, SessionInv, NEW n \in 1..Len(stream), Take(n)
  PROVE  /\ SameRequests
         /\ \A j : Coming(stream', j) =>
              Coming(stream, j + n) /\ stream'[j] = stream[j + n] /\ j \in Nat \ {0}
         /\ \A i : Kept(responses', i) =>
              \/ Kept(responses, i) /\ responses'[i] = responses[i]
              \/ /\ i = Len(responses) + 1
                 /\ Coming(stream, 1) /\ responses'[i].msg = stream[1].msg
         /\ \A i : Kept(responses, i) => i \in 1..Len(responses)
         /\ \A i \in 1..Len(responses') : responses'[i].type = responses'[i].msg.type
<1>0. /\ requests \in Seq(Kinds) /\ responses \in Seq(Responses) /\ stream \in Seq(Pieces)
      /\ Len(stream) \in Nat /\ Len(responses) \in Nat /\ n \in Nat /\ n >= 1
  BY LenProperties DEF TcpTypeOK, Kinds
<1>1. UNCHANGED requests \/ SendMessage("ERR")
  BY DEF Take, TakeInvalid, TakeErr, TakeUnread, TakeResponse, sendVars
<1>2. SameRequests
  BY <1>1, OthersSame
<1>3. /\ Len(stream') = Len(stream) - n
      /\ \A j \in 1..(Len(stream) - n) : stream'[j] = stream[j + n]
  BY ReceiveType DEF Take, TakeInvalid, TakeErr, TakeUnread, TakeResponse
<1>4. \A j : Coming(stream', j) =>
        Coming(stream, j + n) /\ stream'[j] = stream[j + n] /\ j \in Nat \ {0}
  BY <1>0, <1>3 DEF Coming
<1>5. \/ responses' = responses
      \/ /\ Typed(SubSeq(stream, 1, n))
         /\ \E content : responses' =
              Append(responses, [type |-> stream[1].msg.type, msg |-> stream[1].msg,
                                 content |-> content])
  BY RunHead DEF Take, TakeInvalid, TakeErr, TakeUnread, TakeResponse, AddMessage
<1>6. CASE responses' = responses
  BY <1>2, <1>4, <1>6 DEF Kept, SessionInv, Exchange, RepliesKnown
<1>7. CASE responses' # responses
  <2>1. PICK content : responses' =
          Append(responses, [type |-> stream[1].msg.type, msg |-> stream[1].msg,
                             content |-> content])
    BY <1>5, <1>7
  <2>2. stream[1].part = 1
    BY <1>5, <1>7, RunHead DEF Typed
  <2> DEFINE r == [type |-> stream[1].msg.type, msg |-> stream[1].msg, content |-> content]
  <2>3. /\ Len(responses') = Len(responses) + 1 /\ responses'[Len(responses) + 1] = r
        /\ \A i \in 1..Len(responses) : responses'[i] = responses[i]
    BY <1>0, <2>1
  <2>4. r.type = stream[1].msg.type /\ r.msg = stream[1].msg
    OBVIOUS
  <2> HIDE DEF r
  <2>5. \A i : Kept(responses', i) =>
          \/ Kept(responses, i) /\ responses'[i] = responses[i]
          \/ /\ i = Len(responses) + 1
             /\ Coming(stream, 1) /\ responses'[i].msg = stream[1].msg
    BY <1>0, <2>2, <2>3, <2>4 DEF Kept, Coming
  <2>6. \A i \in 1..Len(responses') : responses'[i].type = responses'[i].msg.type
    BY <1>0, <2>3, <2>4 DEF SessionInv, Exchange, RepliesKnown
  <2> QED BY <1>2, <1>4, <2>5, <2>6 DEF Kept
<1> QED BY <1>6, <1>7

(* One call of recv keeps the exchange: what it takes off the stream it    *)
(* keeps, or the session ends with a BYE.                                  *)
LEMMA TakeSession ==
  ASSUME TcpTypeOK, SessionInv, NEW n \in 1..Len(stream), Take(n)
  PROVE  SessionInv'
<1>1. /\ SameRequests
      /\ \A j : Coming(stream', j) =>
           Coming(stream, j + n) /\ stream'[j] = stream[j + n] /\ j \in Nat \ {0}
      /\ \A i : Kept(responses', i) =>
           \/ Kept(responses, i) /\ responses'[i] = responses[i]
           \/ /\ i = Len(responses) + 1
              /\ Coming(stream, 1) /\ responses'[i].msg = stream[1].msg
      /\ \A i : Kept(responses, i) => i \in 1..Len(responses)
      /\ \A i \in 1..Len(responses') : responses'[i].type = responses'[i].msg.type
  BY TakenOff
<1>2. UNCHANGED << verdicts, status, answers, net, goodbye >>
  BY DEF Take, TakeInvalid, TakeErr, TakeUnread, TakeResponse, Receive, SendMessage, sendVars
<1>3. n \in Nat /\ n >= 1 /\ Len(responses) \in Nat
  BY LenProperties DEF TcpTypeOK
<1>4. VerdictsKnown'
  BY <1>1, <1>2 DEF SessionInv, Exchange, VerdictsKnown, SameRequests
<1>5. RepliesKnown'
  BY <1>1, <1>2 DEF SessionInv, Exchange, RepliesKnown
<1>6. RepliesOnce'
  <2>1. ASSUME NEW i, NEW k, Kept(responses', i), Kept(responses', k),
               responses'[i].msg.ref = responses'[k].msg.ref
        PROVE  i = k
    <3>1. \/ Kept(responses, i) /\ responses'[i] = responses[i]
          \/ i = Len(responses) + 1 /\ Coming(stream, 1) /\ responses'[i].msg = stream[1].msg
      BY <1>1, <2>1
    <3>2. \/ Kept(responses, k) /\ responses'[k] = responses[k]
          \/ k = Len(responses) + 1 /\ Coming(stream, 1) /\ responses'[k].msg = stream[1].msg
      BY <1>1, <2>1
    <3> QED BY <2>1, <3>1, <3>2 DEF SessionInv, Exchange, RepliesOnce
  <2>2. \A i, k : Coming(stream', i) /\ Coming(stream', k)
                    /\ stream'[i].msg.ref = stream'[k].msg.ref => i = k
    <3> SUFFICES ASSUME NEW i, NEW k, Coming(stream', i), Coming(stream', k),
                        stream'[i].msg.ref = stream'[k].msg.ref
                 PROVE  i = k
      OBVIOUS
    <3>0. /\ Coming(stream, i + n) /\ stream'[i] = stream[i + n]
          /\ Coming(stream, k + n) /\ stream'[k] = stream[k + n]
      BY <1>1
    <3>1. i + n = k + n
      BY <3>0 DEF SessionInv, Exchange, RepliesOnce
    <3> QED BY <1>1, <1>3, <3>1
  <2>3. ASSUME NEW i, NEW k, Kept(responses', i), Coming(stream', k)
        PROVE  responses'[i].msg.ref # stream'[k].msg.ref
    <3>1. Coming(stream, k + n) /\ stream'[k] = stream[k + n] /\ k + n # 1
      BY <1>1, <1>3, <2>3
    <3>2. CASE Kept(responses, i) /\ responses'[i] = responses[i]
      BY <3>1, <3>2 DEF SessionInv, Exchange, RepliesOnce
    <3>3. CASE Coming(stream, 1) /\ responses'[i].msg = stream[1].msg
      BY <3>1, <3>3 DEF SessionInv, Exchange, RepliesOnce
    <3> QED BY <1>1, <2>3, <3>2, <3>3
  <2> QED BY <2>1, <2>2, <2>3 DEF RepliesOnce
<1>7. Settled => Settled'
  BY <1>1, <1>2 DEF Settled, SameRequests, LastVerdict
<1>8. OneOpen => OneOpen'
  <2> SUFFICES ASSUME OneOpen PROVE OneOpen'
    OBVIOUS
  <2> DEFINE last == LastRequest(requests)
  <2>1. /\ LastRequest(requests') = last /\ IsRequest(requests', last)
        /\ requests'[last] = requests[last]
    BY <1>1 DEF OneOpen, SameRequests
  <2> QED BY <1>1, <1>2, <2>1 DEF OneOpen, SameRequests
<1> QED BY <1>2, <1>4, <1>5, <1>6, <1>7, <1>8 DEF SessionInv, Exchange, WithoutBye

(* What the server says comes last, and is one REPLY at most. *)
LEMMA MadeLast ==
  ASSUME TcpTypeOK, NEW m \in Messages, Make(m)
  PROVE  \A j : Coming(stream', j) =>
           \/ Coming(stream, j) /\ stream'[j] = stream[j]
           \/ j = Len(stream) + 1 /\ stream'[j].msg = m /\ m.type = "REPLY"
<1> DEFINE three == [part \in 1..3 |-> [msg |-> m, part |-> part]]
<1>1. /\ three \in Seq(Pieces) /\ Len(three) = 3
      /\ \A part \in 1..3 : three[part].msg = m /\ three[part].part = part
  BY DEF Pieces
<1>2. stream' = stream \o three
  BY DEF Make
<1> HIDE DEF three
<1>3. stream \in Seq(Pieces) /\ Len(stream) \in Nat
  BY LenProperties DEF TcpTypeOK
<1>4. /\ Len(stream') = Len(stream) + 3
      /\ \A j \in 1..(Len(stream) + 3) :
           stream'[j] = IF j <= Len(stream) THEN stream[j] ELSE three[j - Len(stream)]
  <2>1. /\ Len(stream \o three) = Len(stream) + Len(three)
        /\ \A j \in 1..(Len(stream) + Len(three)) :
             (stream \o three)[j] = IF j <= Len(stream) THEN stream[j] ELSE three[j - Len(stream)]
    BY <1>1, <1>3, ConcatProperties
  <2>2. Len(stream) + Len(three) = Len(stream) + 3
    BY <1>1
  <2> QED BY ONLY <1>2, <2>1, <2>2
<1> SUFFICES ASSUME NEW j, Coming(stream', j)
             PROVE  \/ Coming(stream, j) /\ stream'[j] = stream[j]
                    \/ j = Len(stream) + 1 /\ stream'[j].msg = m /\ m.type = "REPLY"
  OBVIOUS
<1>5. j \in 1..(Len(stream) + 3) /\ stream'[j].part = 1 /\ stream'[j].msg.type = "REPLY"
  BY <1>4 DEF Coming
<1>6. CASE j <= Len(stream)
  BY <1>3, <1>4, <1>5, <1>6 DEF Coming
<1>7. CASE j > Len(stream)
  <2>1. j - Len(stream) \in 1..3 /\ stream'[j] = three[j - Len(stream)]
    BY <1>3, <1>4, <1>5, <1>7
  <2>2. j - Len(stream) = 1
    BY <1>1, <1>5, <2>1
  <2> QED BY <1>1, <1>3, <1>5, <2>1, <2>2
<1> QED BY <1>3, <1>5, <1>6, <1>7

(* What the server may do keeps the exchange.                              *)
LEMMA ServerSession == TcpTypeOK /\ SessionInv /\ Server => SessionInv'
<1> SUFFICES ASSUME TcpTypeOK, SessionInv, Server PROVE SessionInv'
  OBVIOUS
<1>0. stream \in Seq(Pieces) /\ Len(stream) \in Nat
  BY LenProperties DEF TcpTypeOK
<1>1. ASSUME NEW n \in DOMAIN requests, ServerReply(n) PROVE SessionInv'
  <2>1. PICK result \in ReplyResults, text \in Texts :
          /\ Make([type |-> "REPLY", ref |-> n, result |-> result, name |-> TRUE, text |-> text])
          /\ verdicts' = verdicts \cup {<< n, result >>}
    BY <1>1 DEF ServerReply
  <2> DEFINE m == [type |-> "REPLY", ref |-> n, result |-> result, name |-> TRUE, text |-> text]
  <2>2. m \in Messages /\ m.ref = n /\ m.result = result
    BY ServerAssumption, LenProperties DEF Messages, Texts, ServerAssumption, TcpTypeOK
  <2>3. Make(m)
    BY <2>1
  <2> HIDE DEF m
  <2>4. \A j : Coming(stream', j) =>
          \/ Coming(stream, j) /\ stream'[j] = stream[j]
          \/ j = Len(stream) + 1 /\ stream'[j].msg = m
    BY <2>2, <2>3, MadeLast
  <2>5. UNCHANGED << status, net, goodbye, requests, responses, answers >>
    BY <2>3 DEF Make, threadVars, sendVars
  <2>6. IsRequest(requests, n) /\ \A v \in verdicts : v[1] # n
    BY <1>1, LenProperties DEF ServerReply, Unanswered, IsRequest, TcpTypeOK
  <2>7. \A v \in verdicts' : v \in verdicts \/ (v[1] = n /\ v[2] = result)
    BY <2>1
  <2>8. VerdictsKnown'
    BY <2>1, <2>5, <2>6, <2>7 DEF SessionInv, Exchange, VerdictsKnown
  <2>9. RepliesKnown'
    BY <2>1, <2>2, <2>4, <2>5 DEF SessionInv, Exchange, RepliesKnown
  <2>10. /\ \A i : Kept(responses, i) => responses[i].msg.ref # n
         /\ \A j : Coming(stream, j) => stream[j].msg.ref # n
    <3>1. \A ref, any : << ref, any >> \in verdicts => ref # n
      <4> SUFFICES ASSUME NEW ref, NEW any, << ref, any >> \in verdicts PROVE ref # n
        OBVIOUS
      <4>1. << ref, any >>[1] # n
        BY <2>6
      <4> QED BY <4>1
    <3> QED BY <3>1 DEF SessionInv, Exchange, RepliesKnown
  <2>11. RepliesOnce'
    <3>1. \A i, k : Kept(responses', i) /\ Kept(responses', k)
                      /\ responses'[i].msg.ref = responses'[k].msg.ref => i = k
      BY <2>5 DEF SessionInv, Exchange, RepliesOnce
    <3>2. ASSUME NEW i, NEW k, Coming(stream', i), Coming(stream', k),
                 stream'[i].msg.ref = stream'[k].msg.ref
          PROVE  i = k
      <4>1. \/ Coming(stream, i) /\ stream'[i] = stream[i]
            \/ i = Len(stream) + 1 /\ stream'[i].msg.ref = n
        BY <2>2, <2>4, <3>2
      <4>2. \/ Coming(stream, k) /\ stream'[k] = stream[k]
            \/ k = Len(stream) + 1 /\ stream'[k].msg.ref = n
        BY <2>2, <2>4, <3>2
      <4> QED BY <2>10, <3>2, <4>1, <4>2 DEF SessionInv, Exchange, RepliesOnce
    <3>3. \A i, k : Kept(responses', i) /\ Coming(stream', k)
                      => responses'[i].msg.ref # stream'[k].msg.ref
      BY <2>2, <2>4, <2>5, <2>10 DEF SessionInv, Exchange, RepliesOnce
    <3> QED BY <3>1, <3>2, <3>3 DEF RepliesOnce
  <2>12. ~Settled
    BY <2>6 DEF Settled
  <2>13. OneOpen => OneOpen'
    <3> SUFFICES ASSUME OneOpen PROVE OneOpen'
      OBVIOUS
    <3>1. n = LastRequest(requests)
      BY <2>6 DEF OneOpen
    <3> QED BY <2>1, <2>2, <2>4, <2>5, <3>1 DEF OneOpen
  <2> QED BY <2>5, <2>8, <2>9, <2>11, <2>12, <2>13 DEF SessionInv, Exchange, WithoutBye
<1>2. ASSUME NEW type \in ServerSays, ServerSay(type) PROVE SessionInv'
  <2>1. PICK name \in {TRUE, ~Malformed}, text \in Texts :
          Make([type |-> type, ref |-> 0, result |-> "none", name |-> name, text |-> text])
    BY <1>2 DEF ServerSay
  <2> DEFINE m == [type |-> type, ref |-> 0, result |-> "none", name |-> name, text |-> text]
  <2>2. m \in Messages /\ m.type # "REPLY"
    BY ServerAssumption DEF Messages, Texts, ServerAssumption
  <2>3. Make(m)
    BY <2>1
  <2> HIDE DEF m
  <2>4. \A j : Coming(stream', j) => Coming(stream, j) /\ stream'[j] = stream[j]
    BY <2>2, <2>3, MadeLast
  <2>5. UNCHANGED << status, net, goodbye, requests, responses, answers, verdicts >>
    BY <1>2, <2>3 DEF ServerSay, Make, threadVars, sendVars
  <2>6. Exchange'
    BY <2>4, <2>5 DEF SessionInv, Exchange, VerdictsKnown, RepliesKnown, RepliesOnce
  <2>7. (Settled => Settled') /\ (OneOpen => OneOpen')
    BY <2>4, <2>5 DEF Settled, OneOpen, LastVerdict
  <2> QED BY <2>5, <2>6, <2>7 DEF SessionInv, WithoutBye
<1>3. ASSUME ServerClose PROVE SessionInv'
  BY <1>3, QuietSession DEF ServerClose, threadVars, sendVars
<1> QED BY <1>1, <1>2, <1>3 DEF Server

(* Lines of the user: a message, or a request that opens a wait *)
LEMMA LinesSession == TcpTypeOK /\ SessionInv /\ NetLines => SessionInv'
<1> SUFFICES ASSUME TcpTypeOK, SessionInv, NetLines PROVE SessionInv'
  OBVIOUS
<1>0. requests \in Seq(Kinds) /\ Len(requests) \in Nat
  BY LenProperties DEF TcpTypeOK, Kinds
<1>1. ASSUME LineWithoutMessage \/ LineRefused PROVE SessionInv'
  BY <1>1, QuietSession
     DEF LineWithoutMessage, LineRefused, NetLine, NetStep, NextLine, sendVars, serverVars
<1>2. ASSUME LineMsg PROVE SessionInv'
  <2>1. SameRequests /\ net = "loop" /\ net' = "foot"
    BY <1>2, OthersSame DEF LineMsg, NextLine, NetLine, NetStep
  <2>2. UNCHANGED << status, goodbye, responses, answers, verdicts, stream >>
    BY <1>2 DEF LineMsg, NetLine, NetStep, SendMessage, serverVars
  <2>3. Exchange'
    BY <2>1, <2>2
       DEF SessionInv, Exchange, VerdictsKnown, RepliesKnown, RepliesOnce, SameRequests
  <2>4. Settled => Settled'
    BY <2>1, <2>2 DEF Settled, SameRequests, LastVerdict
  <2> QED BY <2>1, <2>2, <2>3, <2>4 DEF SessionInv, WithoutBye
<1>3. ASSUME LineAuth \/ LineJoin PROVE SessionInv'
  <2>1. PICK kind \in {"AUTH", "JOIN"} :
          /\ requests' = Append(requests, kind)
          /\ status' = IF kind = "AUTH" THEN "AUTH" ELSE "OPEN"
    BY <1>3 DEF LineAuth, LineJoin, SendMessage
  <2>2. /\ UNCHANGED << goodbye, responses, answers, verdicts, stream >>
        /\ net = "loop" /\ net' = "reply"
    BY <1>3 DEF LineAuth, LineJoin, NextLine, NetLine, NetStep, SendMessage, serverVars
  <2>3. /\ LastRequest(requests') = Len(requests) + 1
        /\ requests'[Len(requests) + 1] = kind
        /\ \A n : IsRequest(requests', n) <=> IsRequest(requests, n) \/ n = Len(requests) + 1
    BY <1>0, <2>1, NewRequest
  <2>4. Exchange'
    BY <2>2, <2>3 DEF SessionInv, Exchange, VerdictsKnown, RepliesKnown, RepliesOnce
  <2>5. Settled => OneOpen'
    BY <2>1, <2>2, <2>3 DEF Settled, OneOpen
  <2> QED BY <2>2, <2>4, <2>5 DEF SessionInv, WithoutBye
<1> QED BY <1>1, <1>2, <1>3 DEF NetLines

(* What the network thread takes out of the buffer is gone, the rest is    *)
(* what it was.                                                            *)
LEMMA Looked ==
  ASSUME TcpTypeOK, SessionInv, NEW type, HasType(responses, type),
         responses' = Taken(responses, type), UNCHANGED << verdicts, requests, stream >>
  PROVE  \E i \in 1..Len(responses) :
           /\ MessageByID(responses, type) = responses[i] /\ responses[i].msg.type = type
           /\ \A k : Kept(responses', k) =>
                \E l : Kept(responses, l) /\ l # i /\ responses'[k] = responses[l]
           /\ Exchange'
<1>0. responses \in Seq(Responses) /\ Len(responses) \in Nat
  BY LenProperties DEF TcpTypeOK
<1>1. PICK i \in 1..Len(responses) :
        /\ MessageByID(responses, type) = responses[i] /\ responses[i].type = type
        /\ Len(responses') = Len(responses) - 1
        /\ \A j \in 1..(Len(responses) - 1) :
             responses'[j] = responses[IF j < i THEN j ELSE j + 1]
  BY <1>0, TakenProperties
<1> DEFINE old(j) == IF j < i THEN j ELSE j + 1
<1>2. \A j \in 1..Len(responses') :
        old(j) \in 1..Len(responses) /\ old(j) # i /\ responses'[j] = responses[old(j)]
  BY <1>0, <1>1
<1>3. \A j, k \in 1..Len(responses') : old(j) = old(k) => j = k
  BY <1>0, <1>1
<1>4. \A k : Kept(responses', k) =>
        /\ k \in 1..Len(responses') /\ Kept(responses, old(k)) /\ old(k) # i
        /\ responses'[k] = responses[old(k)]
  BY <1>2 DEF Kept
<1> HIDE DEF old
<1>5. VerdictsKnown'
  BY DEF SessionInv, Exchange, VerdictsKnown
<1>6. RepliesKnown'
  BY <1>2, <1>4 DEF SessionInv, Exchange, RepliesKnown
<1>7. RepliesOnce'
  <2>1. ASSUME NEW j, NEW k, Kept(responses', j), Kept(responses', k),
               responses'[j].msg.ref = responses'[k].msg.ref
        PROVE  j = k
    <3>0. /\ Kept(responses, old(j)) /\ responses'[j] = responses[old(j)]
          /\ Kept(responses, old(k)) /\ responses'[k] = responses[old(k)]
      BY <1>4, <2>1
    <3>1. old(j) = old(k)
      BY <2>1, <3>0 DEF SessionInv, Exchange, RepliesOnce
    <3> QED BY <1>3, <1>4, <2>1, <3>1
  <2>2. \A j, k : Kept(responses', j) /\ Coming(stream', k)
                    => responses'[j].msg.ref # stream'[k].msg.ref
    BY <1>4 DEF SessionInv, Exchange, RepliesOnce
  <2>3. \A j, k : Coming(stream', j) /\ Coming(stream', k)
                    /\ stream'[j].msg.ref = stream'[k].msg.ref => j = k
    BY DEF SessionInv, Exchange, RepliesOnce
  <2> QED BY <2>1, <2>2, <2>3 DEF RepliesOnce
<1>8. responses[i].msg.type = type
  BY <1>1 DEF SessionInv, Exchange, RepliesKnown
<1>9. \A k : Kept(responses', k) =>
        \E l : Kept(responses, l) /\ l # i /\ responses'[k] = responses[l]
  BY <1>4
<1> QED BY <1>1, <1>5, <1>6, <1>7, <1>8, <1>9 DEF Exchange

(* In a session that goes on a judgement either leads to a BYE, or settles *)
(* the request under way as the server's verdict on it says.               *)
JudgedRightly ==
  \E result \in {"ok", "nok"} :
    /\ << LastRequest(requests), result >> \in verdicts
    /\ status' = IF result = "ok" THEN "OPEN" ELSE "START"

(* Judging a response settles the request that waits for it.               *)
LEMMA Judged ==
  ASSUME TcpTypeOK, SessionInv, NEW type, Judge(type),
         net \in {"reply", "err"}, ~goodbye
  PROVE  /\ SessionInv'
         /\ \/ JudgedRightly
            \/ UNCHANGED status
<1>0. UNCHANGED << requests, verdicts, stream, goodbye >>
  BY DEF Judge, sendVars, serverVars
<1>1. PICK i \in 1..Len(responses) :
        /\ MessageByID(responses, type) = responses[i] /\ responses[i].msg.type = type
        /\ \A k : Kept(responses', k) =>
             \E l : Kept(responses, l) /\ l # i /\ responses'[k] = responses[l]
        /\ Exchange'
  BY <1>0, Looked DEF Judge, Found
<1> DEFINE r == responses[i]  last == LastRequest(requests)
<1>2. /\ OneOpen /\ \A pair \in answers : pair[1] = pair[2]
      /\ Asked = last /\ IsRequest(requests, last)
  BY DEF SessionInv, WithoutBye, OneOpen, Asked, LastRequest
<1>3. type = "REPLY" => Kept(responses, i) /\ r.msg.ref = last
  BY <1>1, <1>2 DEF Kept, OneOpen
<1>4. \A pair \in answers' : pair[1] = pair[2]
  <2>1. answers' = IF type = "REPLY" THEN answers \cup {<< last, r.msg.ref >>} ELSE answers
    BY <1>1, <1>2 DEF Judge
  <2> QED BY <1>2, <1>3, <2>1
<1>5. JudgeAuth(r) \/ JudgeJoin(r)
  BY <1>1 DEF Judge
<1>6. CASE net' \in {"bye", "byeBreak"}
  <2>1. UNCHANGED status
    BY <1>5, <1>6 DEF JudgeAuth, JudgeJoin
  <2> QED BY <1>1, <1>4, <1>6, <2>1 DEF SessionInv, WithoutBye
<1>7. CASE net' \notin {"bye", "byeBreak"}
  <2>1. /\ net' \in {"late", "foot"} /\ r.msg.type = "REPLY" /\ r.msg.result \in {"ok", "nok"}
        /\ status' = IF r.msg.result = "ok" THEN "OPEN" ELSE "START"
    BY <1>5, <1>7 DEF JudgeAuth, JudgeJoin, Granted, Denied
  <2>2. Kept(responses, i) /\ r.msg.ref = last
    BY <1>1, <1>3, <2>1
  <2>3. << last, r.msg.result >> \in verdicts
    BY <2>2 DEF SessionInv, Exchange, RepliesKnown
  <2>4. \A k : ~Kept(responses', k)
    BY <1>1, <1>2, <2>2 DEF OneOpen, SessionInv, Exchange, RepliesOnce
  <2>5. \A j : ~Coming(stream', j)
    BY <1>0, <1>2, <2>2, ZenonT(40) DEF OneOpen, SessionInv, Exchange, RepliesOnce
  <2>6. \A n : IsRequest(requests, n) => \E v \in verdicts : v[1] = n
    <3>1. << last, r.msg.result >>[1] = last
      OBVIOUS
    <3> QED BY <1>2, <2>3, <3>1 DEF OneOpen
  <2>7. status' = "OPEN" <=> LastVerdict("ok")
    <3> DEFINE v == << last, r.msg.result >>
    <3>1. v[1] = last /\ v[2] = r.msg.result
      OBVIOUS
    <3>2. \A w \in verdicts : w[1] \in Nat /\ w[1] <= last
      BY <1>2, LastRequestIsLast DEF SessionInv, Exchange, VerdictsKnown, TcpTypeOK, Kinds
    <3>3. last \in Nat
      BY <1>2, LastRequestIsLast DEF TcpTypeOK, Kinds
    <3>4. \A w \in verdicts : w[1] = last => w[2] = r.msg.result
      BY <2>3, <3>1 DEF SessionInv, Exchange, VerdictsKnown
    <3>5. CASE r.msg.result = "ok"
      BY <2>1, <2>3, <3>1, <3>2, <3>5 DEF LastVerdict
    <3>6. CASE r.msg.result # "ok"
      <4>1. ASSUME NEW w \in verdicts, w[2] = "ok", \A u \in verdicts : u[1] <= w[1]
            PROVE  FALSE
        <5>1. last <= w[1]
          BY <2>3, <3>1, <4>1
        <5>2. w[1] = last
          BY <3>2, <3>3, <5>1
        <5> QED BY <3>4, <3>6, <4>1, <5>2
      <4> QED BY <2>1, <3>6, <4>1 DEF LastVerdict
    <3> QED BY <3>5, <3>6
  <2>8. Settled'
    BY <1>0, <2>1, <2>4, <2>5, <2>6, <2>7 DEF Settled, LastVerdict
  <2>9. JudgedRightly
    BY <2>1, <2>3 DEF JudgedRightly
  <2> QED BY <1>0, <1>1, <1>4, <2>1, <2>8, <2>9 DEF SessionInv, WithoutBye
<1> QED BY <1>6, <1>7

(* After a BYE only the exchange with the server is kept account of. *)
LEMMA JudgeSession ==
  ASSUME TcpTypeOK, SessionInv, NEW type, Judge(type), net \in {"reply", "err"}
  PROVE  SessionInv'
<1>1. CASE ~goodbye
  BY <1>1, Judged
<1>2. CASE goodbye
  <2>1. Exchange'
    BY Looked DEF Judge, Found, sendVars, serverVars
  <2>2. goodbye'
    BY <1>2 DEF Judge, sendVars
  <2> QED BY <2>1, <2>2 DEF SessionInv
<1> QED BY <1>1, <1>2

(* Every step of the network thread keeps the exchange.                    *)
LEMMA NetworkSession == TcpTypeOK /\ SessionInv /\ Network => SessionInv'
<1> SUFFICES ASSUME TcpTypeOK, SessionInv, Network PROVE SessionInv'
  OBVIOUS
<1>1. ASSUME NEW from, NEW to, NetQuiet(from, to), UNCHANGED requests, goodbye => goodbye',
             ~goodbye' /\ to \in {"loop", "foot", "late"} => from \in {"loop", "foot", "late"},
             ~goodbye' /\ to \in {"reply", "err", "idle"} => from \in {"reply", "err", "idle"}
      PROVE  SessionInv'
  BY <1>1, QuietSession DEF NetQuiet, NetStep, serverVars
<1>2. ASSUME NetStop \/ NetNoLine \/ NetGoOn \/ NetEof \/ NetClose PROVE SessionInv'
  BY <1>1, <1>2 DEF NetStop, NetNoLine, NetGoOn, NetEof, NetClose, SendBye, sendVars
<1>3. ASSUME NetPoll \/ NetTimeout \/ NetBye PROVE SessionInv'
  BY <1>1, <1>3 DEF NetPoll, NetTimeout, NetBye, SendBye, sendVars
<1>4. ASSUME NetReply \/ NetErr PROVE SessionInv'
  BY <1>1, <1>4, JudgeSession DEF NetReply, NetErr, NotFound, sendVars
<1>5. ASSUME NetLate PROVE SessionInv'
  <2>1. CASE NotFound("ERR", "late", "foot")
    BY <1>1, <2>1 DEF NotFound, sendVars
  <2>2. CASE ~NotFound("ERR", "late", "foot")
    <3>1. /\ HasType(responses, "ERR") /\ responses' = Taken(responses, "ERR")
          /\ UNCHANGED << verdicts, requests, stream, answers, goodbye >> /\ net' = "bye"
      BY <1>5, <2>2 DEF NetLate, Found, NetStep, sendVars, serverVars
    <3>2. Exchange'
      BY <3>1, Looked
    <3>3. net = "late"
      BY <1>5, <2>2 DEF NetLate, NetStep
    <3> QED BY <3>1, <3>2, <3>3 DEF SessionInv, WithoutBye
  <2> QED BY <2>1, <2>2
<1> QED BY <1>2, <1>3, <1>4, <1>5, LinesSession DEF Network, NetWait

(* Every step of the client and of the server keeps the exchange.          *)
LEMMA SessionStep == TcpTypeOK /\ SessionInv /\ [Next]_vars => SessionInv'
<1> SUFFICES ASSUME TcpTypeOK, SessionInv, [Next]_vars PROVE SessionInv'
  OBVIOUS
<1>1. ASSUME UNCHANGED vars PROVE SessionInv'
  BY <1>1, QuietSession DEF vars, threadVars, sendVars, serverVars
<1>2. ASSUME Stdin PROVE SessionInv'
  BY <1>2, QuietSession
     DEF Stdin, StdinGoesOn, StdinOnly, threadVars, sendVars, serverVars
<1>3. ASSUME Signal \/ Exit \/ SendFails PROVE SessionInv'
  BY <1>3, QuietSession
     DEF Signal, SigInt, SigBye, SigStop, SigStep, Exit, SendFails, SendBye, sendVars, serverVars
<1>4. ASSUME RecvBye \/ RecvClose \/ RecvStop PROVE SessionInv'
  BY <1>4, QuietSession
     DEF RecvBye, RecvClose, RecvStop, RecvStep, SendBye, sendVars, serverVars
<1>5. ASSUME Receiver PROVE SessionInv'
  BY <1>4, <1>5, TakeSession DEF Receiver
<1> QED BY <1>1, <1>2, <1>3, <1>5, ServerSession, NetworkSession DEF Next, Ended, Running

(* A client that has just started has no exchange open.                    *)
LEMMA SessionInit == Init => SessionInv
<1> SUFFICES ASSUME Init PROVE SessionInv
  OBVIOUS
<1>1. Len(responses) = 0 /\ Len(stream) = 0 /\ Len(requests) = 0 /\ verdicts = {}
  BY DEF Init
<1>2. Exchange
  BY <1>1 DEF Exchange, VerdictsKnown, RepliesKnown, RepliesOnce, Kept, Coming
<1>3. Settled
  BY <1>1 DEF Init, Settled, IsRequest, Kept, Coming, LastVerdict
<1> QED BY <1>2, <1>3 DEF Init, SessionInv, WithoutBye

(* The types and the exchange hold in every reachable state.               *)
LEMMA SessionCorrect == Spec => [](TcpTypeOK /\ SessionInv)
BY TcpTypeInit, TcpTypeStep, SessionInit, SessionStep, PTL DEF Spec

(* Over TCP a REPLY is taken for the request it answers, as long as the    *)
(* session goes on, however recv cuts the stream.                          *)
THEOREM RepliesCorrect == Spec => []RepliesMatch
<1>1. SessionInv => RepliesMatch
  BY DEF SessionInv, WithoutBye, RepliesMatch
<1> QED BY <1>1, SessionCorrect, PTL

(* Over TCP, between two commands, the client believes it is authenticated *)
(* exactly if the server's last verdict was good.                          *)
THEOREM SessionsCorrect == Spec => []SessionsAgree
<1>1. SessionInv => SessionsAgree
  BY DEF SessionInv, WithoutBye, Settled, SessionsAgree
<1> QED BY <1>1, SessionCorrect, PTL
-----------------------------------------------------------------------------
(* A step that asks nothing, judges nothing and takes nothing back is none *)
(* of the session, or its end.                                             *)
LEMMA QuietRefines ==
  ASSUME UNCHANGED << status, requests, verdicts >>, goodbye' \in {goodbye, TRUE}
  PROVE  [Session!CSNext]_(Session!csVars)
BY DEF Session!CSNext, Session!Leave, Session!csVars

(* An error reported by the receiver *)
LEMMA TakeRefines == \A n : Take(n) => [Session!CSNext]_(Session!csVars)
<1> SUFFICES ASSUME NEW n, Take(n) PROVE [Session!CSNext]_(Session!csVars)
  OBVIOUS
<1>1. UNCHANGED << status, verdicts, goodbye >> /\ (UNCHANGED requests \/ SendMessage("ERR"))
  BY DEF Take, TakeInvalid, TakeErr, TakeUnread, TakeResponse, Receive, SendMessage, sendVars
<1> QED BY <1>1
        DEF Session!CSNext, Session!Complain, Session!Sends, Session!csVars, SendMessage

(* The server's verdict *)
LEMMA ServerRefines == TcpTypeOK /\ Server => [Session!CSNext]_(Session!csVars)
<1> SUFFICES ASSUME TcpTypeOK, Server PROVE [Session!CSNext]_(Session!csVars)
  OBVIOUS
<1>1. ASSUME NEW n \in DOMAIN requests, ServerReply(n) PROVE Session!Decide
  <2>1. PICK result \in ReplyResults : verdicts' = verdicts \cup {<< n, result >>}
    BY <1>1 DEF ServerReply
  <2>2. result \in {"ok", "nok", "other"}
    BY ServerAssumption DEF ServerAssumption
  <2>3. UNCHANGED << status, requests, goodbye >>
    BY <1>1 DEF ServerReply, Make, sendVars
  <2> QED BY <1>1, <2>1, <2>2, <2>3 DEF Session!Decide, ServerReply, Unanswered
<1>2. ASSUME NEW type, ServerSay(type) \/ ServerClose
      PROVE  UNCHANGED << status, requests, verdicts, goodbye >>
  BY <1>2 DEF ServerSay, Make, ServerClose, sendVars
<1> QED BY <1>1, <1>2 DEF Server, Session!CSNext, Session!csVars

(* A line sent is a login, or asked for while authenticated. *)
LEMMA LinesRefine == NetLines => [Session!CSNext]_(Session!csVars)
<1> SUFFICES ASSUME NetLines PROVE [Session!CSNext]_(Session!csVars)
  OBVIOUS
<1>1. UNCHANGED << verdicts >>
  BY DEF NetLines, LineWithoutMessage, LineRefused, LineMsg, LineAuth, LineJoin, NetLine, NetStep,
         serverVars
<1>2. ASSUME LineWithoutMessage \/ LineRefused PROVE UNCHANGED Session!csVars
  BY <1>1, <1>2 DEF LineWithoutMessage, LineRefused, Session!csVars, sendVars
<1>3. ASSUME LineMsg \/ LineJoin PROVE Session!Ask
  BY <1>1, <1>3 DEF LineMsg, LineJoin, SendMessage, Session!Ask, Session!Sends
<1>4. ASSUME LineAuth PROVE Session!Login
  BY <1>1, <1>4 DEF LineAuth, SendMessage, Session!Login, Session!Sends
<1> QED BY <1>2, <1>3, <1>4 DEF NetLines, Session!CSNext

(* A judgement makes a verdict take effect, on the latest of its kind. *)
LEMMA JudgeRefines ==
  ASSUME TcpTypeOK, SessionInv, NEW type, Judge(type), net \in {"reply", "err"}
  PROVE  [Session!CSNext]_(Session!csVars)
<1>0. UNCHANGED << requests, verdicts, goodbye >>
  BY DEF Judge, sendVars, serverVars
<1>1. CASE goodbye
  BY <1>0, <1>1 DEF Session!CSNext
<1>2. CASE ~goodbye /\ UNCHANGED status
  BY <1>0, <1>2 DEF Session!csVars
<1>3. CASE ~goodbye /\ JudgedRightly
  <2> DEFINE last == LastRequest(requests)
  <2>1. PICK result \in {"ok", "nok"} :
          << last, result >> \in verdicts /\ status' = IF result = "ok" THEN "OPEN" ELSE "START"
    BY <1>3 DEF JudgedRightly
  <2>2. OneOpen
    BY <1>3 DEF SessionInv, WithoutBye
  <2>3. \A kind \in {"AUTH", "JOIN"} :
          requests[last] = kind => Session!Latest(kind, last)
    <3>1. /\ IsRequest(requests, last) /\ last \in Nat
          /\ \A m : IsRequest(requests, m) => m \in Nat /\ m <= last
      BY <2>2, LastRequestIsLast DEF OneOpen, TcpTypeOK, Kinds
    <3>2. DOMAIN requests = 1..Len(requests)
      BY LenProperties DEF TcpTypeOK
    <3>3. \A m \in DOMAIN requests : m > last => requests[m] \notin {"AUTH", "JOIN"}
      BY <3>1, <3>2 DEF IsRequest
    <3> QED BY <3>1, <3>2, <3>3 DEF Session!Latest, IsRequest
  <2>4. \A kind \in {"AUTH", "JOIN"} :
          requests[last] = kind =>
            \E v \in verdicts : Session!Latest(kind, v[1]) /\ (v[2] = "ok") = (result = "ok")
    <3>1. << last, result >>[1] = last /\ << last, result >>[2] = result
      OBVIOUS
    <3> QED BY <2>1, <2>3, <3>1
  <2>5. CASE requests[last] = "AUTH"
    <3>1. status = "AUTH"
      BY <2>2, <2>5 DEF OneOpen
    <3> QED BY <1>0, <2>1, <2>4, <2>5, <3>1
            DEF Session!CSNext, Session!Granted, Session!Refused, Session!TakeEffect
  <2>6. CASE requests[last] = "JOIN"
    <3>1. status = "OPEN"
      BY <2>2, <2>6 DEF OneOpen
    <3>2. CASE result = "ok"
      BY <1>0, <2>1, <3>1, <3>2 DEF Session!csVars
    <3>3. CASE result = "nok"
      BY <1>0, <2>1, <2>4, <2>6, <3>1, <3>3
         DEF Session!CSNext, Session!JoinRefused, Session!TakeEffect
    <3> QED BY <3>2, <3>3
  <2> QED BY <2>2, <2>5, <2>6 DEF OneOpen, IsRequest
<1> QED BY <1>1, <1>2, <1>3, Judged

(* Every step of the network thread is a step of the abstract session.     *)
LEMMA NetworkRefines ==
  TcpTypeOK /\ SessionInv /\ Network => [Session!CSNext]_(Session!csVars)
<1> SUFFICES ASSUME TcpTypeOK, SessionInv, Network PROVE [Session!CSNext]_(Session!csVars)
  OBVIOUS
<1>1. ASSUME NEW from, NEW to, NetQuiet(from, to), UNCHANGED requests, goodbye' \in {goodbye, TRUE}
      PROVE  [Session!CSNext]_(Session!csVars)
  BY <1>1, QuietRefines DEF NetQuiet, NetStep, serverVars
<1>2. ASSUME NetStop \/ NetNoLine \/ NetGoOn \/ NetEof \/ NetClose
      PROVE  [Session!CSNext]_(Session!csVars)
  BY <1>1, <1>2 DEF NetStop, NetNoLine, NetGoOn, NetEof, NetClose, SendBye, sendVars
<1>3. ASSUME NetPoll \/ NetTimeout \/ NetBye PROVE [Session!CSNext]_(Session!csVars)
  BY <1>1, <1>3 DEF NetPoll, NetTimeout, NetBye, SendBye, sendVars
<1>4. ASSUME NetReply \/ NetErr PROVE [Session!CSNext]_(Session!csVars)
  BY <1>1, <1>4, JudgeRefines DEF NetReply, NetErr, NotFound, sendVars
<1>5. ASSUME NetLate PROVE [Session!CSNext]_(Session!csVars)
  BY <1>5, QuietRefines DEF NetLate, NotFound, NetQuiet, NetStep, sendVars, serverVars
<1> QED BY <1>2, <1>3, <1>4, <1>5, LinesRefine DEF Network, NetWait

(* Every step of the client and of the server is a step of the abstract    *)
(* session, or none.                                                       *)
LEMMA StepRefines ==
  TcpTypeOK /\ SessionInv /\ [Next]_vars => [Session!CSNext]_(Session!csVars)
<1> SUFFICES ASSUME TcpTypeOK, SessionInv, [Next]_vars PROVE [Session!CSNext]_(Session!csVars)
  OBVIOUS
<1>1. ASSUME UNCHANGED vars \/ Stdin PROVE [Session!CSNext]_(Session!csVars)
  BY <1>1, QuietRefines
     DEF vars, Stdin, StdinGoesOn, StdinOnly, sendVars, serverVars
<1>2. ASSUME Signal \/ Exit \/ SendFails PROVE [Session!CSNext]_(Session!csVars)
  BY <1>2, QuietRefines
     DEF Signal, SigInt, SigBye, SigStop, SigStep, Exit, SendFails, SendBye, sendVars, serverVars
<1>3. ASSUME RecvBye \/ RecvClose \/ RecvStop PROVE [Session!CSNext]_(Session!csVars)
  BY <1>3, QuietRefines DEF RecvBye, RecvClose, RecvStop, RecvStep, SendBye, sendVars, serverVars
<1> QED BY <1>1, <1>2, <1>3, TakeRefines, ServerRefines, NetworkRefines
        DEF Next, Ended, Running, Receiver

(* The client over TCP keeps a chat session.                               *)
THEOREM TcpSessionCorrect == Spec => ImplementsChatSession
<1>1. Init => Session!CSInit
  BY DEF Init, Session!CSInit
<1> QED BY <1>1, StepRefines, SessionCorrect, PTL
        DEF Spec, ImplementsChatSession, Session!CSSpec
=============================================================================
