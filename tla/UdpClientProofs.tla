-------------------------- MODULE UdpClientProofs --------------------------
(***************************************************************************)
(* Proofs about the whole client in UDP mode: it keeps the rules of        *)
(* ConfirmedSend, so that what is proved of that module holds of it.       *)
(***************************************************************************)
EXTENDS UdpClient, ConfirmedSendProofs

(* A quiet step of any thread does nothing to confirmed sending. *)
CoreStep == [CoreNext]_coreVars

(* The actions of ConfirmedSend are steps of it, by whatever thread. *)
LEMMA CoreActions ==
  /\ \A k \in Callers, c \in ConfThreads : Send(k, c) \/ SendWhileHolding(k, c) => CoreStep
  /\ \A c \in ConfThreads : ConfStep(c) => CoreStep
  /\ \A k \in Callers : Wake(k) \/ Unlock(k) => CoreStep
  /\ \A id \in WireIDs : ReceiveConfirm(id) => CoreStep
  /\ ClearBuffer \/ SendBye \/ StopNetwork \/ UNCHANGED coreVars => CoreStep
BY DEF CoreStep, CoreNext

(* The network and the receiver thread are the callers. *)
LEMMA TwoCallers == NetworkThread \in Callers /\ ReceiverThread \in Callers
BY CallersAssumption DEF CallersAssumption

(* What a thread that sends does *)
LEMMA SendMessageCore ==
  \A k \in Callers : \A kind : SendMessage(k, kind) => CoreStep
BY CoreActions DEF SendMessage

(* The stdin thread has no part in confirmed sending. *)
LEMMA StdinCore == Stdin => CoreStep
BY CoreActions DEF Stdin, StdinGoesOn, StdinOnly, coreVars

(* The signal thread ends the session and sends a BYE. *)
LEMMA SignalCore == Signal => CoreStep
BY CoreActions DEF Signal, SigInt, SigBye, SigStop

(* The server makes datagrams; what it got came through Transmit. *)
LEMMA ServerCore == Server => CoreStep
BY CoreActions DEF Server, ServerReply, ServerSay, Make

(* The receiver thread after an invalid datagram, and at its end *)
LEMMA ReceiverCore == Receiver => CoreStep
BY CoreActions, TwoCallers
   DEF Receiver, RecvWake, RecvBye, RecvClose, RecvUnlock, RecvStop, RecvClear

(* What arrives: a CONFIRM, a datagram to keep, or one to report *)
LEMMA ArrivalCore == TypeOK /\ Arrival => CoreStep
<1> SUFFICES ASSUME TypeOK, Arrival PROVE CoreStep
  OBVIOUS
<1>1. ASSUME NEW id \in inflight, TakeConfirm(id) PROVE CoreStep
  BY <1>1, CoreActions DEF TakeConfirm, TypeOK
<1>2. ASSUME NEW d, TakeResponse(d) \/ TakeMsg(d) PROVE CoreStep
  BY <1>2, CoreActions DEF TakeResponse, TakeMsg
<1>3. ASSUME NEW d, TakeInvalid(d) PROVE CoreStep
  BY <1>3, SendMessageCore, TwoCallers DEF TakeInvalid
<1> QED BY <1>1, <1>2, <1>3 DEF Arrival

(* Handling and reporting a datagram in the network thread *)
LEMMA HandlingCore ==
  /\ \A d, from, to : Handled(d, from, to) => CoreStep
  /\ \A d, from : ReportInvalid(d, from) => CoreStep
  /\ \A from, to : Looked(from, to) => CoreStep
BY CoreActions, TwoCallers DEF Handled, ReportInvalid, Looked

(* The network thread sends, wakes, says BYE and unlocks in its turn. *)
LEMMA NetworkCore == Network => CoreStep
<1>1. NetStop \/ NetIdle \/ NetEof \/ NetClose => CoreStep
  BY CoreActions DEF NetStop, NetIdle, NetEof, NetClose
<1>2. NetLines => CoreStep
  BY CoreActions, SendMessageCore, TwoCallers
     DEF NetLines, LineWithoutMessage, LineRefused, LineMsg, LineAuth, LineJoin
<1>3. NetWake \/ NetBye \/ NetLeave \/ NetAgain => CoreStep
  BY CoreActions, TwoCallers DEF NetWake, NetBye, NetLeave, NetAgain
<1>4. MsgErr \/ MsgBye => CoreStep
  BY HandlingCore DEF MsgErr, MsgBye
<1>5. NetAuth => CoreStep
  BY HandlingCore, CoreActions DEF NetAuth, AuthReply, AuthErr, AuthTimeout, AuthErrBye, AuthLate
<1>6. JoinReply \/ JoinErr \/ JoinBye => CoreStep
  BY HandlingCore, CoreActions DEF JoinReply, JoinErr, JoinBye
<1> QED BY <1>1, <1>2, <1>3, <1>4, <1>5, <1>6 DEF Network

(* Whatever thread takes a step, it is one of confirmed sending, or none. *)
LEMMA ClientStep == TypeOK /\ [Next]_vars => CoreStep
<1> SUFFICES ASSUME TypeOK, [Next]_vars PROVE CoreStep
  OBVIOUS
<1>1. ASSUME Running PROVE CoreStep
  <2>1. ASSUME Exit PROVE CoreStep
    BY <2>1, CoreActions DEF Exit
  <2>2. ASSUME NEW c \in ConfThreads, ConfirmThread(c) PROVE CoreStep
    BY <2>2, CoreActions DEF ConfirmThread
  <2> QED BY <1>1, <2>1, <2>2, StdinCore, SignalCore, NetworkCore, ArrivalCore,
             ReceiverCore, ServerCore DEF Running
<1>2. ASSUME UNCHANGED vars PROVE CoreStep
  BY <1>2, CoreActions DEF vars
<1> QED BY <1>1, <1>2 DEF Next, Ended

(* The four threads of the client and the confirm threads they start keep  *)
(* the rules of confirmed sending: no thread sends, wakes or unlocks out   *)
(* of turn, for any input and any behaviour of server and network.         *)
THEOREM CoreStepsCorrect == Spec => CoreSteps
<1>1. Init => CoreInit /\ TypeOK
  BY TypeInit DEF Init
<1>2. TypeOK /\ [Next]_vars => [CoreNext]_coreVars
  BY ClientStep DEF CoreStep
<1>3. TypeOK /\ [Next]_vars => TypeOK'
  BY <1>2, TypeStep
<1> QED BY <1>1, <1>2, <1>3, PTL DEF Spec, CoreSteps, CoreSpec

(* So the receiver and the network thread never handle what they received  *)
(* while a confirm thread transmits, ...                                   *)
THEOREM ClientMutex == Spec => []MutexOwned
BY CoreStepsCorrect, MutexCorrect, PTL DEF CoreSteps

(* ... when neither waits no flag is up and no confirm thread alive, so    *)
(* that what one of them sends then is not let go by what came before - a  *)
(* message sent while the other waits may be let go by the other's flag -, *)
THEOREM ClientNoFlagLeft == Spec => []NoFlagLeft
BY CoreStepsCorrect, NoFlagLeftCorrect, PTL DEF CoreSteps

(* ... and the ERR of a network thread that locks itself out stays unsent. *)
THEOREM ClientSilent == Spec => []StuckIsSilent
BY CoreStepsCorrect, SilentCorrect, PTL DEF CoreSteps

(* No message of either keeps its confirm thread, and with it the mutex,   *)
(* longer than its transmissions last.                                     *)
THEOREM ClientStepsRunOut == Spec => []StepsBounded /\ StepsRunOut
BY CoreStepsCorrect, StepsRunOutCorrect, PTL DEF CoreSteps
-----------------------------------------------------------------------------
(* A confirm thread that closes has said BYE. *)
ClosingSaidBye == \A c \in ConfThreads : conf[c].pc = "closing" => byes # {}

(* Where the network thread is when it must have said BYE already: on its  *)
(* way out of a command, and in the last look after an AUTH that brought   *)
(* no usable REPLY.                                                        *)
NetSaidBye ==
  /\ net \in {"leave", "close"} => byes # {}
  /\ net = "authReply" => todo = 0
  /\ net = "authErr" => todo \in {0, 1}
  /\ net = "authLate" /\ todo # 1 => byes # {}

(* GoodbyeBeforeClose, strengthened by where each of the four threads that *)
(* can end the session stands between its BYE and the end.                 *)
GoodbyeInv ==
  /\ GoodbyeBeforeClose /\ ClosingSaidBye /\ NetSaidBye
  /\ recv = "stop" => byes # {}

(* No BYE is ever taken back, and the confirm threads keep their part. *)
LEMMA ByesGrow ==
  ASSUME TypeOK, ClosingSaidBye, CoreStep
  PROVE  ClosingSaidBye' /\ (byes # {} => byes' # {})
<1>t. conf \in [ConfThreads -> ConfStates]
  BY DEF TypeOK
<1>1. ASSUME NEW k \in Callers, NEW c \in ConfThreads, Send(k, c) \/ SendWhileHolding(k, c)
      PROVE  ClosingSaidBye' /\ byes' = byes
  BY <1>1, <1>t DEF Send, SendWhileHolding, StartConfirmThread, ClosingSaidBye, IdleConf
<1>2. ASSUME NEW c \in ConfThreads, ConfStep(c)
      PROVE  ClosingSaidBye' /\ (byes # {} => byes' # {})
  <2>1. CASE ReadExpected(c)   BY <2>1, <1>t DEF ReadExpected, ClosingSaidBye
  <2>2. CASE LockAndCount(c)   BY <2>2, <1>t DEF LockAndCount, ClosingSaidBye
  <2>3. CASE Transmit(c)       BY <2>3, <1>t DEF Transmit, ClosingSaidBye
  <2>4. CASE Confirmed(c)      BY <2>4, <1>t DEF Confirmed, ClosingSaidBye, IdleConf
  <2>5. CASE TimeOut(c)        BY <2>5, <1>t DEF TimeOut, ClosingSaidBye
  <2>6. CASE GiveUp(c)         BY <2>6, <1>t DEF GiveUp, ClosingSaidBye
  <2>7. CASE CloseAfterLoss(c) BY <2>7, <1>t DEF CloseAfterLoss, ClosingSaidBye, IdleConf
  <2>8. CASE Look(c)           BY <2>8, <1>t DEF Look, ClosingSaidBye
  <2> QED BY <1>2, <2>1, <2>2, <2>3, <2>4, <2>5, <2>6, <2>7, <2>8 DEF ConfStep
<1>3. ASSUME UNCHANGED conf, byes \subseteq byes'
      PROVE  ClosingSaidBye' /\ (byes # {} => byes' # {})
  BY <1>3 DEF ClosingSaidBye
<1>4. ASSUME NEW k \in Callers, Wake(k) \/ Unlock(k) PROVE UNCHANGED conf /\ byes \subseteq byes'
  BY <1>4 DEF Wake, Unlock
<1>5. ASSUME NEW id \in WireIDs, ReceiveConfirm(id) PROVE UNCHANGED conf /\ byes \subseteq byes'
  BY <1>5 DEF ReceiveConfirm
<1>6. ClearBuffer \/ SendBye \/ StopNetwork \/ UNCHANGED coreVars
      => UNCHANGED conf /\ byes \subseteq byes'
  BY DEF ClearBuffer, SendBye, StopNetwork, coreVars
<1> QED BY <1>1, <1>2, <1>3, <1>4, <1>5, <1>6 DEF CoreStep, CoreNext

(* A step that moves neither the network nor the signal thread and lets    *)
(* the network flag be *)
LEMMA GoodbyeFrame ==
  ASSUME TypeOK, GoodbyeInv, CoreStep,
         UNCHANGED << network, sig, net, todo >>, recv' = recv \/ recv' # "stop"
  PROVE  GoodbyeInv'
BY ByesGrow DEF GoodbyeInv, GoodbyeBeforeClose, NetSaidBye

(* A step of the network thread that lets the network flag be *)
LEMMA GoodbyeNet ==
  ASSUME TypeOK, GoodbyeInv, CoreStep, UNCHANGED << network, sig, recv >>, NetSaidBye'
  PROVE  GoodbyeInv'
BY ByesGrow DEF GoodbyeInv, GoodbyeBeforeClose

(* sendByeUDP says BYE and ends nothing. *)
LEMMA ByeIsSaid == SendBye => byes' # {} /\ UNCHANGED network
BY DEF SendBye

(* What a thread does in confirmed sending does not end the session. *)
LEMMA NetworkKept ==
  /\ \A k \in Callers, c \in ConfThreads :
       Send(k, c) \/ SendWhileHolding(k, c) => UNCHANGED network
  /\ \A k \in Callers : Wake(k) \/ Unlock(k) => UNCHANGED network
  /\ \A id \in WireIDs : ReceiveConfirm(id) => UNCHANGED network
  /\ ClearBuffer \/ UNCHANGED coreVars => UNCHANGED network
BY DEF Send, SendWhileHolding, StartConfirmThread, Wake, Unlock, ReceiveConfirm,
       ClearBuffer, coreVars

(* The stdin thread never ends the session. *)
LEMMA GoodbyeStdin == TypeOK /\ GoodbyeInv /\ Stdin => GoodbyeInv'
<1> SUFFICES ASSUME TypeOK, GoodbyeInv, Stdin PROVE GoodbyeInv'
  OBVIOUS
<1>1. UNCHANGED << coreVars, sig, recv, net, todo >>
  BY DEF Stdin, StdinGoesOn, StdinOnly, netVars
<1> QED BY <1>1, StdinCore, GoodbyeFrame DEF coreVars

(* Nor does the server by what it makes. *)
LEMMA GoodbyeServer == TypeOK /\ GoodbyeInv /\ Server => GoodbyeInv'
<1> SUFFICES ASSUME TypeOK, GoodbyeInv, Server PROVE GoodbyeInv'
  OBVIOUS
<1>1. UNCHANGED << coreVars, sig, recv, net, todo >>
  BY DEF Server, ServerReply, ServerSay, Make, netVars
<1> QED BY <1>1, ServerCore, GoodbyeFrame DEF coreVars

(* The signal thread ends it, and then says BYE. *)
LEMMA GoodbyeSignal == TypeOK /\ GoodbyeInv /\ Signal => GoodbyeInv'
<1> SUFFICES ASSUME TypeOK, GoodbyeInv, Signal PROVE GoodbyeInv'
  OBVIOUS
<1>1. UNCHANGED << recv, net, todo >> /\ CoreStep
  BY SignalCore DEF Signal, SigInt, SigBye, SigStop, netVars
<1>2. ClosingSaidBye' /\ (byes # {} => byes' # {})
  BY <1>1, ByesGrow DEF GoodbyeInv
<1>3. NetSaidBye' /\ (recv' = "stop" => byes' # {})
  BY <1>1, <1>2 DEF GoodbyeInv, NetSaidBye
<1>4. GoodbyeBeforeClose'
  <2>1. CASE SigInt
    BY <2>1 DEF SigInt, GoodbyeBeforeClose
  <2>2. CASE SigBye
    BY <2>2, ByeIsSaid DEF SigBye, GoodbyeBeforeClose
  <2>3. CASE SigStop
    BY <2>3 DEF SigStop, GoodbyeBeforeClose, GoodbyeInv, coreVars
  <2> QED BY <2>1, <2>2, <2>3 DEF Signal
<1> QED BY <1>2, <1>3, <1>4 DEF GoodbyeInv

(* A confirm thread ends it after a loss, when the BYE is out. *)
LEMMA GoodbyeConf ==
  ASSUME TypeOK, GoodbyeInv, NEW c \in ConfThreads, ConfirmThread(c)
  PROVE  GoodbyeInv'
<1>1. UNCHANGED << recv, net, todo, sig >> /\ CoreStep
  BY CoreActions DEF ConfirmThread, clientVars, netVars
<1>2. ClosingSaidBye' /\ (byes # {} => byes' # {})
  BY <1>1, ByesGrow DEF GoodbyeInv
<1>3. UNCHANGED network \/ byes # {}
  <2>1. CASE CloseAfterLoss(c)
    BY <2>1 DEF CloseAfterLoss, GoodbyeInv, ClosingSaidBye
  <2>2. CASE ~CloseAfterLoss(c)
    BY <2>2 DEF ConfirmThread, ConfStep, ReadExpected, LockAndCount, Transmit, Look, Confirmed,
                TimeOut, GiveUp
  <2> QED BY <2>1, <2>2
<1> QED BY <1>1, <1>2, <1>3 DEF GoodbyeInv, GoodbyeBeforeClose, NetSaidBye

(* A datagram that arrives does not end it by itself. *)
LEMMA GoodbyeArrival == TypeOK /\ GoodbyeInv /\ Arrival => GoodbyeInv'
<1> SUFFICES ASSUME TypeOK, GoodbyeInv, Arrival PROVE GoodbyeInv'
  OBVIOUS
<1>1. UNCHANGED << network, sig, net, todo >> /\ recv' \in {recv, "wait"}
  <2>1. ASSUME NEW id \in inflight, TakeConfirm(id)
        PROVE  UNCHANGED << network, sig, net, todo >> /\ recv' \in {recv, "wait"}
    BY <2>1 DEF TakeConfirm, ReceiveConfirm, clientVars, netVars
  <2>2. ASSUME NEW d, TakeResponse(d) \/ TakeMsg(d)
        PROVE  UNCHANGED << network, sig, net, todo >> /\ recv' \in {recv, "wait"}
    BY <2>2 DEF TakeResponse, TakeMsg, Take, netVars, coreVars
  <2>3. ASSUME NEW d, TakeInvalid(d)
        PROVE  UNCHANGED << network, sig, net, todo >> /\ recv' \in {recv, "wait"}
    BY <2>3, NetworkKept, TwoCallers DEF TakeInvalid, SendMessage, Take, netVars
  <2> QED BY <2>1, <2>2, <2>3 DEF Arrival
<1> QED BY <1>1, ArrivalCore, GoodbyeFrame

(* The receiver ends it after an ERR of its own and a BYE. *)
LEMMA GoodbyeReceiver == TypeOK /\ GoodbyeInv /\ Receiver => GoodbyeInv'
<1> SUFFICES ASSUME TypeOK, GoodbyeInv, Receiver PROVE GoodbyeInv'
  OBVIOUS
<1>1. UNCHANGED << sig, net, todo >> /\ CoreStep
  BY ReceiverCore DEF Receiver, RecvStep, RecvWake, RecvBye, RecvClose, RecvUnlock,
                      RecvStop, RecvClear, netVars
<1>2. ClosingSaidBye' /\ (byes # {} => byes' # {})
  BY <1>1, ByesGrow DEF GoodbyeInv
<1>3. CASE RecvWake \/ RecvUnlock \/ RecvStop \/ RecvClear
  <2>1. UNCHANGED network /\ recv' # "stop"
    BY <1>3, NetworkKept, TwoCallers
       DEF RecvWake, RecvUnlock, RecvStop, RecvClear, RecvStep
  <2> QED BY <1>1, <2>1, GoodbyeFrame
<1>4. CASE RecvBye
  <2>1. byes' # {}
    BY <1>4, ByeIsSaid DEF RecvBye
  <2> QED BY <1>1, <1>2, <2>1 DEF GoodbyeInv, GoodbyeBeforeClose, NetSaidBye
<1>5. CASE RecvClose
  <2>1. byes # {}
    BY <1>5 DEF RecvClose, RecvStep, GoodbyeInv
  <2> QED BY <1>1, <1>2, <2>1 DEF GoodbyeInv, GoodbyeBeforeClose, NetSaidBye
<1> QED BY <1>3, <1>4, <1>5 DEF Receiver

(* Looking up, handling and reporting a datagram leave the flag alone. *)
LEMMA HandlingKeeps ==
  /\ \A d, from, to : Handled(d, from, to) =>
       net' = to /\ UNCHANGED << network, sig, recv, byes >>
  /\ \A d, from : ReportInvalid(d, from) =>
       net' = "stuck" /\ UNCHANGED << network, sig, recv >>
  /\ \A from, to : Looked(from, to) =>
       net = from /\ net' = to /\ UNCHANGED << network, sig, recv, byes >>
<1>1. \A d, from, to : Handled(d, from, to) =>
        net' = to /\ UNCHANGED << network, sig, recv, byes >>
  BY DEF Handled, NetStep, coreVars
<1>2. \A d, from : ReportInvalid(d, from) =>
        net' = "stuck" /\ UNCHANGED << network, sig, recv >>
  BY NetworkKept, TwoCallers DEF ReportInvalid, NetStep
<1>3. \A from, to : Looked(from, to) =>
        net = from /\ net' = to /\ UNCHANGED << network, sig, recv, byes >>
  BY DEF Looked, NetQuiet, NetStep, coreVars
<1> QED BY <1>1, <1>2, <1>3

(* The network thread ends it in NetClose alone, with the BYE said. *)
LEMMA GoodbyeNetwork == TypeOK /\ GoodbyeInv /\ Network => GoodbyeInv'
<1> SUFFICES ASSUME TypeOK, GoodbyeInv, Network PROVE GoodbyeInv'
  OBVIOUS
<1>1. CoreStep /\ NetSaidBye
  BY NetworkCore DEF GoodbyeInv
<1>2. byes # {} => byes' # {}
  BY <1>1, ByesGrow DEF GoodbyeInv
<1> DEFINE Kept == UNCHANGED << network, sig, recv >>
<1>3. ASSUME Kept, NetSaidBye' PROVE GoodbyeInv'
  BY <1>1, <1>3, GoodbyeNet
<1>4. ASSUME Kept, net' \notin {"leave", "close", "authReply", "authErr", "authLate"}
      PROVE  GoodbyeInv'
  BY <1>3, <1>4 DEF NetSaidBye
<1>5. ASSUME Kept, byes' # {}, net' \notin {"authReply", "authErr"} PROVE GoodbyeInv'
  BY <1>3, <1>5 DEF NetSaidBye
<1>6. CASE NetStop \/ NetIdle
  BY <1>4, <1>6 DEF NetStop, NetIdle, NetQuiet, NetStep, coreVars
<1>7. CASE NetEof
  <2>1. CASE stdinEof
    BY <1>5, <1>7, <2>1, ByeIsSaid DEF NetEof, NetQuiet, NetStep
  <2>2. CASE ~stdinEof
    BY <1>4, <1>7, <2>2 DEF NetEof, NetQuiet, NetStep, coreVars
  <2> QED BY <2>1, <2>2
<1>8. CASE NetClose
  <2>1. byes # {} /\ net' = "done" /\ UNCHANGED << sig, recv >>
    BY <1>1, <1>8 DEF NetClose, NetQuiet, NetStep, NetSaidBye
  <2> QED BY <1>1, <1>2, <2>1, ByesGrow DEF GoodbyeInv, GoodbyeBeforeClose, NetSaidBye
<1>9. CASE NetLines
  <2>1. Kept
    BY <1>9, NetworkKept, TwoCallers
       DEF NetLines, LineWithoutMessage, LineRefused, LineMsg, LineAuth, LineJoin,
           NetLine, SendMessage
  <2>2. net' \in {"loop", "eof", "waitMsg", "waitAuth", "waitJoin"}
    BY <1>9 DEF NetLines, LineWithoutMessage, LineRefused, LineMsg, LineAuth, LineJoin, NetLine
  <2> QED BY <1>4, <2>1, <2>2
<1>10. CASE NetWake
  <2>1. Kept /\ todo' = 0 /\ net' \in {"msgErr", "authReply", "joinReply"}
    BY <1>10, NetworkKept, TwoCallers DEF NetWake, NetQuiet, NetStep
  <2> QED BY <1>3, <2>1 DEF NetSaidBye
<1>11. CASE NetBye
  BY <1>5, <1>11, ByeIsSaid DEF NetBye, NetQuiet, NetStep
<1>12. CASE NetLeave
  <2>1. Kept /\ net = "leave" /\ net' = "close"
    BY <1>12, NetworkKept, TwoCallers DEF NetLeave, NetQuiet, NetStep
  <2> QED BY <1>1, <1>2, <1>5, <2>1 DEF NetSaidBye
<1>13. CASE NetAgain
  BY <1>4, <1>13, NetworkKept, TwoCallers DEF NetAgain, NetQuiet, NetStep
<1>14. CASE MsgErr \/ MsgBye
  <2>1. Kept /\ net' \in {"msgBye", "bye", "stuck", "again"}
    BY <1>14, HandlingKeeps DEF MsgErr, MsgBye
  <2> QED BY <1>4, <2>1
<1>15. CASE AuthReply
  <2>1. CASE Looked("authReply", "authErr") /\ UNCHANGED todo
    <3>1. Kept /\ net = "authReply" /\ net' = "authErr" /\ todo' = todo
      BY <2>1, HandlingKeeps
    <3> QED BY <1>1, <1>3, <3>1 DEF NetSaidBye
  <2>2. CASE Handled(Oldest("REPLY"), "authReply", "authErr") /\ todo' = 1
    <3>1. Kept /\ net' = "authErr" /\ todo' = 1
      BY <2>2, HandlingKeeps
    <3> QED BY <1>3, <3>1 DEF NetSaidBye
  <2>3. CASE ReportInvalid(Oldest("REPLY"), "authReply")
    BY <1>4, <2>3, HandlingKeeps
  <2> QED BY <1>15, <2>1, <2>2, <2>3 DEF AuthReply
<1>16. CASE AuthErr
  <2>1. CASE Looked("authErr", IF todo = 0 THEN "authReply" ELSE "authLate") /\ UNCHANGED todo
    <3>1. /\ Kept /\ net = "authErr" /\ todo' = todo
          /\ net' = IF todo = 0 THEN "authReply" ELSE "authLate"
      BY <2>1, HandlingKeeps
    <3> QED BY <1>1, <1>3, <3>1 DEF NetSaidBye
  <2>2. CASE Handled(Oldest("ERR"), "authErr", "authErrBye")
    BY <1>4, <2>2, HandlingKeeps
  <2>3. CASE ReportInvalid(Oldest("ERR"), "authErr")
    BY <1>4, <2>3, HandlingKeeps
  <2> QED BY <1>16, <2>1, <2>2, <2>3 DEF AuthErr
<1>17. CASE AuthTimeout
  BY <1>4, <1>17 DEF AuthTimeout, NetQuiet, NetStep, coreVars
<1>18. CASE AuthErrBye
  BY <1>5, <1>18, ByeIsSaid DEF AuthErrBye, NetQuiet, NetStep
<1>19. CASE AuthLate
  <2>1. CASE Looked("authLate", IF todo = 1 THEN "again" ELSE "leave") /\ UNCHANGED todo
    <3>1. /\ Kept /\ net = "authLate" /\ byes' = byes
          /\ net' = IF todo = 1 THEN "again" ELSE "leave"
      BY <2>1, HandlingKeeps
    <3> QED BY <1>1, <1>3, <3>1 DEF NetSaidBye
  <2>2. CASE Handled(Oldest("ERR"), "authLate", "bye")
    BY <1>4, <2>2, HandlingKeeps
  <2>3. CASE ReportInvalid(Oldest("ERR"), "authLate")
    BY <1>4, <2>3, HandlingKeeps
  <2> QED BY <1>19, <2>1, <2>2, <2>3 DEF AuthLate
<1>20. CASE JoinReply
  <2>1. Kept /\ net' \in {"joinErr", "bye", "again"}
    BY <1>20, HandlingKeeps DEF JoinReply
  <2> QED BY <1>4, <2>1
<1>21. CASE JoinErr \/ JoinBye
  <2>1. Kept /\ net' \in {"joinBye", "joinReply", "bye", "stuck"}
    BY <1>21, HandlingKeeps DEF JoinErr, JoinBye, NetQuiet, NetStep, coreVars
  <2> QED BY <1>4, <2>1
<1> QED
  BY <1>6, <1>7, <1>8, <1>9, <1>10, <1>11, <1>12, <1>13, <1>14, <1>15, <1>16, <1>17,
     <1>18, <1>19, <1>20, <1>21 DEF Network, NetAuth

(* Whoever ends the session - the network thread at the end of input, after *)
(* an ERR or a BYE, after a timeout; the receiver after an invalid datagram;*)
(* a confirm thread after a loss; SIGINT - a BYE goes out before, or, for   *)
(* SIGINT, is the next thing its thread does.  For any input, any server    *)
(* and any network.                                                         *)
THEOREM GoodbyeCorrect == Spec => []GoodbyeBeforeClose
<1>1. Init => GoodbyeInv
  <2> SUFFICES ASSUME Init PROVE GoodbyeInv
    OBVIOUS
  <2>1. /\ network = TRUE /\ conf = [c \in ConfThreads |-> IdleConf]
        /\ net = "loop" /\ recv = "run"
    BY DEF Init, CoreInit
  <2>2. ClosingSaidBye
    BY <2>1 DEF ClosingSaidBye, IdleConf
  <2> QED BY <2>1, <2>2 DEF GoodbyeInv, GoodbyeBeforeClose, NetSaidBye
<1>2. TypeOK /\ GoodbyeInv /\ [Next]_vars => GoodbyeInv'
  <2> SUFFICES ASSUME TypeOK, GoodbyeInv, [Next]_vars PROVE GoodbyeInv'
    OBVIOUS
  <2>1. CASE UNCHANGED vars \/ Exit
    <3>1. UNCHANGED << coreVars, sig, recv, net, todo >>
      BY <2>1 DEF vars, clientVars, netVars, Exit
    <3> QED BY <3>1, CoreActions, GoodbyeFrame DEF coreVars
  <2>2. ASSUME NEW c \in ConfThreads, ConfirmThread(c) PROVE GoodbyeInv'
    BY <2>2, GoodbyeConf
  <2> QED BY <2>1, <2>2, GoodbyeStdin, GoodbyeSignal, GoodbyeNetwork, GoodbyeArrival,
             GoodbyeReceiver, GoodbyeServer DEF Next, Running, Ended
<1>3. GoodbyeInv => GoodbyeBeforeClose
  BY DEF GoodbyeInv
<1>4. Spec => []TypeOK
  BY CoreStepsCorrect, TypeCorrect, PTL DEF CoreSteps
<1> QED BY <1>1, <1>2, <1>3, <1>4, PTL DEF Spec
=============================================================================
