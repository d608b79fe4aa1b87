-------------------------- MODULE UdpSessionProofs --------------------------
(***************************************************************************)
(* Proofs about the session the client keeps over UDP: its variables have  *)
(* their types, nothing but AUTH and ERR goes out before the server has    *)
(* let the user in, and, where the network copies no datagram, every       *)
(* verdict is taken for the request it answers and the client keeps the    *)
(* abstract session.                                                       *)
(***************************************************************************)
EXTENDS UdpClientProofs, SequenceFacts, StdinFacts

(* A message goes to a confirm thread, or none does. *)
Sent(kind) == requests' = Append(requests, kind) /\ sends' = sends + 1
NotSent    == UNCHANGED << requests, sends >>

(* Where a session stands: between two commands, or in one whose verdict   *)
(* has come or never was needed; in a wait for the verdict on an AUTH or a *)
(* JOIN; or at its end, from where the network thread does not come back.  *)
Settled == \/ net \in {"loop", "eof", "waitMsg", "msgErr", "msgBye", "again"}
           \/ net \in {"authErr", "authLate"} /\ todo = 1
AwaitsAuth == net \in {"waitAuth", "authReply"} \/ (net = "authErr" /\ todo = 0)
AwaitsJoin == net \in {"waitJoin", "joinReply", "joinErr", "joinBye"}
Over       == ~Settled /\ ~AwaitsAuth /\ ~AwaitsJoin

(* what_to_do at the places where it matters *)
TodoInv ==
  /\ net = "authReply" => todo = 0
  /\ net = "authErr" => todo \in {0, 1}
  /\ net = "authErrBye" => todo = 2

Kinds == {"AUTH", "JOIN", "MSG", "ERR"}

(* The part of ClientTypeOK about what was said and by whom *)
DataType ==
  /\ status \in {"START", "AUTH", "OPEN"}
  /\ responses \in Seq(Datagrams)
  /\ requests \in Seq(Kinds) /\ Len(requests) = sends
  /\ answers \subseteq Nums \X Nums
  /\ made \subseteq Datagrams /\ IsFiniteSet(made)
  /\ IsABag(fromServer) /\ BagToSet(fromServer) \subseteq made

(* What the step of another thread or of the server may do to a session *)
Elsewhere ==
  /\ UNCHANGED << status, answers, net, todo >>
  /\ caller'[NetworkThread] = caller[NetworkThread]

Quiet == /\ Elsewhere /\ NotSent /\ UNCHANGED << made, fromServer >>
         /\ responses' \in {responses, << >>}

Arrives(d) == /\ Elsewhere /\ BagIn(d, fromServer) /\ UNCHANGED made
              /\ fromServer' = fromServer (-) SetToBag({d})
              /\ responses' \in {responses, Append(responses, d)}
              /\ NotSent \/ Sent("ERR")

Makes(d) == /\ Elsewhere /\ NotSent /\ UNCHANGED responses /\ d \in Datagrams
            /\ made' = made \cup {d}
            /\ fromServer' = fromServer (+) [e \in {d} |-> MaxCopies]
            /\ \/ /\ d.type = "REPLY" /\ d.result # "none"
                  /\ d.ref \in received /\ Unanswered(d.ref)
               \/ d.type # "REPLY" /\ d.ref = 0

(* What a step of the network thread may do to it *)
SamePlace == \/ Settled /\ Settled'
             \/ /\ (AwaitsAuth /\ AwaitsAuth') \/ (AwaitsJoin /\ AwaitsJoin')
                /\ caller'[NetworkThread].num = caller[NetworkThread].num

Moves == /\ UNCHANGED << status, responses, made, fromServer, answers >> /\ NotSent
         /\ SamePlace \/ Over'

Asks == /\ Settled /\ UNCHANGED << responses, made, fromServer, answers >>
        /\ \/ /\ Sent("MSG") /\ status = "OPEN" /\ status' = "OPEN" /\ Settled'
           \/ /\ Sent("AUTH") /\ status = "START" /\ status' = "AUTH" /\ AwaitsAuth'
              /\ caller'[NetworkThread].num = sends + 1
           \/ /\ Sent("JOIN") /\ status = "OPEN" /\ status' = "OPEN" /\ AwaitsJoin'
              /\ caller'[NetworkThread].num = sends + 1

Drops(d) == /\ UNCHANGED << status, made, fromServer, answers >> /\ NotSent
            /\ responses' \in RemoveMessage(responses, d)
            /\ Over'

TakesVerdict == /\ Found("REPLY") /\ Answer(Oldest("REPLY"))
                /\ UNCHANGED << made, fromServer >> /\ NotSent
                /\ responses' \in RemoveMessage(responses, Oldest("REPLY"))
                /\ \/ AwaitsAuth /\ Settled' /\ status' = StatusAfter(Oldest("REPLY"))
                   \/ AwaitsJoin /\ (Settled' \/ Over') /\ UNCHANGED status

Reports == /\ Over' /\ Sent("ERR") /\ UNCHANGED << responses, made, fromServer >>
           /\ \/ UNCHANGED << status, answers >>
              \/ /\ AwaitsAuth /\ Found("REPLY") /\ Answer(Oldest("REPLY"))
                 /\ status' = IF Oldest("REPLY").result = "ok" THEN "OPEN" ELSE status
-----------------------------------------------------------------------------
(* The same wherever a thread sends or the confirm threads go on *)
LEMMA CallersApart ==
  ASSUME TypeOK
  PROVE  /\ \A kind : SendMessage(ReceiverThread, kind) =>
              Sent(kind) /\ caller'[NetworkThread] = caller[NetworkThread]
         /\ \A kind : SendMessage(NetworkThread, kind) =>
              Sent(kind) /\ caller'[NetworkThread].num = sends + 1
         /\ Wake(ReceiverThread) \/ Unlock(ReceiverThread) =>
              UNCHANGED sends /\ caller'[NetworkThread] = caller[NetworkThread]
         /\ Wake(NetworkThread) => 
              UNCHANGED sends /\ caller'[NetworkThread].num = caller[NetworkThread].num
         /\ Unlock(NetworkThread) => UNCHANGED sends
         /\ \A c \in ConfThreads : SendWhileHolding(NetworkThread, c) => sends' = sends + 1
         /\ ClearBuffer \/ SendBye \/ StopNetwork \/ UNCHANGED coreVars => UNCHANGED << sends, caller >>
         /\ \A c \in ConfThreads : ConfStep(c) => UNCHANGED << sends, caller >>
<1>1. caller \in [Callers -> CallerStates] /\ NetworkThread # ReceiverThread
  BY CallersAssumption DEF TypeOK, CallersAssumption
<1>2. /\ \A kind : SendMessage(ReceiverThread, kind) =>
              Sent(kind) /\ caller'[NetworkThread] = caller[NetworkThread]
      /\ \A kind : SendMessage(NetworkThread, kind) =>
              Sent(kind) /\ caller'[NetworkThread].num = sends + 1
  BY <1>1, TwoCallers DEF SendMessage, Send, StartConfirmThread, Sent
<1>3. /\ Wake(ReceiverThread) \/ Unlock(ReceiverThread) =>
              UNCHANGED sends /\ caller'[NetworkThread] = caller[NetworkThread]
      /\ Wake(NetworkThread) =>
              UNCHANGED sends /\ caller'[NetworkThread].num = caller[NetworkThread].num
      /\ Unlock(NetworkThread) => UNCHANGED sends
  BY <1>1, TwoCallers DEF Wake, Unlock, CallerStates
<1>4. \A c \in ConfThreads : SendWhileHolding(NetworkThread, c) => sends' = sends + 1
  BY DEF SendWhileHolding, StartConfirmThread
<1>5. ClearBuffer \/ SendBye \/ StopNetwork \/ UNCHANGED coreVars => UNCHANGED << sends, caller >>
  BY DEF ClearBuffer, SendBye, StopNetwork, coreVars
<1>6. \A c \in ConfThreads : ConfStep(c) => UNCHANGED << sends, caller >>
  BY DEF ConfStep, ReadExpected, LockAndCount, Transmit, Look, Confirmed, TimeOut, GiveUp,
         CloseAfterLoss
<1> QED BY <1>2, <1>3, <1>4, <1>5, <1>6

(* A number reduced to 16 bits is an identifier. *)
LEMMA ModuloID == ASSUME NEW n \in Nat PROVE n % 2^16 \in IDs
BY SMT DEF IDs

(* The threads beside the network thread, the server and the exit *)
LEMMA OtherSteps ==
  ASSUME TypeOK, DataType,
         Stdin \/ Signal \/ Arrival \/ Receiver \/ Server \/ Exit \/ UNCHANGED vars
           \/ \E c \in ConfThreads : ConfirmThread(c)
  PROVE  Quiet \/ (\E d : Arrives(d)) \/ (\E d : Makes(d))
<1>1. CASE Stdin
  BY <1>1 DEF Stdin, StdinGoesOn, StdinOnly, Quiet, Elsewhere, NotSent, netVars, serverVars, coreVars
<1>2. CASE Signal \/ Exit
  BY <1>2, CallersApart DEF Signal, SigInt, SigBye, SigStop, Exit, Quiet, Elsewhere, NotSent,
                            netVars, serverVars
<1>3. CASE UNCHANGED vars
  BY <1>3, CallersApart DEF vars, clientVars, Quiet, Elsewhere, NotSent, netVars, serverVars
<1>4. ASSUME NEW c \in ConfThreads, ConfirmThread(c) PROVE Quiet
  BY <1>4, CallersApart DEF ConfirmThread, clientVars, Quiet, Elsewhere, NotSent, netVars, serverVars
<1>5. CASE Receiver
  BY <1>5, CallersApart DEF Receiver, RecvStep, RecvWake, RecvBye, RecvClose, RecvUnlock, RecvStop,
                            RecvClear, Quiet, Elsewhere, NotSent, netVars, serverVars
<1>6. CASE Arrival
  <2>1. ASSUME NEW id \in inflight, TakeConfirm(id) PROVE Quiet
    BY <2>1 DEF TakeConfirm, ReceiveConfirm, clientVars, Quiet, Elsewhere, NotSent, netVars, serverVars
  <2>2. ASSUME NEW d, TakeResponse(d) PROVE Arrives(d)
    BY <2>2, CallersApart DEF TakeResponse, Take, AddMessage, Arrives, Elsewhere, NotSent, netVars
  <2>3. ASSUME NEW d, TakeMsg(d) PROVE Arrives(d)
    BY <2>3, CallersApart DEF TakeMsg, Take, Arrives, Elsewhere, NotSent, netVars
  <2>4. ASSUME NEW d, TakeInvalid(d) PROVE Arrives(d)
    BY <2>4, CallersApart DEF TakeInvalid, Take, Arrives, Elsewhere, netVars
  <2> QED BY <1>6, <2>1, <2>2, <2>3, <2>4 DEF Arrival
<1>7. CASE Server
  <2>0. ServerID \in IDs
    <3>1. Cardinality(made) \in Nat
      BY FS_CardinalityType DEF DataType
    <3> QED BY <3>1, ModuloID, SMT DEF ServerID
  <2>1. ASSUME NEW n \in received, ServerReply(n) PROVE \E d : Makes(d)
    <3>1. PICK result \in ReplyResults, valid \in Validities :
            Make([type |-> "REPLY", id |-> ServerID, valid |-> valid,
                  ref |-> n, result |-> result])
      BY <2>1 DEF ServerReply
    <3> DEFINE d == [type |-> "REPLY", id |-> ServerID, valid |-> valid,
                     ref |-> n, result |-> result]
    <3>2. n \in Nums /\ valid \in BOOLEAN /\ result \in {"ok", "nok", "other"}
      BY ServerAssumption DEF TypeOK, ServerAssumption, Validities
    <3>3. d \in Datagrams /\ d.type = "REPLY" /\ d.ref = n /\ d.result # "none"
      BY <2>0, <3>2 DEF Datagrams
    <3> HIDE DEF d
    <3>4. Make(d)
      BY <3>1 DEF d
    <3>5. Makes(d)
      BY <2>1, <3>3, <3>4, CallersApart
         DEF ServerReply, Make, Makes, Elsewhere, NotSent, netVars
    <3> QED BY <3>5
  <2>2. ASSUME NEW type \in ServerSays, ServerSay(type) PROVE \E d : Makes(d)
    <3>1. PICK valid \in Validities :
            Make([type |-> type, id |-> ServerID, valid |-> valid,
                  ref |-> 0, result |-> "none"])
      BY <2>2 DEF ServerSay
    <3> DEFINE d == [type |-> type, id |-> ServerID, valid |-> valid,
                     ref |-> 0, result |-> "none"]
    <3>2. type \in {"MSG", "ERR", "BYE", "BAD"} /\ valid \in BOOLEAN /\ 0 \in Nums
      <4>1. 0 \in Nums
        BY NumbersAssumption DEF NumbersAssumption, Nums
      <4> QED BY <4>1, ServerAssumption DEF ServerAssumption, Validities
    <3>3. d \in Datagrams /\ d.type # "REPLY" /\ d.ref = 0
      BY <2>0, <3>2 DEF Datagrams
    <3> HIDE DEF d
    <3>4. Make(d)
      BY <3>1 DEF d
    <3>5. Makes(d)
      BY <3>3, <3>4, CallersApart DEF Make, Makes, Elsewhere, NotSent, netVars
    <3> QED BY <3>5
  <2> QED BY <1>7, <2>1, <2>2 DEF Server
<1> QED BY <1>1, <1>2, <1>3, <1>4, <1>5, <1>6, <1>7

(* How the network thread looks, handles and reports *)
LEMMA Handlings ==
  ASSUME TypeOK
  PROVE  /\ \A d, from, to : Handled(d, from, to) =>
              /\ net = from /\ net' = to /\ NotSent /\ UNCHANGED << made, fromServer >>
              /\ responses' \in RemoveMessage(responses, d)
              /\ caller' = caller
         /\ \A d, from : ReportInvalid(d, from) =>
              /\ net = from /\ net' = "stuck" /\ Sent("ERR")
              /\ UNCHANGED << responses, made, fromServer, todo >>
         /\ \A from, to : Looked(from, to) =>
              /\ net = from /\ net' = to /\ NotSent /\ caller' = caller
              /\ UNCHANGED << status, responses, made, fromServer, answers >>
<1>1. \A d, from, to : Handled(d, from, to) =>
              /\ net = from /\ net' = to /\ NotSent /\ UNCHANGED << made, fromServer >>
              /\ responses' \in RemoveMessage(responses, d)
              /\ caller' = caller
  BY DEF Handled, NetStep, NotSent, serverVars, coreVars
<1>2. \A d, from : ReportInvalid(d, from) =>
              /\ net = from /\ net' = "stuck" /\ Sent("ERR")
              /\ UNCHANGED << responses, made, fromServer, todo >>
  BY CallersApart DEF ReportInvalid, NetStep, Sent, serverVars
<1>3. \A from, to : Looked(from, to) =>
              /\ net = from /\ net' = to /\ NotSent /\ caller' = caller
              /\ UNCHANGED << status, responses, made, fromServer, answers >>
  BY DEF Looked, NetQuiet, NetStep, NotSent, serverVars, coreVars
<1> QED BY <1>1, <1>2, <1>3

(* A quiet step of the network thread, which may lock, unlock or say BYE *)
LEMMA QuietMoves ==
  ASSUME TypeOK, NEW from, NEW to, NetQuiet(from, to)
  PROVE  /\ net = from /\ net' = to /\ UNCHANGED << responses, requests, made, fromServer, answers >>
         /\ UNCHANGED coreVars \/ SendBye \/ StopNetwork => UNCHANGED << sends, caller >>
BY CallersApart DEF NetQuiet, NetStep, serverVars

(* The network thread *)
LEMMA NetworkSteps ==
  ASSUME TypeOK, TodoInv, Network
  PROVE  TodoInv' /\ (Moves \/ Asks \/ (\E d : Drops(d)) \/ TakesVerdict \/ Reports)
<1> USE DEF Settled, AwaitsAuth, AwaitsJoin, Over, TodoInv
<1>1. CASE NetStop \/ NetIdle
  BY <1>1, QuietMoves DEF NetStop, NetIdle, NetOnly, Moves, SamePlace, NotSent
<1>2. CASE NetEof
  <2>1. /\ net = "eof" /\ net' \in {"close", "loop"} /\ UNCHANGED << sends, caller, status, todo >>
        /\ UNCHANGED << responses, requests, made, fromServer, answers >>
    BY <1>2, QuietMoves DEF NetEof, NetOnly
  <2> QED BY <2>1 DEF Moves, SamePlace, NotSent
<1>3. CASE NetClose \/ NetBye \/ NetLeave
  BY <1>3, QuietMoves, CallersApart DEF NetClose, NetBye, NetLeave, NetOnly, Moves, NotSent
<1>4. CASE NetAgain
  BY <1>4, QuietMoves, CallersApart DEF NetAgain, NetOnly, Moves, SamePlace, NotSent
<1>5. CASE NetWake
  <2>1. /\ \/ net = "waitMsg" /\ net' = "msgErr"
           \/ net = "waitAuth" /\ net' = "authReply"
           \/ net = "waitJoin" /\ net' = "joinReply"
        /\ UNCHANGED << responses, requests, made, fromServer, answers >>
        /\ todo' = 0 /\ UNCHANGED status
    BY <1>5, QuietMoves DEF NetWake
  <2>2. UNCHANGED sends /\ caller'[NetworkThread].num = caller[NetworkThread].num
    BY <1>5, CallersApart DEF NetWake
  <2> QED BY <2>1, <2>2 DEF Moves, SamePlace, NotSent
<1>6. CASE LineWithoutMessage \/ LineRefused
  BY <1>6, CallersApart DEF LineWithoutMessage, LineRefused, NextLine, NetLine, Moves, SamePlace,
                            NotSent, serverVars
<1>7. CASE LineMsg \/ LineAuth \/ LineJoin
  BY <1>7, CallersApart DEF LineMsg, LineAuth, LineJoin, NextLine, NetLine, Asks, serverVars
<1>8. CASE MsgErr
  BY <1>8, Handlings DEF MsgErr, NetOnly, Moves, SamePlace, Drops, Reports
<1>9. CASE MsgBye
  BY <1>9, Handlings DEF MsgBye, NetOnly, Moves, SamePlace, Drops
<1>10. CASE AuthReply
  <2>1. CASE Looked("authReply", "authErr") /\ UNCHANGED todo
    BY <2>1, Handlings DEF Moves, SamePlace
  <2>2. CASE /\ Found("REPLY") /\ Handled(Oldest("REPLY"), "authReply", "authErr")
             /\ Answer(Oldest("REPLY")) /\ status' = StatusAfter(Oldest("REPLY")) /\ todo' = 1
    BY <2>2, Handlings DEF TakesVerdict
  <2>3. CASE /\ Found("REPLY") /\ ReportInvalid(Oldest("REPLY"), "authReply")
             /\ Answer(Oldest("REPLY"))
             /\ status' = IF Oldest("REPLY").result = "ok" THEN "OPEN" ELSE status
    BY <2>3, Handlings DEF Reports
  <2> QED BY <1>10, <2>1, <2>2, <2>3 DEF AuthReply
<1>11. CASE AuthErr
  <2>1. CASE Looked("authErr", IF todo = 0 THEN "authReply" ELSE "authLate") /\ UNCHANGED todo
    <3>1. /\ net = "authErr" /\ net' = IF todo = 0 THEN "authReply" ELSE "authLate"
          /\ NotSent /\ caller' = caller /\ todo' = todo
          /\ UNCHANGED << status, responses, made, fromServer, answers >>
      BY <2>1, Handlings
    <3> QED BY <3>1 DEF Moves, SamePlace
  <2>2. CASE /\ Handled(Oldest("ERR"), "authErr", "authErrBye") /\ todo' = 2
             /\ UNCHANGED << status, answers >>
    BY <2>2, Handlings DEF Drops
  <2>3. CASE ReportInvalid(Oldest("ERR"), "authErr") /\ UNCHANGED << status, answers >>
    BY <2>3, Handlings DEF Reports
  <2> QED BY <1>11, <2>1, <2>2, <2>3 DEF AuthErr
<1>12. CASE AuthTimeout
  BY <1>12, QuietMoves DEF AuthTimeout, Moves, NotSent
<1>13. CASE AuthErrBye
  BY <1>13, QuietMoves DEF AuthErrBye, NetOnly, Moves, NotSent
<1>14. CASE AuthLate
  <2>1. CASE Looked("authLate", IF todo = 1 THEN "again" ELSE "leave") /\ UNCHANGED todo
    <3>1. /\ net = "authLate" /\ net' = IF todo = 1 THEN "again" ELSE "leave"
          /\ NotSent /\ caller' = caller /\ todo' = todo
          /\ UNCHANGED << status, responses, made, fromServer, answers >>
      BY <2>1, Handlings
    <3> QED BY <3>1 DEF Moves, SamePlace
  <2>2. CASE /\ Handled(Oldest("ERR"), "authLate", "bye") /\ UNCHANGED << status, answers >>
    BY <2>2, Handlings DEF Drops
  <2>3. CASE ReportInvalid(Oldest("ERR"), "authLate") /\ UNCHANGED << status, answers >>
    BY <2>3, Handlings DEF Reports
  <2> QED BY <1>14, <2>1, <2>2, <2>3 DEF AuthLate
<1>15. CASE JoinReply
  <2>1. CASE Looked("joinReply", "joinErr") /\ UNCHANGED todo
    BY <2>1, Handlings DEF Moves, SamePlace
  <2>2. CASE /\ Found("REPLY") /\ Answer(Oldest("REPLY")) /\ UNCHANGED << status, todo >>
             /\ Handled(Oldest("REPLY"), "joinReply",
                        IF Oldest("REPLY").result = "other" THEN "bye" ELSE "again")
    <3>1. /\ net = "joinReply"
          /\ net' = IF Oldest("REPLY").result = "other" THEN "bye" ELSE "again"
          /\ NotSent /\ UNCHANGED << made, fromServer >>
          /\ responses' \in RemoveMessage(responses, Oldest("REPLY"))
      BY <2>2, Handlings
    <3> QED BY <2>2, <3>1 DEF TakesVerdict
  <2> QED BY <1>15, <2>1, <2>2 DEF JoinReply, NetOnly
<1>16. CASE JoinErr
  <2>1. CASE NetQuiet("joinErr", "joinBye") /\ UNCHANGED << coreVars, status, todo >>
    BY <2>1, QuietMoves DEF Moves, SamePlace, NotSent
  <2>2. CASE Handled(heldErr, "joinErr", "bye") /\ UNCHANGED << status, answers >>
    BY <2>2, Handlings DEF Drops
  <2>3. CASE ReportInvalid(heldErr, "joinErr") /\ UNCHANGED << status, answers >>
    BY <2>3, Handlings DEF Reports
  <2> QED BY <1>16, <2>1, <2>2, <2>3 DEF JoinErr, NetOnly
<1>17. CASE JoinBye
  <2>1. CASE NetQuiet("joinBye", "joinReply") /\ UNCHANGED << coreVars, status, todo >>
    BY <2>1, QuietMoves DEF Moves, SamePlace, NotSent
  <2>2. CASE Handled(heldBye, "joinBye", "bye") /\ UNCHANGED << status, answers >>
    BY <2>2, Handlings DEF Drops
  <2> QED BY <1>17, <2>1, <2>2 DEF JoinBye, NetOnly
<1> QED
  BY <1>1, <1>2, <1>3, <1>4, <1>5, <1>6, <1>7, <1>8, <1>9, <1>10, <1>11, <1>12, <1>13, <1>14,
     <1>15, <1>16, <1>17 DEF Network, NetLines, NetAuth
-----------------------------------------------------------------------------
(* One copy of d taken from a bag: the others stay as many as they were. *)
LEMMA OneTaken ==
  ASSUME NEW B, IsABag(B), NEW d \in DOMAIN B
  PROVE  /\ IsABag(B (-) SetToBag({d}))
         /\ DOMAIN (B (-) SetToBag({d})) \subseteq DOMAIN B
         /\ \A e \in DOMAIN (B (-) SetToBag({d})) : e # d => (B (-) SetToBag({d}))[e] = B[e]
         /\ B[d] = 1 => d \notin DOMAIN (B (-) SetToBag({d}))
<1>1. \A e \in DOMAIN B : B[e] \in Nat /\ B[e] > 0
  BY DEF IsABag
<1> DEFINE left(e) == IF e \in {d} THEN B[e] - 1 ELSE B[e]
<1>2. B (-) SetToBag({d}) = [e \in {x \in DOMAIN B : left(x) > 0} |-> left(e)]
  BY DEF (-), SetToBag
<1>3. \A e \in DOMAIN B : left(e) \in Int
  BY <1>1
<1>4. IsABag(B (-) SetToBag({d}))
  BY <1>2, <1>3 DEF IsABag
<1>5. /\ DOMAIN (B (-) SetToBag({d})) = {x \in DOMAIN B : left(x) > 0}
      /\ \A e \in {x \in DOMAIN B : left(x) > 0} : (B (-) SetToBag({d}))[e] = left(e)
  BY <1>2
<1>6. /\ \A e \in DOMAIN (B (-) SetToBag({d})) : e \in DOMAIN B /\ left(e) > 0
      /\ \A e \in DOMAIN (B (-) SetToBag({d})) : (B (-) SetToBag({d}))[e] = left(e)
  BY <1>5
<1>7. B[d] = 1 => ~ (left(d) > 0)
  OBVIOUS
<1>8. \A e : e # d => left(e) = B[e]
  OBVIOUS
<1> HIDE DEF left
<1> QED BY <1>4, <1>6, <1>7, <1>8

(* Copies of d put into a bag *)
LEMMA CopiesPut ==
  ASSUME NEW B, IsABag(B), NEW d
  PROVE  /\ IsABag(B (+) [e \in {d} |-> MaxCopies])
         /\ DOMAIN (B (+) [e \in {d} |-> MaxCopies]) = DOMAIN B \cup {d}
         /\ \A e \in DOMAIN B : e # d => (B (+) [x \in {d} |-> MaxCopies])[e] = B[e]
         /\ d \notin DOMAIN B => (B (+) [e \in {d} |-> MaxCopies])[d] = MaxCopies
<1>1. (\A e \in DOMAIN B : B[e] \in Nat /\ B[e] > 0) /\ MaxCopies \in Nat /\ MaxCopies > 0
  BY ServerAssumption DEF IsABag, ServerAssumption
<1> DEFINE both(e) == (IF e \in DOMAIN B THEN B[e] ELSE 0) + (IF e \in {d} THEN MaxCopies ELSE 0)
<1>2. B (+) [e \in {d} |-> MaxCopies] = [e \in DOMAIN B \cup {d} |-> both(e)]
  BY DEF (+)
<1>3. \A e \in DOMAIN B \cup {d} : both(e) \in {n \in Nat : n > 0}
  BY <1>1
<1>4. IsABag(B (+) [e \in {d} |-> MaxCopies])
  BY <1>2, <1>3 DEF IsABag
<1>5. /\ DOMAIN (B (+) [e \in {d} |-> MaxCopies]) = DOMAIN B \cup {d}
      /\ \A e \in DOMAIN B \cup {d} : (B (+) [x \in {d} |-> MaxCopies])[e] = both(e)
  BY <1>2
<1> QED BY <1>1, <1>4, <1>5

(* A message sent is one more of its kind. *)
LEMMA SentType ==
  ASSUME requests \in Seq(Kinds), Len(requests) = sends, NEW kind \in Kinds, Sent(kind)
  PROVE  requests' \in Seq(Kinds) /\ Len(requests') = sends'
BY AppendProperties DEF Sent

(* The oldest datagram of a type is one in the buffer. *)
LEMMA OldestFound ==
  ASSUME DataType, NEW type, Found(type)
  PROVE  /\ Oldest(type) \in ToSet(responses) /\ Oldest(type) \in Datagrams
         /\ Oldest(type).type = type
<1>1. PICK i \in 1..Len(responses) : Oldest(type) = responses[i] /\ responses[i].type = type
  BY LookupFinds DEF Found, Oldest, DataType
<1>2. responses[i] \in Datagrams
  BY <1>1, ElementOfSeq DEF DataType
<1> QED BY <1>1, <1>2 DEF ToSet

(* The step of another thread or of the server keeps the types. *)
LEMMA OtherDataType ==
  ASSUME DataType, Quiet \/ (\E d : Arrives(d)) \/ (\E d : Makes(d))
  PROVE  DataType'
<1>1. CASE Quiet
  <2>1. responses' \in Seq(Datagrams)
    BY <1>1, EmptySeq DEF Quiet, DataType
  <2> QED BY <1>1, <2>1 DEF Quiet, Elsewhere, NotSent, DataType
<1>2. ASSUME NEW d, Arrives(d) PROVE DataType'
  <2>1. d \in DOMAIN fromServer /\ d \in Datagrams
    BY <1>2 DEF Arrives, BagIn, BagToSet, DataType
  <2>2. IsABag(fromServer') /\ BagToSet(fromServer') \subseteq made'
    BY <1>2, <2>1, OneTaken DEF Arrives, BagToSet, DataType
  <2>3. responses' \in Seq(Datagrams)
    BY <1>2, <2>1, AppendProperties DEF Arrives, DataType
  <2>4. requests' \in Seq(Kinds) /\ Len(requests') = sends'
    BY <1>2, SentType DEF Arrives, NotSent, DataType, Kinds
  <2> QED BY <1>2, <2>2, <2>3, <2>4 DEF Arrives, Elsewhere, DataType
<1>3. ASSUME NEW d, Makes(d) PROVE DataType'
  <2>0. IsABag(fromServer) /\ DOMAIN fromServer \subseteq made
    BY DEF DataType, BagToSet
  <2>1. IsABag(fromServer') /\ DOMAIN fromServer' = DOMAIN fromServer \cup {d}
    BY <1>3, <2>0, CopiesPut DEF Makes
  <2>3. BagToSet(fromServer') \subseteq made'
    BY <1>3, <2>0, <2>1 DEF Makes, BagToSet
  <2>2. made' \subseteq Datagrams /\ IsFiniteSet(made')
    BY <1>3, FS_AddElement DEF Makes, DataType
  <2> QED BY <1>3, <2>1, <2>2, <2>3 DEF Makes, Elsewhere, NotSent, DataType
<1> QED BY <1>1, <1>2, <1>3

(* So does the network thread's. *)
LEMMA NetworkDataType ==
  ASSUME TypeOK, DataType,
         Moves \/ Asks \/ (\E d : Drops(d)) \/ TakesVerdict \/ Reports
  PROVE  DataType'
<1>0. caller[NetworkThread].num \in Nums
  BY TwoCallers DEF TypeOK, CallerStates
<1>1. CASE Moves
  BY <1>1 DEF Moves, NotSent, DataType
<1>2. CASE Asks
  <2>1. requests' \in Seq(Kinds) /\ Len(requests') = sends'
    BY <1>2, SentType DEF Asks, DataType, Kinds
  <2> QED BY <1>2, <2>1 DEF Asks, DataType
<1>3. ASSUME NEW d, Drops(d) PROVE DataType'
  <2>1. responses' \in Seq(Datagrams)
    BY <1>3, RemoveMessageProperties DEF Drops, DataType
  <2> QED BY <1>3, <2>1 DEF Drops, NotSent, DataType
<1>4. ASSUME Found("REPLY"), Answer(Oldest("REPLY")) PROVE answers' \subseteq Nums \X Nums
  <2>1. Oldest("REPLY").ref \in Nums
    BY <1>4, OldestFound DEF Datagrams
  <2> QED BY <1>0, <1>4, <2>1 DEF Answer, DataType
<1>5. CASE TakesVerdict
  <2>1. responses' \in Seq(Datagrams)
    BY <1>5, RemoveMessageProperties DEF TakesVerdict, DataType
  <2>2. status' \in {"START", "AUTH", "OPEN"}
    BY <1>5 DEF TakesVerdict, DataType, StatusAfter
  <2> QED BY <1>4, <1>5, <2>1, <2>2 DEF TakesVerdict, NotSent, DataType
<1>6. CASE Reports
  <2>1. requests' \in Seq(Kinds) /\ Len(requests') = sends'
    BY <1>6, SentType DEF Reports, DataType, Kinds
  <2>2. answers' \subseteq Nums \X Nums
    BY <1>4, <1>6 DEF Reports, DataType
  <2>3. status' \in {"START", "AUTH", "OPEN"}
    BY <1>6 DEF Reports, DataType
  <2> QED BY <1>6, <2>1, <2>2, <2>3 DEF Reports, DataType
<1> QED BY <1>1, <1>2, <1>3, <1>5, <1>6
-----------------------------------------------------------------------------
(* An identifier is written as two bytes, whatever number it was read as. *)
LEMMA TwoBytes == \A n \in Int : ShortToBytes(n) \in Bytes \X Bytes
<1>1. \A n \in Int : n \div 256 \in Int /\ n % 256 \in 0..255
  BY SMTT(30)
<1> QED BY <1>1, SMTT(30) DEF ShortToBytes, Bytes

(* Both threads read a number from the two bytes of a datagram. *)
LEMMA ReadNumbers ==
  \A bytes \in Bytes \X Bytes : ReadID(bytes) \in Int /\ ReadSignedID(bytes) \in Int
<1> SUFFICES ASSUME NEW bytes \in Bytes \X Bytes
             PROVE  ReadID(bytes) \in Int /\ ReadSignedID(bytes) \in Int
  OBVIOUS
<1>1. bytes[1] \in Int /\ bytes[2] \in Int
  BY DEF Bytes
<1>2. \A b \in Int : Char(b) \in Int
  BY SMTT(30) DEF Char
<1>3. \A a, b \in Int : 256 * a + b \in Int
  BY SMTT(30)
<1> QED BY <1>1, <1>2, <1>3 DEF ReadID, ReadSignedID

(* An identifier is a number. *)
LEMMA IDsAreNumbers == \A n \in IDs : n \in Int
BY DEF IDs

(* So a CONFIRM carries two bytes. *)
LEMMA ConfirmsAreBytes ==
  ASSUME acks \subseteq Bytes \X Bytes, NEW d, d.id \in IDs,
         ConfirmAsReceiver(d) \/ ConfirmAsNetwork(d)
  PROVE  acks' \subseteq Bytes \X Bytes
<1>1. d.id \in Int
  BY IDsAreNumbers
<1>2. ShortToBytes(d.id) \in Bytes \X Bytes
  BY <1>1, TwoBytes
<1>3. \A n \in Int : ToShort(n) \in Int
  BY DEF ToShort
<1>4. /\ ReceiverConfirm(ShortToBytes(d.id)) \in Bytes \X Bytes
      /\ NetworkConfirm(ShortToBytes(d.id)) \in Bytes \X Bytes
  BY <1>2, <1>3, ReadNumbers, TwoBytes DEF ReceiverConfirm, NetworkConfirm
<1> QED BY <1>4 DEF ConfirmAsReceiver, ConfirmAsNetwork

(* The part of ClientTypeOK about where the threads are *)
PlaceType ==
  /\ InputTypeOK
  /\ net \in NetPlaces /\ todo \in 0..2
  /\ heldErr \in Datagrams \cup {NoDatagram} /\ heldBye \in Datagrams \cup {NoDatagram}
  /\ recv \in {"run", "wait", "bye", "stop", "unlock", "clear", "done"}
  /\ sig \in {"run", "bye", "done"} /\ exited \in BOOLEAN
  /\ acks \subseteq Bytes \X Bytes

(* Together they are ClientTypeOK. *)
LEMMA TypeParts == PlaceType /\ DataType => ClientTypeOK
BY DEF PlaceType, DataType, ClientTypeOK, Kinds

(* The threads beside the network thread move their own places. *)
LEMMA OtherPlaceType ==
  ASSUME PlaceType, DataType,
         Stdin \/ Signal \/ Arrival \/ Receiver \/ Server \/ Exit \/ UNCHANGED vars
           \/ \E c \in ConfThreads : ConfirmThread(c)
  PROVE  PlaceType'
<1>1. CASE Stdin
  <2>1. InputTypeOK'
    BY <1>1, ReadingType DEF Stdin, StdinGoesOn, PlaceType
  <2>2. UNCHANGED << netVars, recv, sig, exited, acks >>
    BY <1>1 DEF Stdin, StdinGoesOn, StdinOnly
  <2> QED BY <2>1, <2>2 DEF PlaceType, netVars
<1>2. CASE Signal \/ Exit
  <2>1. /\ UNCHANGED << inputVars, netVars, recv, acks >>
        /\ sig' \in {sig, "bye", "done"} /\ exited' \in {exited, TRUE}
    BY <1>2 DEF Signal, SigInt, SigBye, SigStop, Exit
  <2>2. sig' \in {"run", "bye", "done"} /\ exited' \in BOOLEAN
    BY <2>1 DEF PlaceType
  <2> QED BY <2>1, <2>2, InputKept DEF PlaceType, netVars
<1>3. CASE UNCHANGED vars \/ Server \/ \E c \in ConfThreads : ConfirmThread(c)
  <2>1. UNCHANGED << inputVars, netVars, recv, sig, exited, acks >>
    BY <1>3 DEF vars, clientVars, Server, ServerReply, ServerSay, Make, ConfirmThread
  <2> QED BY <2>1, InputKept DEF PlaceType, netVars
<1>4. CASE Receiver
  <2>1. /\ UNCHANGED << inputVars, netVars, sig, exited, acks >>
        /\ recv' \in {"bye", "stop", "unlock", "clear", "done"}
    BY <1>4 DEF Receiver, RecvStep, RecvWake, RecvBye, RecvClose, RecvUnlock, RecvStop, RecvClear
  <2> QED BY <2>1, InputKept DEF PlaceType, netVars
<1>5. CASE Arrival
  <2>1. ASSUME NEW id \in inflight, TakeConfirm(id) PROVE PlaceType'
    <3>1. UNCHANGED << inputVars, netVars, recv, sig, exited, acks >>
      BY <2>1 DEF TakeConfirm, clientVars
    <3> QED BY <3>1, InputKept DEF PlaceType, netVars
  <2>2. ASSUME NEW d \in BagToSet(fromServer), TakeResponse(d) \/ TakeMsg(d) \/ TakeInvalid(d)
        PROVE  PlaceType'
    <3>1. d.id \in IDs
      BY <2>2 DEF DataType, Datagrams
    <3>2. acks' = acks \/ ConfirmAsReceiver(d)
      BY <2>2 DEF TakeResponse, TakeMsg, TakeInvalid
    <3>3. acks' \subseteq Bytes \X Bytes
      BY <3>1, <3>2, ConfirmsAreBytes DEF PlaceType
    <3>4. UNCHANGED << inputVars, netVars, sig, exited >> /\ recv' \in {recv, "wait"}
      BY <2>2 DEF TakeResponse, TakeMsg, TakeInvalid
    <3> QED BY <3>3, <3>4, InputKept DEF PlaceType, netVars
  <2> QED BY <1>5, <2>1, <2>2 DEF Arrival
<1> QED BY <1>1, <1>2, <1>3, <1>4, <1>5

(* What the pointers of the JOIN branch point at were datagrams. *)
LEMMA HeldType ==
  ASSUME PlaceType, DataType,
         heldErr' \in {heldErr, NoDatagram, IF Found("ERR") THEN Oldest("ERR") ELSE NoDatagram},
         heldBye' \in {heldBye, NoDatagram, IF Found("BYE") THEN Oldest("BYE") ELSE NoDatagram}
  PROVE  /\ heldErr' \in Datagrams \cup {NoDatagram}
         /\ heldBye' \in Datagrams \cup {NoDatagram}
BY OldestFound DEF PlaceType

(* What a step of the network thread needs to keep its own places *)
LEMMA NetPlaceType ==
  ASSUME PlaceType, DataType, InputTypeOK', UNCHANGED << recv, sig, exited >>,
         net' \in NetPlaces, todo' \in 0..2,
         heldErr' \in {heldErr, NoDatagram, IF Found("ERR") THEN Oldest("ERR") ELSE NoDatagram},
         heldBye' \in {heldBye, NoDatagram, IF Found("BYE") THEN Oldest("BYE") ELSE NoDatagram},
         acks' \subseteq Bytes \X Bytes
  PROVE  PlaceType'
BY HeldType DEF PlaceType

(* A quiet step *)
LEMMA QuietPlaceType ==
  ASSUME PlaceType, DataType, NEW from, NEW to \in NetPlaces, NetQuiet(from, to),
         todo' \in {todo, 0, 1, 2},
         heldErr' \in {heldErr, NoDatagram, IF Found("ERR") THEN Oldest("ERR") ELSE NoDatagram},
         heldBye' \in {heldBye, NoDatagram, IF Found("BYE") THEN Oldest("BYE") ELSE NoDatagram}
  PROVE  PlaceType'
<1>1. /\ InputTypeOK' /\ UNCHANGED << recv, sig, exited, acks >> /\ net' = to
  BY InputKept DEF NetQuiet, NetStep, PlaceType
<1>2. todo' \in 0..2 /\ acks \subseteq Bytes \X Bytes
  BY DEF PlaceType
<1> QED BY <1>1, <1>2, NetPlaceType

(* Handling or reporting a datagram *)
LEMMA HandledPlaceType ==
  ASSUME PlaceType, DataType, NEW d, d.id \in IDs, NEW from, NEW to \in NetPlaces,
         \/ Handled(d, from, to) /\ todo' \in {todo, 1, 2} /\ UNCHANGED << heldErr, heldBye >>
         \/ ReportInvalid(d, from)
  PROVE  PlaceType'
<1>1. /\ InputTypeOK' /\ UNCHANGED << recv, sig, exited, heldErr, heldBye >>
      /\ net' \in {to, "stuck"} /\ ConfirmAsNetwork(d) /\ todo' \in {todo, 1, 2}
  BY InputKept DEF Handled, ReportInvalid, NetStep, PlaceType
<1>2. todo' \in 0..2 /\ net' \in NetPlaces
  BY <1>1 DEF PlaceType, NetPlaces
<1>3. acks' \subseteq Bytes \X Bytes
  BY <1>1, ConfirmsAreBytes DEF PlaceType
<1> QED BY <1>1, <1>2, <1>3, NetPlaceType

(* The network thread *)
LEMMA NetworkPlaceType == ASSUME PlaceType, DataType, Network PROVE PlaceType'
<1>n. {"loop", "eof", "msgErr", "msgBye", "authReply", "authErr", "authErrBye", "authLate",
       "joinReply", "joinErr", "joinBye", "bye", "again", "leave", "close", "done"}
        \subseteq NetPlaces
  BY DEF NetPlaces
<1>1. CASE NetStop \/ NetIdle \/ NetEof \/ NetClose \/ NetBye \/ NetLeave \/ NetAgain \/ AuthErrBye
  <2>1. PICK from, to \in NetPlaces : NetQuiet(from, to) /\ NetOnly
    BY <1>1, <1>n DEF NetStop, NetIdle, NetEof, NetClose, NetBye, NetLeave, NetAgain, AuthErrBye
  <2> QED BY <2>1, QuietPlaceType DEF NetOnly
<1>2. CASE NetWake \/ AuthTimeout
  <2>1. PICK from, to \in NetPlaces :
          /\ NetQuiet(from, to) /\ todo' \in {todo, 0, 1, 2}
          /\ heldErr' \in {heldErr, NoDatagram} /\ heldBye' \in {heldBye, NoDatagram}
    BY <1>2, <1>n DEF NetWake, AuthTimeout, NetPlaces
  <2> QED BY <2>1, QuietPlaceType
<1>3. CASE NetLines
  <2>1. lines # << >> /\ RetrieveLine
    BY <1>3 DEF NetLines, LineWithoutMessage, LineRefused, LineMsg, LineAuth, LineJoin, NextLine,
                NetLine, FirstLine
  <2>2. InputTypeOK'
    BY <2>1, RetrieveType DEF PlaceType
  <2>3. /\ UNCHANGED << recv, sig, exited, todo, heldErr, heldBye, acks >>
        /\ net' \in {"loop", "eof", "waitMsg", "waitAuth", "waitJoin"}
    BY <1>3 DEF NetLines, LineWithoutMessage, LineRefused, LineMsg, LineAuth, LineJoin, NetLine
  <2>4. net' \in NetPlaces /\ todo' \in 0..2 /\ acks' \subseteq Bytes \X Bytes
    BY <2>3 DEF NetPlaces, PlaceType
  <2> QED BY <2>2, <2>3, <2>4, NetPlaceType
<1>4. ASSUME NEW from, NEW to \in NetPlaces, Looked(from, to), UNCHANGED todo
      PROVE  PlaceType'
  BY <1>4, QuietPlaceType DEF Looked
<1>5. \A type : Found(type) => Oldest(type).id \in IDs
  BY OldestFound DEF Datagrams
<1>6. CASE MsgErr
  BY <1>6, <1>n, <1>4, <1>5, HandledPlaceType DEF MsgErr, NetOnly
<1>7. CASE MsgBye
  BY <1>7, <1>n, <1>4, <1>5, HandledPlaceType DEF MsgBye, NetOnly
<1>8. CASE AuthReply
  BY <1>8, <1>n, <1>4, <1>5, HandledPlaceType DEF AuthReply
<1>9. CASE AuthErr
  BY <1>9, <1>n, <1>4, <1>5, HandledPlaceType DEF AuthErr
<1>10. CASE AuthLate
  BY <1>10, <1>n, <1>4, <1>5, HandledPlaceType DEF AuthLate
<1>11. CASE JoinReply
  BY <1>11, <1>n, <1>4, <1>5, HandledPlaceType DEF JoinReply, NetOnly
<1>12. \A d \in Datagrams \cup {NoDatagram} : d.id \in IDs
  <2>1. 0 \in IDs
    BY DEF IDs
  <2> QED BY <2>1 DEF Datagrams, NoDatagram
<1>13. heldErr.id \in IDs /\ heldBye.id \in IDs
  BY <1>12 DEF PlaceType
<1>14. CASE JoinErr
  <2>1. CASE /\ NetQuiet("joinErr", "joinBye") /\ UNCHANGED << todo, heldBye >>
             /\ heldErr' = IF Found("ERR") THEN Oldest("ERR") ELSE NoDatagram
    BY <2>1, <1>n, QuietPlaceType
  <2>2. CASE ~(/\ NetQuiet("joinErr", "joinBye") /\ UNCHANGED << todo, heldBye >>
               /\ heldErr' = IF Found("ERR") THEN Oldest("ERR") ELSE NoDatagram)
    BY <2>2, <1>14, <1>n, <1>13, HandledPlaceType DEF JoinErr, NetOnly
  <2> QED BY <2>1, <2>2
<1>15. CASE JoinBye
  <2>1. CASE /\ NetQuiet("joinBye", "joinReply") /\ UNCHANGED << todo, heldErr >>
             /\ heldBye' = IF Found("BYE") THEN Oldest("BYE") ELSE NoDatagram
    BY <2>1, <1>n, QuietPlaceType
  <2>2. CASE ~(/\ NetQuiet("joinBye", "joinReply") /\ UNCHANGED << todo, heldErr >>
               /\ heldBye' = IF Found("BYE") THEN Oldest("BYE") ELSE NoDatagram)
    BY <2>2, <1>15, <1>n, <1>13, HandledPlaceType DEF JoinBye, NetOnly
  <2> QED BY <2>1, <2>2
<1> QED
  BY <1>1, <1>2, <1>3, <1>6, <1>7, <1>8, <1>9, <1>10, <1>11, <1>14, <1>15 DEF Network, NetAuth
-----------------------------------------------------------------------------
(* The messages under way and those the server has got are messages sent. *)
MessagesNumbered ==
  /\ received \subseteq 1..sends
  /\ \A c \in ConfThreads : conf[c].pc # "idle" => conf[c].num \in 1..sends

(* A message that begins is the next one. *)
LEMMA StartNumbered ==
  ASSUME TypeOK, MessagesNumbered, NEW c \in ConfThreads, StartConfirmThread(c)
  PROVE  MessagesNumbered'
<1>1. conf \in [ConfThreads -> ConfStates] /\ sends \in Nat
  BY DEF TypeOK, Nums
<1>2. /\ sends' = sends + 1 /\ received' = received
      /\ conf'[c].num = sends + 1
      /\ \A d \in ConfThreads : d # c => conf'[d] = conf[d]
  BY <1>1 DEF StartConfirmThread, IdleConf
<1>3. 1..sends \subseteq 1..(sends + 1) /\ sends + 1 \in 1..(sends + 1)
  BY <1>1
<1> QED BY <1>2, <1>3 DEF MessagesNumbered

(* A confirm thread keeps the number of its message until it is idle. *)
LEMMA ConfNumbered ==
  ASSUME TypeOK, MessagesNumbered, NEW c \in ConfThreads, ConfStep(c)
  PROVE  MessagesNumbered'
<1>1. conf \in [ConfThreads -> ConfStates]
  BY DEF TypeOK
<1>2. /\ sends' = sends /\ received' \in {received, received \cup {conf[c].num}}
      /\ conf[c].pc # "idle"
  BY DEF ConfStep, ReadExpected, LockAndCount, Transmit, Look, Confirmed, TimeOut, GiveUp,
         CloseAfterLoss
<1>3. \A d \in ConfThreads : conf'[d].pc # "idle" => conf[d].pc # "idle" /\ conf'[d].num = conf[d].num
  <2>1. CASE ReadExpected(c)   BY <2>1, <1>1 DEF ReadExpected
  <2>2. CASE LockAndCount(c)   BY <2>2, <1>1 DEF LockAndCount
  <2>3. CASE Transmit(c)       BY <2>3, <1>1 DEF Transmit
  <2>4. CASE Confirmed(c)      BY <2>4, <1>1 DEF Confirmed, IdleConf
  <2>5. CASE TimeOut(c)        BY <2>5, <1>1 DEF TimeOut
  <2>6. CASE GiveUp(c)         BY <2>6, <1>1 DEF GiveUp
  <2>7. CASE CloseAfterLoss(c) BY <2>7, <1>1 DEF CloseAfterLoss, IdleConf
  <2>8. CASE Look(c)           BY <2>8, <1>1 DEF Look
  <2> QED BY <2>1, <2>2, <2>3, <2>4, <2>5, <2>6, <2>7, <2>8 DEF ConfStep
<1> QED BY <1>2, <1>3 DEF MessagesNumbered

(* No other step of confirmed sending touches them. *)
LEMMA NumberedStep == TypeOK /\ MessagesNumbered /\ CoreStep => MessagesNumbered'
<1> SUFFICES ASSUME TypeOK, MessagesNumbered, CoreStep PROVE MessagesNumbered'
  OBVIOUS
<1>1. ASSUME NEW k \in Callers, NEW c \in ConfThreads, Send(k, c) \/ SendWhileHolding(k, c)
      PROVE  MessagesNumbered'
  BY <1>1, StartNumbered DEF Send, SendWhileHolding
<1>2. ASSUME NEW c \in ConfThreads, ConfStep(c) PROVE MessagesNumbered'
  BY <1>2, ConfNumbered
<1>3. ASSUME UNCHANGED << sends, conf, received >> PROVE MessagesNumbered'
  BY <1>3 DEF MessagesNumbered
<1>4. ASSUME NEW k \in Callers, Wake(k) \/ Unlock(k) PROVE MessagesNumbered'
  BY <1>3, <1>4 DEF Wake, Unlock
<1>5. ASSUME NEW id \in WireIDs, ReceiveConfirm(id) PROVE MessagesNumbered'
  BY <1>3, <1>5 DEF ReceiveConfirm
<1>6. CASE ClearBuffer \/ SendBye \/ StopNetwork \/ UNCHANGED coreVars
  BY <1>3, <1>6 DEF ClearBuffer, SendBye, StopNetwork, coreVars
<1> QED BY <1>1, <1>2, <1>4, <1>5, <1>6 DEF CoreStep, CoreNext
-----------------------------------------------------------------------------
(* What holds of every state, before anything is said about the session *)
ClientInv == TypeOK /\ PlaceType /\ DataType /\ TodoInv /\ MessagesNumbered

ElsewhereStep == Quiet \/ (\E d : Arrives(d)) \/ (\E d : Makes(d))
NetworkStep   == Moves \/ Asks \/ (\E d : Drops(d)) \/ TakesVerdict \/ Reports

(* Whoever takes a step, it is one of these, and keeps the types. *)
LEMMA ClientInvStep ==
  ASSUME ClientInv, [Next]_vars
  PROVE  ClientInv' /\ (ElsewhereStep \/ NetworkStep)
<1>0. TypeOK /\ PlaceType /\ DataType /\ TodoInv /\ MessagesNumbered
  BY DEF ClientInv
<1>1. CoreStep /\ TypeOK'
  BY <1>0, ClientStep, TypeStep DEF CoreStep
<1>2. MessagesNumbered'
  BY <1>0, <1>1, NumberedStep
<1>3. CASE Network
  <2>1. NetworkStep /\ TodoInv'
    BY <1>0, <1>3, NetworkSteps DEF NetworkStep
  <2>2. DataType' /\ PlaceType'
    BY <1>0, <1>3, <2>1, NetworkDataType, NetworkPlaceType DEF NetworkStep
  <2> QED BY <1>1, <1>2, <2>1, <2>2 DEF ClientInv
<1>4. CASE Stdin \/ Signal \/ Arrival \/ Receiver \/ Server \/ Exit \/ UNCHANGED vars
             \/ \E c \in ConfThreads : ConfirmThread(c)
  <2>1. ElsewhereStep
    BY <1>0, <1>4, OtherSteps DEF ElsewhereStep
  <2>2. DataType' /\ PlaceType'
    BY <1>0, <1>4, <2>1, OtherDataType, OtherPlaceType DEF ElsewhereStep
  <2>3. TodoInv'
    BY <1>0, <2>1 DEF ElsewhereStep, Quiet, Arrives, Makes, Elsewhere, TodoInv
  <2> QED BY <1>1, <1>2, <2>1, <2>2, <2>3 DEF ClientInv
<1> QED BY <1>3, <1>4 DEF Next, Running, Ended

(* The program starts so. *)
LEMMA ClientInvInit == Init => ClientInv
<1> SUFFICES ASSUME Init PROVE ClientInv
  OBVIOUS
<1>1. TypeOK
  BY TypeInit DEF Init
<1>2. MessagesNumbered
  BY DEF Init, CoreInit, IdleConf, MessagesNumbered
<1>3. TodoInv
  BY DEF Init, TodoInv
<1>4. PlaceType
  <2>1. InputTypeOK
    BY InputInitType DEF Init
  <2>2. net \in NetPlaces /\ todo \in 0..2
    BY DEF Init, NetPlaces
  <2>3. heldErr \in Datagrams \cup {NoDatagram} /\ heldBye \in Datagrams \cup {NoDatagram}
    BY DEF Init
  <2>4. /\ recv \in {"run", "wait", "bye", "stop", "unlock", "clear", "done"}
        /\ sig \in {"run", "bye", "done"} /\ exited \in BOOLEAN
        /\ acks \subseteq Bytes \X Bytes
    BY DEF Init
  <2> QED BY <2>1, <2>2, <2>3, <2>4 DEF PlaceType
<1>5. DataType
  <2>1. IsABag(fromServer) /\ BagToSet(fromServer) \subseteq made
    BY DEF Init, EmptyBag, SetToBag, IsABag, BagToSet
  <2>2. IsFiniteSet(made) /\ made \subseteq Datagrams
    BY FS_EmptySet DEF Init
  <2>3. responses \in Seq(Datagrams) /\ requests \in Seq(Kinds) /\ Len(requests) = sends
    BY EmptySeq DEF Init, CoreInit
  <2> QED BY <2>1, <2>2, <2>3 DEF Init, DataType
<1> QED BY <1>1, <1>2, <1>3, <1>4, <1>5 DEF ClientInv

(* The variables of the client have their types: the buffer holds          *)
(* datagrams, every message sent is counted once, a CONFIRM carries two    *)
(* bytes however the identifier was read, and what is on its way from the  *)
(* server was made by it.                                                  *)
THEOREM ClientTypeCorrect == Spec => []ClientTypeOK
<1>1. Init => ClientInv
  BY ClientInvInit
<1>2. ClientInv /\ [Next]_vars => ClientInv'
  BY ClientInvStep
<1>3. ClientInv => ClientTypeOK
  BY TypeParts DEF ClientInv
<1> QED BY <1>1, <1>2, <1>3, PTL DEF Spec
-----------------------------------------------------------------------------
(* The messages that the server answers *)
Questions == {n \in 1..sends : requests[n] \in {"AUTH", "JOIN"}}

(* NothingBeforeOpen, strengthened: what the network thread reads was made *)
(* by the server in answer to a question, and every MSG and JOIN follows   *)
(* an AUTH that was granted.                                               *)
NothingInv ==
  /\ \A d \in made : d.type = "REPLY" => d.ref \in Questions
  /\ ToSet(responses) \subseteq made
  /\ status = "OPEN" => \E d \in made : AuthAccepted(d)
  /\ \A n \in 1..sends : requests[n] \in {"MSG", "JOIN"} =>
       \E d \in made : AuthAccepted(d) /\ d.ref < n

(* What was sent stays what it is. *)
LEMMA SentKeeps ==
  ASSUME DataType, sends \in Nat, NotSent \/ \E kind : Sent(kind)
  PROVE  /\ \A n \in 1..sends : requests'[n] = requests[n]
         /\ 1..sends \subseteq 1..sends' /\ Questions \subseteq Questions'
         /\ \A kind : Sent(kind) => /\ requests'[sends + 1] = kind
                                    /\ 1..sends' = (1..sends) \cup {sends + 1}
<1>1. CASE NotSent
  <2>1. \A kind : ~ Sent(kind)
    BY <1>1 DEF NotSent, Sent
  <2> QED BY <1>1, <2>1 DEF NotSent, Questions
<1>2. ASSUME NEW kind, Sent(kind)
      PROVE  /\ \A n \in 1..sends : requests'[n] = requests[n]
             /\ requests'[sends + 1] = kind
  BY <1>2, AppendProperties DEF Sent, DataType
<1>3. ASSUME NEW kind, Sent(kind) PROVE 1..sends' = (1..sends) \cup {sends + 1}
  BY <1>3 DEF Sent
<1>4. CASE \E kind : Sent(kind)
  <2>1. (\A n \in 1..sends : requests'[n] = requests[n]) /\ 1..sends \subseteq 1..sends'
    BY <1>2, <1>3, <1>4
  <2> QED BY <1>2, <1>3, <2>1 DEF Questions
<1> QED BY <1>1, <1>4

(* The buffer only loses datagrams to those who look them up. *)
LEMMA BufferShrinks ==
  ASSUME DataType, NEW d, responses' \in RemoveMessage(responses, d)
  PROVE  ToSet(responses') \subseteq ToSet(responses)
<1>1. PICK f \in [1..Len(responses') -> 1..Len(responses)] :
        \A n \in 1..Len(responses') : responses'[n] = responses[f[n]]
  BY RemoveMessageProperties DEF DataType
<1>2. \A n \in 1..Len(responses') : responses'[n] \in ToSet(responses)
  BY <1>1 DEF ToSet
<1>3. ToSet(responses') = {responses'[n] : n \in 1..Len(responses')}
  BY RemoveMessageProperties, LenProperties DEF DataType, ToSet
<1> QED BY <1>2, <1>3

(* It grows by what arrives. *)
LEMMA BufferGrows ==
  ASSUME DataType, NEW d \in Datagrams
  PROVE  ToSet(Append(responses, d)) = ToSet(responses) \cup {d}
<1>1. /\ Append(responses, d) \in Seq(Datagrams) /\ Len(responses) \in Nat
      /\ Len(Append(responses, d)) = Len(responses) + 1
      /\ \A n \in 1..Len(responses) : Append(responses, d)[n] = responses[n]
      /\ Append(responses, d)[Len(responses) + 1] = d
  BY AppendProperties, LenProperties DEF DataType
<1>2. /\ DOMAIN Append(responses, d) = 1..(Len(responses) + 1)
      /\ DOMAIN responses = 1..Len(responses)
  BY <1>1, LenProperties DEF DataType
<1>3. 1..(Len(responses) + 1) = (1..Len(responses)) \cup {Len(responses) + 1}
  BY <1>1
<1> QED BY <1>1, <1>2, <1>3 DEF ToSet

(* The step of NothingInv, whatever was sent, made or read *)
LEMMA NothingFrame ==
  ASSUME DataType, sends \in Nat, NothingInv,
         made \subseteq made', ToSet(responses') \subseteq made',
         \A d \in made' : d.type = "REPLY" => d \in made \/ d.ref \in Questions,
         NotSent \/ \E kind : Sent(kind) /\ (kind \in {"MSG", "JOIN"} => status = "OPEN"),
         status' = "OPEN" => \/ status = "OPEN"
                             \/ \E d \in made : d.type = "REPLY" /\ d.result = "ok"
  PROVE  NothingInv'
<1>1. /\ \A n \in 1..sends : requests'[n] = requests[n]
      /\ 1..sends \subseteq 1..sends' /\ Questions \subseteq Questions'
  BY SentKeeps
<1>2. \A d \in made : d.type = "REPLY" => d.ref \in Questions /\ d.ref \in 1..sends
  BY DEF NothingInv, Questions
<1>3. \A d \in made : AuthAccepted(d) => d \in made' /\ AuthAccepted(d)'
  BY <1>1, <1>2 DEF AuthAccepted
<1>4. \A d \in made' : d.type = "REPLY" => d.ref \in Questions'
  BY <1>1, <1>2
<1>5. status' = "OPEN" => \E d \in made : AuthAccepted(d)
  <2>1. ASSUME NEW d \in made, d.type = "REPLY", d.result = "ok"
        PROVE  \E e \in made : AuthAccepted(e)
    <3>1. d.ref \in 1..sends /\ requests[d.ref] \in {"AUTH", "JOIN"}
      BY <1>2, <2>1 DEF Questions
    <3>2. CASE requests[d.ref] = "AUTH"
      BY <2>1, <3>2 DEF AuthAccepted
    <3>3. CASE requests[d.ref] = "JOIN"
      BY <3>1, <3>3 DEF NothingInv
    <3> QED BY <3>1, <3>2, <3>3
  <2> QED BY <2>1 DEF NothingInv
<1>6. ASSUME NEW n \in 1..sends', requests'[n] \in {"MSG", "JOIN"}
      PROVE  \E d \in made : AuthAccepted(d) /\ d.ref < n
  <2>1. CASE n \in 1..sends
    BY <1>1, <1>6, <2>1 DEF NothingInv
  <2>2. CASE n \notin 1..sends
    <3>1. PICK kind : Sent(kind) /\ (kind \in {"MSG", "JOIN"} => status = "OPEN")
      BY <2>2 DEF NotSent
    <3>2. n = sends + 1 /\ requests'[n] = kind
      BY <1>6, <2>2, <3>1, SentKeeps
    <3>3. PICK d \in made : AuthAccepted(d)
      BY <1>6, <3>1, <3>2 DEF NothingInv
    <3>4. d.ref \in 1..sends
      BY <1>2, <3>3 DEF AuthAccepted
    <3>5. d.ref < n
      BY <3>2, <3>4
    <3> QED BY <3>3, <3>5
  <2> QED BY <2>1, <2>2
<1>7. \A n \in 1..sends' : requests'[n] \in {"MSG", "JOIN"} =>
        \E d \in made' : AuthAccepted(d)' /\ d.ref < n
  BY <1>3, <1>6
<1>8. status' = "OPEN" => \E d \in made' : AuthAccepted(d)'
  BY <1>3, <1>5
<1> QED BY <1>4, <1>7, <1>8 DEF NothingInv

(* Every step keeps it. *)
LEMMA NothingStep ==
  ASSUME ClientInv, NothingInv, ElsewhereStep \/ NetworkStep
  PROVE  NothingInv'
<1>0. DataType /\ sends \in Nat /\ MessagesNumbered /\ ToSet(responses) \subseteq made
  BY DEF ClientInv, TypeOK, Nums, NothingInv
<1>1. CASE Quiet
  <2>1. ToSet(<< >>) = {}
    BY DEF ToSet
  <2> QED BY <1>0, <1>1, <2>1, NothingFrame DEF Quiet, Elsewhere
<1>2. ASSUME NEW d, Arrives(d) PROVE NothingInv'
  <2>1. d \in made /\ d \in Datagrams
    BY <1>0, <1>2 DEF Arrives, BagIn, DataType
  <2>2. ToSet(responses') \subseteq made' /\ made' = made
    BY <1>0, <1>2, <2>1, BufferGrows DEF Arrives
  <2>3. status' = status /\ (NotSent \/ Sent("ERR"))
    BY <1>2 DEF Arrives, Elsewhere
  <2> QED BY <1>0, <2>2, <2>3, NothingFrame
<1>3. ASSUME NEW d, Makes(d) PROVE NothingInv'
  <2>1. d.type = "REPLY" => d.ref \in Questions
    BY <1>0, <1>3 DEF Makes, Unanswered, Questions, MessagesNumbered
  <2> QED BY <1>0, <1>3, <2>1, NothingFrame DEF Makes, Elsewhere
<1>4. CASE Moves
  BY <1>0, <1>4, NothingFrame DEF Moves
<1>5. CASE Asks
  BY <1>0, <1>5, NothingFrame DEF Asks
<1>6. ASSUME NEW d, Drops(d) PROVE NothingInv'
  <2>1. ToSet(responses') \subseteq made
    BY <1>0, <1>6, BufferShrinks DEF Drops
  <2> QED BY <1>0, <1>6, <2>1, NothingFrame DEF Drops
<1>7. Found("REPLY") => Oldest("REPLY") \in made /\ Oldest("REPLY").type = "REPLY"
  BY <1>0, OldestFound
<1>8. CASE TakesVerdict
  <2>1. ToSet(responses') \subseteq made /\ made' = made
    BY <1>0, <1>8, BufferShrinks DEF TakesVerdict
  <2>2. status' = "OPEN" => \/ status = "OPEN"
                            \/ \E d \in made : d.type = "REPLY" /\ d.result = "ok"
    BY <1>7, <1>8 DEF TakesVerdict, StatusAfter
  <2>3. NotSent
    BY <1>8 DEF TakesVerdict
  <2> QED BY <1>0, <2>1, <2>2, <2>3, NothingFrame
<1>9. CASE Reports
  <2>1. ToSet(responses') \subseteq made /\ made' = made /\ Sent("ERR")
    BY <1>0, <1>9 DEF Reports
  <2>2. status' = "OPEN" => \/ status = "OPEN"
                            \/ \E d \in made : d.type = "REPLY" /\ d.result = "ok"
    BY <1>7, <1>9 DEF Reports
  <2> QED BY <1>0, <2>1, <2>2, NothingFrame
<1> QED BY <1>1, <1>2, <1>3, <1>4, <1>5, <1>6, <1>8, <1>9 DEF ElsewhereStep, NetworkStep

(* At the start nothing was sent. *)
LEMMA NothingInit == Init => NothingInv
<1> SUFFICES ASSUME Init PROVE NothingInv
  OBVIOUS
<1>1. sends = 0 /\ made = {} /\ responses = << >> /\ status = "START"
  BY DEF Init, CoreInit
<1>2. ToSet(responses) = {} /\ 1..sends = {}
  BY <1>1 DEF ToSet
<1> QED BY <1>1, <1>2 DEF NothingInv

(* However datagrams are delayed, lost, copied or mixed up, the client     *)
(* believes that it is authenticated only if the server has granted an     *)
(* AUTH, and no MSG and no JOIN reaches the server before it has.          *)
THEOREM NothingBeforeOpenCorrect == Spec => []NothingBeforeOpen
<1>1. Init => ClientInv /\ NothingInv
  BY ClientInvInit, NothingInit
<1>2. ClientInv /\ NothingInv /\ [Next]_vars => ClientInv' /\ NothingInv'
  BY ClientInvStep, NothingStep
<1>3. ClientInv /\ NothingInv => NothingBeforeOpen
  BY DEF ClientInv, MessagesNumbered, NothingInv, NothingBeforeOpen
<1> QED BY <1>1, <1>2, <1>3, PTL DEF Spec
-----------------------------------------------------------------------------
Replies    == {d \in made : d.type = "REPLY"}
Replied(n) == \E d \in Replies : d.ref = n

(* A REPLY that the network thread has not taken *)
Unread(d) == d.type = "REPLY" /\ (d \in ToSet(responses) \/ BagIn(d, fromServer))

(* Where the network copies nothing, a REPLY is on its way or in the       *)
(* buffer, once, and a question has one.                                   *)
OneCopy ==
  /\ \A d, e \in Replies : d.ref = e.ref => d = e
  /\ \A d \in Replies : BagIn(d, fromServer) => fromServer[d] = 1 /\ d \notin ToSet(responses)
  /\ \A i, j \in 1..Len(responses) :
       responses[i].type = "REPLY" /\ responses[i] = responses[j] => i = j

(* Between two commands every question has had its REPLY, which was taken  *)
(* and believed.                                                           *)
SettledInv ==
  /\ status # "AUTH"
  /\ status = "OPEN" <=> \E d \in made : AuthAccepted(d)
  /\ \A n \in Questions : Replied(n)
  /\ \A d \in made : ~ Unread(d)

(* In a wait for the REPLY to c, a question of this kind, c is the last    *)
(* question and the only one whose REPLY has not been taken.               *)
AwaitsReplyTo(c, kind) ==
  /\ c \in Questions /\ requests[c] = kind
  /\ \A n \in Questions : n # c => n < c /\ Replied(n)
  /\ \A d \in made : Unread(d) => d.ref = c

Latest == caller[NetworkThread].num

SessionInv ==
  /\ Settled => SettledInv
  /\ AwaitsAuth => /\ status = "AUTH" /\ AwaitsReplyTo(Latest, "AUTH")
                   /\ \A d \in made : AuthAccepted(d) => d.ref = Latest
  /\ AwaitsJoin => status = "OPEN" /\ AwaitsReplyTo(Latest, "JOIN")

(* The buffer, when one datagram was removed, holds at its places some of  *)
(* what it held, each place once.                                          *)
LEMMA BufferPlaces ==
  ASSUME DataType, NEW d, responses' \in RemoveMessage(responses, d)
  PROVE  \E f \in [1..Len(responses') -> 1..Len(responses)] :
           /\ \A m, n \in 1..Len(responses') : f[m] = f[n] => m = n
           /\ \A n \in 1..Len(responses') : responses'[n] = responses[f[n]]
           /\ \A i \in 1..Len(responses) : responses[i] = d =>
                \E k \in 1..Len(responses) :
                  responses[k] = d /\ \A n \in 1..Len(responses') : f[n] # k
<1>1. responses \in Seq(Datagrams)
  BY DEF DataType
<1>2. \A rest \in RemoveMessage(responses, d) :
        \E f \in [1..Len(rest) -> 1..Len(responses)] :
           /\ \A m, n \in 1..Len(rest) : f[m] = f[n] => m = n
           /\ \A n \in 1..Len(rest) : rest[n] = responses[f[n]]
           /\ \A i \in 1..Len(responses) : responses[i] = d =>
                \E k \in 1..Len(responses) :
                  responses[k] = d /\ \A n \in 1..Len(rest) : f[n] # k
  BY <1>1, RemoveMessageProperties, SMTT(60)
<1> QED BY <1>2

(* Removing keeps the copies apart. *)
LEMMA RemovedOnce ==
  ASSUME DataType, OneCopy, NEW d, responses' \in RemoveMessage(responses, d),
         UNCHANGED << made, fromServer >>
  PROVE  OneCopy'
<1>1. PICK f \in [1..Len(responses') -> 1..Len(responses)] :
        /\ \A m, n \in 1..Len(responses') : f[m] = f[n] => m = n
        /\ \A n \in 1..Len(responses') : responses'[n] = responses[f[n]]
  BY BufferPlaces
<1>2. \A i, j \in 1..Len(responses') :
        responses'[i].type = "REPLY" /\ responses'[i] = responses'[j] => i = j
  BY <1>1 DEF OneCopy
<1>3. ToSet(responses') \subseteq ToSet(responses)
  BY BufferShrinks
<1> QED BY <1>2, <1>3 DEF OneCopy, Replies

(* A REPLY removed was the only one of its kind. *)
LEMMA RemovedGone ==
  ASSUME DataType, OneCopy, NEW d \in ToSet(responses), d.type = "REPLY",
         responses' \in RemoveMessage(responses, d)
  PROVE  d \notin ToSet(responses')
<1>1. PICK f \in [1..Len(responses') -> 1..Len(responses)] :
        /\ \A n \in 1..Len(responses') : responses'[n] = responses[f[n]]
        /\ \A i \in 1..Len(responses) : responses[i] = d =>
             \E k \in 1..Len(responses) :
               responses[k] = d /\ \A n \in 1..Len(responses') : f[n] # k
  BY BufferPlaces
<1>2. PICK i \in 1..Len(responses) : responses[i] = d
  BY LenProperties DEF DataType, ToSet
<1>3. PICK k \in 1..Len(responses) :
        responses[k] = d /\ \A n \in 1..Len(responses') : f[n] # k
  BY <1>1, <1>2
<1>4. \A n \in 1..Len(responses') : responses'[n] # d
  BY <1>1, <1>3 DEF OneCopy
<1>5. ToSet(responses') = {responses'[n] : n \in 1..Len(responses')}
  BY RemoveMessageProperties, LenProperties DEF DataType, ToSet
<1> QED BY <1>4, <1>5

(* The copies stay apart whoever takes a step. *)
LEMMA OneCopyStep ==
  ASSUME MaxCopies = 1, ClientInv, NothingInv, OneCopy, ElsewhereStep \/ NetworkStep
  PROVE  OneCopy'
<1>0. DataType /\ Len(responses) \in Nat /\ ToSet(responses) \subseteq made
  BY LenProperties DEF ClientInv, DataType, NothingInv
<1>1. CASE Quiet
  <2>1. ToSet(<< >>) = {} /\ 1..Len(<< >>) = {}
    BY DEF ToSet
  <2>2. \A i, j \in 1..Len(responses') :
          responses'[i].type = "REPLY" /\ responses'[i] = responses'[j] => i = j
    BY <1>1, <2>1 DEF Quiet, OneCopy
  <2>3. ToSet(responses') \subseteq ToSet(responses)
    BY <1>1, <2>1 DEF Quiet
  <2> QED BY <1>1, <2>2, <2>3 DEF Quiet, OneCopy, Replies
<1>2. ASSUME NEW d, Arrives(d) PROVE OneCopy'
  <2>1. d \in made /\ d \in Datagrams /\ d \in DOMAIN fromServer /\ IsABag(fromServer)
    BY <1>0, <1>2 DEF Arrives, BagIn, BagToSet, DataType
  <2>2. /\ \A e \in DOMAIN fromServer' : e # d => e \in DOMAIN fromServer /\ fromServer'[e] = fromServer[e]
        /\ fromServer[d] = 1 => d \notin DOMAIN fromServer'
    BY <1>2, <2>1, OneTaken DEF Arrives
  <2>3. ToSet(responses') \subseteq ToSet(responses) \cup {d}
    BY <1>0, <1>2, <2>1, BufferGrows DEF Arrives
  <2>4. d.type = "REPLY" => fromServer[d] = 1 /\ d \notin ToSet(responses)
    BY <2>1 DEF OneCopy, Replies, BagIn, BagToSet
  <2>5. \A e \in Replies : BagIn(e, fromServer') => fromServer'[e] = 1 /\ e \notin ToSet(responses')
    BY <2>2, <2>3, <2>4 DEF OneCopy, Replies, BagIn, BagToSet
  <2>6. ASSUME responses' = Append(responses, d)
        PROVE  \A i, j \in 1..Len(responses') :
                 responses'[i].type = "REPLY" /\ responses'[i] = responses'[j] => i = j
    <3>1. /\ Len(responses') = Len(responses) + 1 /\ responses'[Len(responses) + 1] = d
          /\ \A i \in 1..Len(responses) : responses'[i] = responses[i]
      BY <1>0, <2>1, <2>6, AppendProperties DEF DataType
    <3>2. \A i \in 1..Len(responses) : responses[i] \in ToSet(responses)
      BY <1>0, LenProperties DEF DataType, ToSet
    <3>3. 1..Len(responses') = (1..Len(responses)) \cup {Len(responses) + 1}
      BY <1>0, <3>1
    <3> QED BY <2>4, <3>1, <3>2, <3>3 DEF OneCopy
  <2>7. \A i, j \in 1..Len(responses') :
          responses'[i].type = "REPLY" /\ responses'[i] = responses'[j] => i = j
    BY <1>2, <2>6 DEF Arrives, OneCopy
  <2> QED BY <1>2, <2>5, <2>7 DEF Arrives, OneCopy, Replies
<1>3. ASSUME NEW d, Makes(d) PROVE OneCopy'
  <2>1. d.type = "REPLY" => \A e \in Replies : e.ref # d.ref
    BY <1>3 DEF Makes, Unanswered, Replies
  <2>2. /\ IsABag(fromServer) /\ DOMAIN fromServer \subseteq made
        /\ d.type = "REPLY" => d \notin made
    BY <1>0, <2>1 DEF DataType, BagToSet, Replies
  <2>3. /\ DOMAIN fromServer' = DOMAIN fromServer \cup {d}
        /\ \A e \in DOMAIN fromServer : e # d => fromServer'[e] = fromServer[e]
        /\ d \notin DOMAIN fromServer => fromServer'[d] = 1
    BY <1>3, <2>2, CopiesPut DEF Makes
  <2>4. Replies' = Replies \cup {e \in {d} : e.type = "REPLY"} /\ responses' = responses
    BY <1>3 DEF Makes, Replies
  <2>5. \A e \in Replies' : BagIn(e, fromServer') => fromServer'[e] = 1 /\ e \notin ToSet(responses)
    BY <1>0, <2>2, <2>3, <2>4 DEF OneCopy, BagIn, BagToSet, Replies
  <2> QED BY <2>1, <2>4, <2>5 DEF OneCopy
<1>4. CASE Moves \/ Asks \/ Reports
  BY <1>4 DEF Moves, Asks, Reports, OneCopy, Replies
<1>5. CASE TakesVerdict \/ \E d : Drops(d)
  BY <1>0, <1>5, RemovedOnce DEF TakesVerdict, Drops
<1> QED BY <1>1, <1>2, <1>3, <1>4, <1>5 DEF ElsewhereStep, NetworkStep

(* A step that asks no question and takes no REPLY *)
Calm == /\ UNCHANGED << status, made >>
        /\ NotSent \/ \E kind \in {"MSG", "ERR"} : Sent(kind)
        /\ \A d \in made : Unread(d)' => Unread(d)

(* It changes nothing of a session. *)
LEMMA CalmKeeps ==
  ASSUME ClientInv, NothingInv, Calm
  PROVE  /\ SettledInv => SettledInv'
         /\ \A c, kind : AwaitsReplyTo(c, kind) => AwaitsReplyTo(c, kind)'
         /\ \A d \in made : AuthAccepted(d)' = AuthAccepted(d)
<1>0. DataType /\ sends \in Nat
  BY DEF ClientInv, TypeOK, Nums
<1>1. \A n \in 1..sends : requests'[n] = requests[n]
  BY <1>0, SentKeeps DEF Calm
<1>2. Questions' = Questions
  <2>1. CASE NotSent
    BY <2>1 DEF NotSent, Questions
  <2>2. ASSUME NEW kind \in {"MSG", "ERR"}, Sent(kind) PROVE Questions' = Questions
    <3>1. requests'[sends + 1] = kind /\ 1..sends' = (1..sends) \cup {sends + 1}
      BY <1>0, <2>2, SentKeeps
    <3> QED BY <1>1, <3>1 DEF Questions
  <2> QED BY <2>1, <2>2 DEF Calm
<1>3. \A d \in made : AuthAccepted(d)' = AuthAccepted(d)
  BY <1>1 DEF AuthAccepted, NothingInv, Questions
<1>4. \A n : Replied(n)' = Replied(n)
  BY DEF Replied, Replies, Calm
<1>5. SettledInv => SettledInv'
  BY <1>2, <1>3, <1>4 DEF SettledInv, Calm
<1>6. \A c, kind : AwaitsReplyTo(c, kind) => AwaitsReplyTo(c, kind)'
  BY <1>1, <1>2, <1>4 DEF AwaitsReplyTo, Calm, Questions
<1> QED BY <1>3, <1>5, <1>6

(* A thread of the client beside the network thread takes a calm step. *)
LEMMA CalmElsewhere ==
  ASSUME ClientInv, NothingInv, Quiet \/ \E d : Arrives(d)
  PROVE  Calm
<1>0. DataType
  BY DEF ClientInv
<1>1. CASE Quiet
  <2>1. ToSet(<< >>) = {}
    BY DEF ToSet
  <2> QED BY <1>1, <2>1 DEF Quiet, Elsewhere, Calm, Unread
<1>2. ASSUME NEW d, Arrives(d) PROVE Calm
  <2>1. d \in Datagrams /\ d \in DOMAIN fromServer /\ IsABag(fromServer)
    BY <1>0, <1>2 DEF Arrives, BagIn, BagToSet, DataType
  <2>2. DOMAIN fromServer' \subseteq DOMAIN fromServer
    BY <1>2, <2>1, OneTaken DEF Arrives
  <2>3. ToSet(responses') \subseteq ToSet(responses) \cup {d}
    BY <1>0, <1>2, <2>1, BufferGrows DEF Arrives
  <2> QED BY <1>2, <2>1, <2>2, <2>3 DEF Arrives, Elsewhere, Calm, Unread, BagIn, BagToSet
<1> QED BY <1>1, <1>2

(* What the server makes changes nothing of a session but the REPLY that   *)
(* is awaited.                                                             *)
LEMMA ServerKeeps ==
  ASSUME ClientInv, NothingInv, SessionInv, NEW d, Makes(d)
  PROVE  SessionInv'
<1>0. DataType /\ received \subseteq 1..sends
  BY DEF ClientInv, MessagesNumbered
<1>1. /\ Settled' = Settled /\ AwaitsAuth' = AwaitsAuth /\ AwaitsJoin' = AwaitsJoin
      /\ Latest' = Latest /\ status' = status
  BY DEF Makes, Elsewhere, Settled, AwaitsAuth, AwaitsJoin, Latest
<1>2. /\ Questions' = Questions /\ requests' = requests
      /\ \A e : AuthAccepted(e)' = AuthAccepted(e)
  BY DEF Makes, NotSent, Questions, AuthAccepted
<1>3. \A n : Replied(n) => Replied(n)'
  BY DEF Makes, Replied, Replies
<1>4. made' = made \cup {d} /\ \A e \in made : e # d => (Unread(e)' => Unread(e))
  <2>1. IsABag(fromServer) /\ responses' = responses
    BY <1>0 DEF DataType, Makes
  <2>2. DOMAIN fromServer' = DOMAIN fromServer \cup {d}
    BY <2>1, CopiesPut DEF Makes
  <2> QED BY <2>1, <2>2 DEF Makes, Unread, BagIn, BagToSet
<1>5. CASE d.type # "REPLY"
  <2>1. ~ Unread(d)' /\ ~ AuthAccepted(d)
    BY <1>5 DEF Unread, AuthAccepted
  <2>2. SettledInv => SettledInv'
    BY <1>1, <1>2, <1>3, <1>4, <2>1 DEF SettledInv
  <2>3. \A c, kind : AwaitsReplyTo(c, kind) => AwaitsReplyTo(c, kind)'
    BY <1>2, <1>3, <1>4, <2>1 DEF AwaitsReplyTo
  <2> QED BY <1>1, <1>2, <1>4, <2>1, <2>2, <2>3 DEF SessionInv
<1>6. CASE d.type = "REPLY"
  <2>1. d.ref \in Questions /\ ~ Replied(d.ref)
    BY <1>0, <1>6 DEF Makes, Unanswered, Questions, Replied, Replies
  <2>2. ~ Settled
    BY <2>1 DEF SessionInv, SettledInv
  <2>3. ASSUME NEW kind, AwaitsReplyTo(Latest, kind) PROVE d.ref = Latest /\ AwaitsReplyTo(Latest, kind)'
    <3>1. d.ref = Latest
      BY <2>1, <2>3 DEF AwaitsReplyTo
    <3> QED BY <1>1, <1>2, <1>3, <1>4, <2>3, <3>1 DEF AwaitsReplyTo
  <2> QED BY <1>1, <1>2, <1>4, <2>2, <2>3 DEF SessionInv
<1> QED BY <1>5, <1>6

(* Login, or a question or a MSG of who is logged in *)
LEMMA AsksKeeps ==
  ASSUME ClientInv, NothingInv, SessionInv, Asks
  PROVE  SessionInv'
<1>0. DataType /\ sends \in Nat /\ SettledInv
  BY DEF ClientInv, TypeOK, Nums, SessionInv, Asks
<1>1. CASE Sent("MSG") /\ status = "OPEN" /\ status' = "OPEN" /\ Settled'
  <2>1. Calm
    BY <1>1 DEF Asks, Calm, Unread
  <2>2. SettledInv' /\ ~ AwaitsAuth' /\ ~ AwaitsJoin'
    BY <1>0, <1>1, <2>1, CalmKeeps DEF Settled, AwaitsAuth, AwaitsJoin
  <2> QED BY <2>2 DEF SessionInv
<1>2. ASSUME NEW kind \in {"AUTH", "JOIN"}, Sent(kind), Latest' = sends + 1
      PROVE  /\ AwaitsReplyTo(Latest, kind)'
             /\ \A d \in made : AuthAccepted(d)' = AuthAccepted(d)
  <2>1. /\ \A n \in 1..sends : requests'[n] = requests[n]
        /\ requests'[sends + 1] = kind /\ 1..sends' = (1..sends) \cup {sends + 1}
    BY <1>0, <1>2, SentKeeps
  <2>2. Questions' = Questions \cup {sends + 1}
    BY <2>1 DEF Questions
  <2>3. UNCHANGED << responses, made, fromServer >>
    BY DEF Asks
  <2>4. \A d \in made : ~ Unread(d)'
    BY <1>0, <2>3 DEF SettledInv, Unread
  <2>5. \A n \in Questions : n < sends + 1 /\ Replied(n)'
    BY <1>0, <2>3 DEF SettledInv, Questions, Replied, Replies
  <2>6. \A d \in made : AuthAccepted(d)' = AuthAccepted(d)
    BY <2>1 DEF AuthAccepted, NothingInv, Questions
  <2> QED BY <1>2, <2>1, <2>2, <2>3, <2>4, <2>5, <2>6 DEF AwaitsReplyTo
<1>3. CASE /\ Sent("AUTH") /\ status = "START" /\ status' = "AUTH" /\ AwaitsAuth'
           /\ Latest' = sends + 1
  <2>1. \A d \in made' : ~ AuthAccepted(d)'
    BY <1>0, <1>2, <1>3 DEF SettledInv, Asks
  <2>2. ~ Settled' /\ ~ AwaitsJoin'
    BY <1>3 DEF Settled, AwaitsAuth, AwaitsJoin
  <2> QED BY <1>2, <1>3, <2>1, <2>2 DEF SessionInv
<1>4. CASE /\ Sent("JOIN") /\ status = "OPEN" /\ status' = "OPEN" /\ AwaitsJoin'
           /\ Latest' = sends + 1
  <2>1. ~ Settled' /\ ~ AwaitsAuth'
    BY <1>4 DEF Settled, AwaitsAuth, AwaitsJoin
  <2> QED BY <1>2, <1>4, <2>1 DEF SessionInv
<1> QED BY <1>1, <1>3, <1>4 DEF Asks, Latest

(* The REPLY that is taken is the one to the last question. *)
LEMMA VerdictIsLatest ==
  ASSUME ClientInv, NothingInv, SessionInv, Found("REPLY"), AwaitsAuth \/ AwaitsJoin
  PROVE  /\ Oldest("REPLY") \in Replies /\ Oldest("REPLY") \in ToSet(responses)
         /\ Oldest("REPLY").ref = Latest
         /\ AwaitsAuth => AwaitsReplyTo(Latest, "AUTH")
         /\ AwaitsJoin => AwaitsReplyTo(Latest, "JOIN")
<1>1. /\ Oldest("REPLY") \in ToSet(responses) /\ Oldest("REPLY").type = "REPLY"
      /\ Oldest("REPLY") \in made
  BY OldestFound DEF ClientInv, NothingInv
<1>2. Unread(Oldest("REPLY"))
  BY <1>1 DEF Unread
<1> QED BY <1>1, <1>2 DEF SessionInv, AwaitsReplyTo, Replies

(* Taking it settles the session. *)
LEMMA VerdictKeeps ==
  ASSUME ClientInv, NothingInv, OneCopy, SessionInv, TakesVerdict
  PROVE  SessionInv'
<1> DEFINE reply == Oldest("REPLY")
<1>0. DataType /\ NotSent /\ UNCHANGED << made, fromServer >>
  BY DEF ClientInv, TakesVerdict
<1>1. /\ reply \in Replies /\ reply \in ToSet(responses) /\ reply.ref = Latest
      /\ AwaitsAuth => AwaitsReplyTo(Latest, "AUTH")
      /\ AwaitsJoin => AwaitsReplyTo(Latest, "JOIN")
  BY VerdictIsLatest DEF TakesVerdict
<1>2. responses' \in RemoveMessage(responses, reply)
  BY DEF TakesVerdict
<1> HIDE DEF reply
<1>3. reply \notin ToSet(responses') /\ ToSet(responses') \subseteq ToSet(responses)
  BY <1>0, <1>1, <1>2, RemovedGone, BufferShrinks DEF Replies
<1>4. ASSUME NEW d \in Replies, Unread(d)' PROVE FALSE
  <2>1. Unread(d)
    BY <1>0, <1>3, <1>4 DEF Unread
  <2>2. d.ref = Latest
    BY <1>1, <2>1 DEF AwaitsReplyTo, Replies, TakesVerdict
  <2>3. d = reply
    BY <1>1, <2>2 DEF OneCopy
  <2>4. ~ BagIn(d, fromServer)
    BY <1>1, <2>3 DEF OneCopy
  <2> QED BY <1>0, <1>3, <1>4, <2>3, <2>4 DEF Unread
<1>5. \A d \in made' : ~ Unread(d)'
  BY <1>0, <1>4 DEF Unread, Replies
<1>6. \A n \in Questions : Replied(n)
  BY <1>1 DEF AwaitsReplyTo, Replied, TakesVerdict
<1>7. Questions' = Questions /\ (\A n : Replied(n)' = Replied(n))
      /\ \A d : AuthAccepted(d)' = AuthAccepted(d)
  BY <1>0 DEF NotSent, Questions, Replied, Replies, AuthAccepted
<1>8. CASE AwaitsAuth /\ Settled' /\ status' = StatusAfter(reply)
  <2>1. \A d \in made : AuthAccepted(d) => d = reply
    BY <1>1, <1>8 DEF SessionInv, OneCopy, Replies, AuthAccepted
  <2>2. AuthAccepted(reply) = (reply.result = "ok")
    BY <1>1, <1>8 DEF AuthAccepted, AwaitsReplyTo, Replies
  <2>3. status' # "AUTH" /\ (status' = "OPEN" <=> \E d \in made : AuthAccepted(d))
    BY <1>1, <1>8, <2>1, <2>2 DEF StatusAfter, Replies
  <2>4. SettledInv'
    BY <1>0, <1>5, <1>6, <1>7, <2>3 DEF SettledInv
  <2>5. ~ AwaitsAuth' /\ ~ AwaitsJoin'
    BY <1>8 DEF Settled, AwaitsAuth, AwaitsJoin
  <2> QED BY <2>4, <2>5 DEF SessionInv
<1>9. CASE AwaitsJoin /\ UNCHANGED status /\ (Settled' \/ Over')
  <2>1. status = "OPEN" /\ \E d \in made : AuthAccepted(d)
    BY <1>9 DEF SessionInv, NothingInv
  <2>2. SettledInv'
    BY <1>0, <1>5, <1>6, <1>7, <1>9, <2>1 DEF SettledInv
  <2>3. ~ AwaitsAuth' /\ ~ AwaitsJoin'
    BY <1>9 DEF Over, Settled, AwaitsAuth, AwaitsJoin
  <2> QED BY <2>2, <2>3 DEF SessionInv
<1> QED BY <1>8, <1>9 DEF TakesVerdict, reply

(* Every step keeps the session. *)
LEMMA SessionStep ==
  ASSUME ClientInv, NothingInv, OneCopy, SessionInv, ElsewhereStep \/ NetworkStep
  PROVE  SessionInv'
<1>1. ASSUME Calm, Elsewhere \/ (SamePlace /\ UNCHANGED status) PROVE SessionInv'
  <2>1. /\ SettledInv => SettledInv'
        /\ \A c, kind : AwaitsReplyTo(c, kind) => AwaitsReplyTo(c, kind)'
        /\ \A d \in made : AuthAccepted(d)' = AuthAccepted(d)
        /\ UNCHANGED << status, made >>
    BY <1>1, CalmKeeps DEF Calm
  <2>2. \/ Settled /\ Settled'
        \/ Over'
        \/ /\ (AwaitsAuth /\ AwaitsAuth') \/ (AwaitsJoin /\ AwaitsJoin')
           /\ Latest' = Latest
    BY <1>1 DEF Elsewhere, SamePlace, Settled, AwaitsAuth, AwaitsJoin, Over, Latest
  <2>3. CASE Settled /\ Settled'
    BY <2>1, <2>3 DEF SessionInv, Settled, AwaitsAuth, AwaitsJoin
  <2>4. CASE Over'
    BY <2>4 DEF SessionInv, Over
  <2>5. CASE AwaitsAuth /\ AwaitsAuth' /\ Latest' = Latest
    <3>1. ~ Settled' /\ ~ AwaitsJoin'
      BY <2>5 DEF Settled, AwaitsAuth, AwaitsJoin
    <3> QED BY <2>1, <2>5, <3>1 DEF SessionInv
  <2>6. CASE AwaitsJoin /\ AwaitsJoin' /\ Latest' = Latest
    <3>1. ~ Settled' /\ ~ AwaitsAuth'
      BY <2>6 DEF Settled, AwaitsAuth, AwaitsJoin
    <3> QED BY <2>1, <2>6, <3>1 DEF SessionInv
  <2> QED BY <2>2, <2>3, <2>4, <2>5, <2>6
<1>2. CASE Quiet \/ \E d : Arrives(d)
  BY <1>1, <1>2, CalmElsewhere DEF Quiet, Arrives
<1>3. CASE \E d : Makes(d)
  BY <1>3, ServerKeeps
<1>4. CASE Over'
  BY <1>4 DEF SessionInv, Over
<1>5. CASE Moves
  <2>1. Calm
    BY <1>5 DEF Moves, Calm, Unread
  <2> QED BY <1>1, <1>4, <1>5, <2>1 DEF Moves
<1>6. CASE Asks
  BY <1>6, AsksKeeps
<1>7. CASE TakesVerdict
  BY <1>7, VerdictKeeps
<1> QED BY <1>2, <1>3, <1>4, <1>5, <1>6, <1>7 DEF ElsewhereStep, NetworkStep, Drops, Reports

(* At the start nothing is awaited. *)
LEMMA SessionInit == Init => OneCopy /\ SessionInv
<1> SUFFICES ASSUME Init PROVE OneCopy /\ SessionInv
  OBVIOUS
<1>1. net = "loop" /\ made = {} /\ responses = << >> /\ sends = 0 /\ status = "START"
  BY DEF Init, CoreInit
<1>2. 1..sends = {} /\ 1..Len(responses) = {}
  BY <1>1
<1>3. OneCopy
  BY <1>1, <1>2 DEF OneCopy, Replies
<1>4. SettledInv
  BY <1>1, <1>2 DEF SettledInv, Questions
<1>5. Settled /\ ~ AwaitsAuth /\ ~ AwaitsJoin
  BY <1>1 DEF Settled, AwaitsAuth, AwaitsJoin
<1> QED BY <1>3, <1>4, <1>5 DEF SessionInv

(* All of it together is inductive. *)
AllInv == ClientInv /\ NothingInv /\ OneCopy /\ SessionInv

(* It holds of every state when no datagram is copied. *)
LEMMA AllInvStep ==
  ASSUME MaxCopies = 1, AllInv, [Next]_vars
  PROVE  AllInv' /\ (ElsewhereStep \/ NetworkStep)
<1>1. ClientInv' /\ (ElsewhereStep \/ NetworkStep)
  BY ClientInvStep DEF AllInv
<1> QED BY <1>1, NothingStep, OneCopyStep, SessionStep DEF AllInv

(* Where the network copies no datagram, client and server agree between   *)
(* two commands whether the user is authenticated, however datagrams are   *)
(* delayed or lost.                                                        *)
THEOREM SessionsAgreeCorrect == ASSUME MaxCopies = 1 PROVE Spec => []SessionsAgree
<1>1. Init => AllInv
  BY ClientInvInit, NothingInit, SessionInit DEF AllInv
<1>2. AllInv /\ [Next]_vars => AllInv'
  BY AllInvStep
<1>3. AllInv => SessionsAgree
  BY DEF AllInv, SessionInv, Settled, SettledInv, SessionsAgree
<1> QED BY <1>1, <1>2, <1>3, PTL DEF Spec

(* A REPLY is recorded for the question it answers. *)
LEMMA MatchStep ==
  ASSUME AllInv, RepliesMatch, ElsewhereStep \/ NetworkStep
  PROVE  RepliesMatch'
<1>1. CASE UNCHANGED answers
  BY <1>1 DEF RepliesMatch
<1>2. CASE (AwaitsAuth \/ AwaitsJoin) /\ Found("REPLY") /\ Answer(Oldest("REPLY"))
  <2>1. Oldest("REPLY").ref = Latest
    BY <1>2, VerdictIsLatest DEF AllInv
  <2> QED BY <1>2, <2>1 DEF RepliesMatch, Answer, Latest
<1> QED BY <1>1, <1>2
        DEF ElsewhereStep, NetworkStep, Quiet, Arrives, Makes, Elsewhere, Moves, Asks, Drops,
            TakesVerdict, Reports

(* Where the network copies no datagram, the REPLY that the network thread *)
(* takes after an AUTH or a JOIN answers that message, although the thread *)
(* never compares reference numbers.                                       *)
THEOREM RepliesMatchCorrect == ASSUME MaxCopies = 1 PROVE Spec => []RepliesMatch
<1>1. Init => AllInv /\ RepliesMatch
  BY ClientInvInit, NothingInit, SessionInit DEF AllInv, Init, RepliesMatch
<1>2. AllInv /\ RepliesMatch /\ [Next]_vars => AllInv' /\ RepliesMatch'
  BY AllInvStep, MatchStep
<1> QED BY <1>1, <1>2, PTL DEF Spec
-----------------------------------------------------------------------------
(* The verdicts change with the REPLYs of the server only. *)
LEMMA VerdictsKept == ASSUME UNCHANGED made PROVE Verdicts' = Verdicts
BY DEF Verdicts

(* The server gives a verdict, once. *)
LEMMA MakesRefines ==
  ASSUME ClientInv, NEW d, Makes(d)
  PROVE  [Session!CSNext]_(Session!csVars)
<1>0. /\ received \subseteq 1..sends /\ requests \in Seq(Kinds) /\ Len(requests) = sends
      /\ made' = made \cup {d} /\ UNCHANGED << requests, status >>
  BY DEF ClientInv, DataType, MessagesNumbered, Makes, NotSent, Elsewhere
<1>1. CASE d.type # "REPLY"
  <2>1. Verdicts' = Verdicts
    BY <1>0, <1>1 DEF Verdicts
  <2> QED BY <1>0, <2>1 DEF Session!csVars
<1>2. CASE d.type = "REPLY"
  <2>1. Verdicts' = Verdicts \cup {<< d.ref, d.result >>}
    BY <1>0, <1>2 DEF Verdicts
  <2>2. d.ref \in DOMAIN requests /\ d.result \in {"ok", "nok", "other"}
    BY <1>0, <1>2, LenProperties DEF Makes, Datagrams
  <2>3. requests[d.ref] \in {"AUTH", "JOIN"} /\ \A v \in Verdicts : v[1] # d.ref
    BY <1>2 DEF Makes, Unanswered, Verdicts
  <2>4. Session!Decide
    BY <1>0, <2>1, <2>2, <2>3 DEF Session!Decide
  <2> QED BY <2>4 DEF Session!CSNext
<1> QED BY <1>1, <1>2

(* A verdict taken for an AUTH is one on the latest AUTH. *)
LEMMA VerdictRefines ==
  ASSUME AllInv, AwaitsAuth, Found("REPLY"), UNCHANGED made,
         requests' = requests \/ Sent("ERR")
  PROVE  /\ status' = StatusAfter(Oldest("REPLY")) => Session!CSNext
         /\ Oldest("REPLY").result = "ok" /\ status' = "OPEN" => Session!CSNext
<1> DEFINE reply == Oldest("REPLY")
<1>1. /\ reply \in Replies /\ reply.ref = Latest /\ AwaitsReplyTo(Latest, "AUTH") /\ status = "AUTH"
      /\ requests \in Seq(Kinds) /\ Len(requests) = sends
  BY VerdictIsLatest DEF AllInv, SessionInv, ClientInv, DataType
<1> HIDE DEF reply
<1>2. Session!Latest("AUTH", reply.ref)
  <2>1. DOMAIN requests = 1..sends
    BY <1>1, LenProperties
  <2>2. reply.ref \in 1..sends /\ requests[reply.ref] = "AUTH"
    BY <1>1 DEF AwaitsReplyTo, Questions
  <2>3. ASSUME NEW m \in 1..sends, m > reply.ref, requests[m] = "AUTH" PROVE FALSE
    <3>1. m \in Questions /\ m # reply.ref
      BY <2>2, <2>3 DEF Questions
    <3>2. m < reply.ref
      BY <1>1, <3>1 DEF AwaitsReplyTo
    <3> QED BY <2>2, <2>3, <3>2
  <2> QED BY <2>1, <2>2, <2>3 DEF Session!Latest
<1>3. << reply.ref, reply.result >> \in Verdicts /\ Verdicts' = Verdicts
  BY <1>1, VerdictsKept DEF Verdicts, Replies
<1>4. \E v \in Verdicts :
        Session!Latest("AUTH", v[1]) /\ (v[2] = "ok") = (reply.result = "ok")
  BY <1>2, <1>3
<1>5. CASE reply.result = "ok" /\ status' = "OPEN"
  BY <1>1, <1>3, <1>4, <1>5
     DEF Session!CSNext, Session!Granted, Session!TakeEffect, Session!Sends, Sent
<1>6. CASE reply.result # "ok" /\ status' = "START"
  BY <1>1, <1>3, <1>4, <1>6
     DEF Session!CSNext, Session!Refused, Session!TakeEffect, Session!Sends, Sent
<1> QED BY <1>5, <1>6 DEF StatusAfter, reply

(* Every step of the client and of the server is one of the abstract       *)
(* session, or none.                                                       *)
LEMMA SessionRefines ==
  ASSUME AllInv, ElsewhereStep \/ NetworkStep
  PROVE  [Session!CSNext]_(Session!csVars)
<1>0. ClientInv
  BY DEF AllInv
<1>1. ASSUME UNCHANGED << status, made >>, NotSent \/ Sent("ERR")
      PROVE  [Session!CSNext]_(Session!csVars)
  BY <1>1, VerdictsKept
     DEF NotSent, Sent, Session!csVars, Session!CSNext, Session!Complain, Session!Sends
<1>2. CASE Quiet \/ (\E d : Arrives(d)) \/ Moves \/ \E d : Drops(d)
  BY <1>1, <1>2 DEF Quiet, Arrives, Elsewhere, Moves, Drops
<1>3. CASE \E d : Makes(d)
  BY <1>0, <1>3, MakesRefines
<1>4. CASE Asks
  BY <1>4, VerdictsKept
     DEF Asks, Sent, Session!CSNext, Session!Ask, Session!Login, Session!Sends
<1>5. CASE TakesVerdict
  <2>1. CASE UNCHANGED status
    BY <1>1, <1>5, <2>1 DEF TakesVerdict
  <2>2. CASE AwaitsAuth /\ status' = StatusAfter(Oldest("REPLY"))
    BY <1>5, <2>2, VerdictRefines DEF TakesVerdict, NotSent
  <2> QED BY <1>5, <2>1, <2>2 DEF TakesVerdict
<1>6. CASE Reports
  <2>1. CASE UNCHANGED status
    BY <1>1, <1>6, <2>1 DEF Reports
  <2>2. CASE AwaitsAuth /\ Found("REPLY") /\ Oldest("REPLY").result = "ok" /\ status' = "OPEN"
    BY <1>6, <2>2, VerdictRefines DEF Reports
  <2> QED BY <1>6, <2>1, <2>2 DEF Reports
<1> QED BY <1>2, <1>3, <1>4, <1>5, <1>6 DEF ElsewhereStep, NetworkStep

(* Where the network copies no datagram, the client over UDP keeps the     *)
(* abstract chat session.                                                  *)
THEOREM UdpSessionCorrect == ASSUME MaxCopies = 1 PROVE Spec => ImplementsChatSession
<1>1. Init => AllInv /\ Session!CSInit
  BY ClientInvInit, NothingInit, SessionInit DEF AllInv, Init, Session!CSInit, Verdicts
<1>2. AllInv /\ [Next]_vars => AllInv' /\ [Session!CSNext]_(Session!csVars)
  BY AllInvStep, SessionRefines
<1> QED BY <1>1, <1>2, PTL DEF Spec, ImplementsChatSession, Session!CSSpec
=============================================================================
