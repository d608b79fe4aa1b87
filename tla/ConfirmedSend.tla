--------------------------- MODULE ConfirmedSend ---------------------------
(***************************************************************************)
(* Confirmed sending over UDP: class TcpUdp, sendMessageUDP, confirmThread *)
(* and the wait for confirmReceived that every caller performs after it.   *)
(*                                                                         *)
(* A caller builds a message with the current SentID, calls sendMessageUDP,*)
(* which starts a detached confirm thread, and blocks until the thread     *)
(* has set the flag confirmReceived.  The confirm thread holds             *)
(* confirmMutex while it transmits, polls the response buffer for the      *)
(* CONFIRM it expects, and retransmits.  The caller holds confirmMutex     *)
(* from the moment it wakes up until it has handled what came back.        *)
(*                                                                         *)
(* Messages are numbered 1, 2, ... in the order they are built ("num"):    *)
(* the identifier on the wire is what the code knows of a message, the     *)
(* number is what the properties know of it.                               *)
(*                                                                         *)
(* Each action of the code stands with the slips of it, if any, that the   *)
(* checks are shown to detect: the operators marked "slip".                *)
(***************************************************************************)
EXTENDS Naturals, FiniteSets

CONSTANTS
  Callers,            \* threads that send: the network and the receiver thread
  ConfThreads,        \* confirm threads that can be alive at once
  NoThread,           \* the owner of a free mutex
  UdpRetransmissions, \* option -r: transmissions of one message
  UdpTimeout,         \* option -d: 0 means that the buffer is never polled
  IdModulus,          \* number of identifiers: 65536 for unsigned short
  MaxSends,           \* bound on the number of messages
  Duplicates,         \* may the network deliver a datagram twice?
  ErrWhileHolding     \* does a caller find an error in what it received?

ASSUME ThreadsAssumption ==
  /\ IsFiniteSet(Callers) /\ IsFiniteSet(ConfThreads)
  /\ Callers \cap ConfThreads = {}
  /\ NoThread \notin Callers \cup ConfThreads

ASSUME NumbersAssumption ==
  /\ UdpRetransmissions \in Nat /\ UdpTimeout \in Nat /\ MaxSends \in Nat
  /\ IdModulus \in Nat \ {0}

ASSUME SwitchesAssumption == Duplicates \in BOOLEAN /\ ErrWhileHolding \in BOOLEAN

VARIABLES
  sentID,          \* SentID
  sends,           \* messages built so far
  caller,          \* where each caller is, and the message it waits for
  conf,            \* confirm threads: place, message, expectedID, loop counter
  confirmMutex,    \* the thread that owns confirmMutex
  confirmReceived, \* the flag
  confirms,        \* identifiers of the CONFIRMs in the response buffer
  inflight,        \* identifiers of the CONFIRMs on their way to the client
  received,        \* messages the server has got
  failed,          \* messages given up at the retransmission limit
  byes,            \* identifiers of the BYEs sent
  network          \* is_network_active

coreVars == << sentID, sends, caller, conf, confirmMutex, confirmReceived,
               confirms, inflight, received, failed, byes, network >>

WireIDs == 0..(IdModulus - 1)
Nums    == 0..MaxSends
Owners  == Callers \cup ConfThreads \cup {NoThread}

CallerStates == [state : {"running", "waiting", "holding", "stuck"}, num : Nums]
ConfStates   ==
  [pc : {"idle", "started", "locking", "sending", "checking", "looked", "closing"},
   num : Nums, id : WireIDs, expected : WireIDs, tries : 0..UdpRetransmissions]

IdleConf == [pc |-> "idle", num |-> 0, id |-> 0, expected |-> 0, tries |-> 0]

TypeOK ==
  /\ sentID \in WireIDs
  /\ sends \in Nums
  /\ caller \in [Callers -> CallerStates]
  /\ conf \in [ConfThreads -> ConfStates]
  /\ confirmMutex \in Owners
  /\ confirmReceived \in BOOLEAN
  /\ confirms \subseteq WireIDs
  /\ inflight \subseteq WireIDs
  /\ received \subseteq Nums
  /\ failed \subseteq Nums
  /\ byes \subseteq WireIDs
  /\ network \in BOOLEAN

(* The threads start with SentID = 0 and no message outstanding. *)
CoreInit ==
  /\ sentID = 0
  /\ sends = 0
  /\ caller = [k \in Callers |-> [state |-> "running", num |-> 0]]
  /\ conf = [c \in ConfThreads |-> IdleConf]
  /\ confirmMutex = NoThread
  /\ confirmReceived = FALSE
  /\ confirms = {}
  /\ inflight = {}
  /\ received = {}
  /\ failed = {}
  /\ byes = {}
  /\ network = TRUE
-----------------------------------------------------------------------------
(* sendMessageUDP: a message built with SentID is handed to a new detached *)
(* thread; the caller goes on to lock confirmMutex.                        *)
StartConfirmThread(c) ==
  /\ sends < MaxSends
  /\ conf[c].pc = "idle"
  /\ sends' = sends + 1
  /\ conf' = [conf EXCEPT ![c] = [IdleConf EXCEPT !.pc = "started",
                                                  !.num = sends + 1,
                                                  !.id = sentID]]
  /\ UNCHANGED << sentID, confirmMutex, confirmReceived, confirms, inflight,
                  received, failed, byes, network >>

Send(k, c) ==
  /\ caller[k].state = "running"
  /\ caller' = [caller EXCEPT ![k] = [state |-> "waiting", num |-> sends + 1]]
  /\ StartConfirmThread(c)

(* handleErrFromServerUDP reached by a caller that owns confirmMutex: it   *)
(* starts a confirm thread and locks the mutex a second time.              *)
SendWhileHolding(k, c) ==
  /\ ErrWhileHolding
  /\ caller[k].state = "holding"
  /\ caller' = [caller EXCEPT ![k] = [state |-> "stuck", num |-> sends + 1]]
  /\ StartConfirmThread(c)

(* slip: SentID read when the thread has already counted its message *)
ReadExpectedLate(c) ==
  /\ conf[c].pc = "started"
  /\ conf' = [conf EXCEPT ![c].pc = "locking", ![c].expected = (sentID + 1) % IdModulus]
  /\ UNCHANGED << sentID, sends, caller, confirmMutex, confirmReceived,
                  confirms, inflight, received, failed, byes, network >>

(* The lambda of sendMessageUDP reads SentID in the new thread. *)
ReadExpected(c) ==
  /\ conf[c].pc = "started"
  /\ conf' = [conf EXCEPT ![c].pc = "locking", ![c].expected = sentID]
  /\ UNCHANGED << sentID, sends, caller, confirmMutex, confirmReceived,
                  confirms, inflight, received, failed, byes, network >>

(* slip: SentID kept in a type wider than the 16 bits of the wire *)
LockAndCountWide(c) ==
  /\ conf[c].pc = "locking"
  /\ confirmMutex = NoThread
  /\ confirmMutex' = c
  /\ sentID' = sentID + 1
  /\ conf' = [conf EXCEPT ![c].pc = "sending"]
  /\ UNCHANGED << sends, caller, confirmReceived, confirms, inflight,
                  received, failed, byes, network >>

(* slip: confirmThread without the lock_guard on confirmMutex *)
LockAndCountUnguarded(c) ==
  /\ conf[c].pc = "locking"
  /\ sentID' = (sentID + 1) % IdModulus
  /\ conf' = [conf EXCEPT ![c].pc = "sending"]
  /\ UNCHANGED << sends, caller, confirmMutex, confirmReceived, confirms,
                  inflight, received, failed, byes, network >>

(* confirmThread takes confirmMutex and increments SentID. *)
LockAndCount(c) ==
  /\ conf[c].pc = "locking"
  /\ confirmMutex = NoThread
  /\ confirmMutex' = c
  /\ sentID' = (sentID + 1) % IdModulus
  /\ conf' = [conf EXCEPT ![c].pc = "sending"]
  /\ UNCHANGED << sends, caller, confirmReceived, confirms, inflight,
                  received, failed, byes, network >>

(* One sendto.  The datagram arrives, and the server answers every copy    *)
(* with a CONFIRM; or it does not.                                         *)
Transmit(c) ==
  /\ conf[c].pc = "sending"
  /\ conf[c].tries < UdpRetransmissions
  /\ conf' = [conf EXCEPT ![c].pc = "checking", ![c].tries = @ + 1]
  /\ \/ /\ received' = received \cup {conf[c].num}
        /\ inflight' = inflight \cup {conf[c].id}
     \/ UNCHANGED << received, inflight >>
  /\ UNCHANGED << sentID, sends, caller, confirmMutex, confirmReceived,
                  confirms, failed, byes, network >>

(* slip: any CONFIRM in the buffer is taken for the one expected *)
ConfirmedByAny(c) ==
  /\ conf[c].pc \in {"checking", "looked"} /\ UdpTimeout > 0 /\ confirms # {}
  /\ confirms' = confirms \ {conf[c].expected}
  /\ confirmReceived' = TRUE
  /\ confirmMutex' = NoThread
  /\ conf' = [conf EXCEPT ![c] = IdleConf]
  /\ UNCHANGED << sentID, sends, caller, inflight, received, failed, byes,
                  network >>

(* A look at the buffer that does not find the CONFIRM expected.  There is *)
(* at least one for every transmission, unless there is no time for it.    *)
Look(c) ==
  /\ conf[c].pc = "checking"
  /\ UdpTimeout > 0
  /\ conf[c].expected \notin confirms
  /\ conf' = [conf EXCEPT ![c].pc = "looked"]
  /\ UNCHANGED << sentID, sends, caller, confirmMutex, confirmReceived,
                  confirms, inflight, received, failed, byes, network >>

(* The CONFIRM expected is in the buffer: every copy of it is removed, the *)
(* flag set, a waiter notified and the mutex released.                     *)
Confirmed(c) ==
  /\ conf[c].pc \in {"checking", "looked"}
  /\ UdpTimeout > 0
  /\ conf[c].expected \in confirms
  /\ confirms' = confirms \ {conf[c].expected}
  /\ confirmReceived' = TRUE
  /\ confirmMutex' = NoThread
  /\ conf' = [conf EXCEPT ![c] = IdleConf]
  /\ UNCHANGED << sentID, sends, caller, inflight, received, failed, byes,
                  network >>

(* The time for one transmission is over.  A CONFIRM that came after the   *)
(* last look at the buffer does not prevent it.                            *)
TimeOut(c) ==
  /\ conf[c].pc = "looked" \/ (conf[c].pc = "checking" /\ UdpTimeout = 0)
  /\ conf' = [conf EXCEPT ![c].pc = "sending"]
  /\ UNCHANGED << sentID, sends, caller, confirmMutex, confirmReceived,
                  confirms, inflight, received, failed, byes, network >>

(* "Packet lost, retransmission limit reached": a BYE goes out. *)
GiveUp(c) ==
  /\ conf[c].pc = "sending"
  /\ conf[c].tries = UdpRetransmissions
  /\ conf' = [conf EXCEPT ![c].pc = "closing"]
  /\ failed' = failed \cup {conf[c].num}
  /\ byes' = byes \cup {sentID}
  /\ UNCHANGED << sentID, sends, caller, confirmMutex, confirmReceived,
                  confirms, inflight, received, network >>

(* slip: the waiter not let go after the loss *)
CloseWithoutFlag(c) ==
  /\ conf[c].pc = "closing"
  /\ network' = FALSE
  /\ confirmMutex' = NoThread
  /\ conf' = [conf EXCEPT ![c] = IdleConf]
  /\ UNCHANGED << sentID, sends, caller, confirmReceived, confirms, inflight,
                  received, failed, byes >>

(* ... and the waiter is let go, and the session closed. *)
CloseAfterLoss(c) ==
  /\ conf[c].pc = "closing"
  /\ confirmReceived' = TRUE
  /\ network' = FALSE
  /\ confirmMutex' = NoThread
  /\ conf' = [conf EXCEPT ![c] = IdleConf]
  /\ UNCHANGED << sentID, sends, caller, confirms, inflight, received, failed,
                  byes >>

(* slip: setReceived(false) forgotten after the wait *)
WakeKeepsFlag(k) ==
  /\ caller[k].state = "waiting" /\ confirmReceived /\ confirmMutex = NoThread
  /\ confirmMutex' = k
  /\ caller' = [caller EXCEPT ![k].state = "holding"]
  /\ UNCHANGED << sentID, sends, conf, confirmReceived, confirms, inflight,
                  received, failed, byes, network >>

(* slip: the flag polled without the lock *)
WakeUnlocked(k) ==
  /\ caller[k].state = "waiting" /\ confirmReceived
  /\ confirmMutex' = k
  /\ confirmReceived' = FALSE
  /\ caller' = [caller EXCEPT ![k].state = "holding"]
  /\ UNCHANGED << sentID, sends, conf, confirms, inflight, received, failed,
                  byes, network >>

(* confirmCondition.wait returns in a caller, which then resets the flag   *)
(* and keeps the mutex.                                                    *)
Wake(k) ==
  /\ caller[k].state = "waiting"
  /\ confirmReceived
  /\ confirmMutex = NoThread
  /\ confirmMutex' = k
  /\ confirmReceived' = FALSE
  /\ caller' = [caller EXCEPT ![k].state = "holding"]
  /\ UNCHANGED << sentID, sends, conf, confirms, inflight, received, failed,
                  byes, network >>

(* The caller's unique_lock goes out of scope. *)
Unlock(k) ==
  /\ caller[k].state = "holding"
  /\ confirmMutex' = NoThread
  /\ caller' = [caller EXCEPT ![k] = [state |-> "running", num |-> 0]]
  /\ UNCHANGED << sentID, sends, conf, confirmReceived, confirms, inflight,
                  received, failed, byes, network >>
-----------------------------------------------------------------------------
(* What the rest of the program does to this state: the receiver thread    *)
(* buffers a CONFIRM or, when it ends, clears the buffer; some thread      *)
(* sends a BYE or ends the session.                                        *)
ReceiveConfirm(id) ==
  /\ id \in inflight
  /\ confirms' = confirms \cup {id}
  /\ inflight' = IF Duplicates THEN inflight ELSE inflight \ {id}
  /\ UNCHANGED << sentID, sends, caller, conf, confirmMutex, confirmReceived,
                  received, failed, byes, network >>

ClearBuffer ==
  /\ confirms' = {}
  /\ UNCHANGED << sentID, sends, caller, conf, confirmMutex, confirmReceived,
                  inflight, received, failed, byes, network >>

SendBye ==
  /\ byes' = byes \cup {sentID}
  /\ UNCHANGED << sentID, sends, caller, conf, confirmMutex, confirmReceived,
                  confirms, inflight, received, failed, network >>

StopNetwork ==
  /\ network' = FALSE
  /\ UNCHANGED << sentID, sends, caller, conf, confirmMutex, confirmReceived,
                  confirms, inflight, received, failed, byes >>

ConfStep(c) == \/ ReadExpected(c) \/ LockAndCount(c) \/ Transmit(c) \/ Look(c)
               \/ Confirmed(c) \/ TimeOut(c) \/ GiveUp(c) \/ CloseAfterLoss(c)

CoreNext ==
  \/ \E k \in Callers, c \in ConfThreads : Send(k, c) \/ SendWhileHolding(k, c)
  \/ \E c \in ConfThreads : ConfStep(c)
  \/ \E k \in Callers : Wake(k) \/ Unlock(k)
  \/ \E id \in WireIDs : ReceiveConfirm(id)
  \/ ClearBuffer \/ SendBye \/ StopNetwork

CoreSpec == CoreInit /\ [][CoreNext]_coreVars

(* Scheduling: every thread that can run eventually does. *)
FairCoreSpec ==
  /\ CoreSpec
  /\ \A c \in ConfThreads : WF_coreVars(ConfStep(c))
  /\ WF_coreVars(\E k \in Callers : Wake(k))
-----------------------------------------------------------------------------
Pending == {c \in ConfThreads : conf[c].pc # "idle"}
Waiting == {k \in Callers : caller[k].state \in {"waiting", "stuck"}}

(* confirmMutex is exclusive: a caller that handles what it received and a *)
(* confirm thread that transmits never run at the same time, nor two of a  *)
(* kind; the owner recorded in the mutex is the one that believes it owns. *)
MutexOwned ==
  /\ \A k \in Callers : caller[k].state \in {"holding", "stuck"} <=> confirmMutex = k
  /\ \A c \in ConfThreads :
       conf[c].pc \in {"sending", "checking", "looked", "closing"} <=> confirmMutex = c

(* Wake-ups never outnumber the waiters: the confirm threads alive, plus   *)
(* the flag confirmReceived, are at most the callers that wait.  Threads   *)
(* do not pile up, and the flag is down when nobody waits.  It is a count  *)
(* only: a flag raised for one of two callers may wake the other, at once  *)
(* and for its next message, and two flags merge into one if nobody wakes  *)
(* up in between.                                                          *)
WakeupsBalance ==
  Cardinality(Pending) + (IF confirmReceived THEN 1 ELSE 0) <= Cardinality(Waiting)

(* Once nobody waits nothing is left over: the flag is down and no confirm *)
(* thread is alive that could raise it.  So with one sender, which never   *)
(* sends while it waits, nothing but its own thread lets go of the next    *)
(* message; with two this holds only of a send in a pause of both.         *)
NoFlagLeft == Waiting = {} => ~confirmReceived /\ Pending = {}

(* A message built under the mutex, the ERR of handleErrFromServerUDP in   *)
(* the network thread, stays in its confirm thread: never transmitted.     *)
StuckIsSilent ==
  \A k \in Callers : caller[k].state = "stuck" =>
     /\ caller[k].num \notin received
     /\ \A c \in ConfThreads : conf[c].num = caller[k].num =>
           conf[c].pc \in {"started", "locking"}

(* With one sender the identifier that confirmThread expects, which it     *)
(* reads from SentID in its own thread, is the one the message was built   *)
(* with: the thread looks for the CONFIRM of its own message.              *)
ExpectsOwnID ==
  Cardinality(Callers) = 1 =>
    \A c \in Pending : IF conf[c].pc = "started" THEN conf[c].id = sentID
                                                 ELSE conf[c].expected = conf[c].id

(* With one sender and no identifier used twice, a sender that has been    *)
(* let go was let go for its own message: the server has got it, or every  *)
(* transmission of it went unconfirmed.                                    *)
AnsweredForItself ==
  Cardinality(Callers) = 1 /\ MaxSends <= IdModulus =>
    \A k \in Callers : caller[k].state = "holding" =>
                          caller[k].num \in received \cup failed

(* What a sender waits for, for the one sender of StopAndWait *)
Awaited ==
  IF Waiting = {} THEN 0 ELSE caller[CHOOSE k \in Waiting : TRUE].num

Abstract == INSTANCE StopAndWait WITH
              count <- sends, current <- Awaited, delivered <- received,
              lost <- failed

(* With one sender, confirmThread and its callers are a stop-and-wait      *)
(* sender: one message at a time, none abandoned before it is delivered or *)
(* its transmissions are used up, none delivered after that.               *)
ImplementsStopAndWait == Abstract!SWSpec

(* Every wait for confirmReceived ends, at the latest when the             *)
(* transmissions are used up: confirmThread always sets the flag.          *)
WaitEnds ==
  \A k \in Callers : caller[k].state = "waiting" ~> caller[k].state # "waiting"
=============================================================================
