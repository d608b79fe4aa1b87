------------------------ MODULE ConfirmedSendProofs ------------------------
(***************************************************************************)
(* Proofs about ConfirmedSend, for any set of callers, any number of       *)
(* confirm threads, transmissions, identifiers and messages.               *)
(***************************************************************************)
EXTENDS ConfirmedSend, FiniteSetTheorems, TLAPS

USE ThreadsAssumption, NumbersAssumption, SwitchesAssumption
    DEF ThreadsAssumption, NumbersAssumption, SwitchesAssumption

(* An idle confirm thread and a caller at rest are states of their kind. *)
LEMMA RestTyped == /\ IdleConf \in ConfStates
                   /\ [state |-> "running", num |-> 0] \in CallerStates
<1>1. 0 \in Nums /\ 0 \in WireIDs /\ 0 \in 0..UdpRetransmissions
  BY DEF Nums, WireIDs
<1> QED BY <1>1 DEF IdleConf, ConfStates, CallerStates

(* Initially every variable has its type. *)
LEMMA TypeInit == CoreInit => TypeOK
<1> SUFFICES ASSUME CoreInit PROVE TypeOK
  OBVIOUS
<1>1. caller \in [Callers -> CallerStates] /\ conf \in [ConfThreads -> ConfStates]
  BY RestTyped DEF CoreInit
<1>2. sentID \in WireIDs /\ sends \in Nums
  BY DEF CoreInit, WireIDs, Nums
<1> QED BY <1>1, <1>2 DEF CoreInit, TypeOK, Owners

(* Starting a confirm thread keeps the types of all it touches. *)
LEMMA TypeStart ==
  ASSUME TypeOK, NEW c \in ConfThreads, StartConfirmThread(c)
  PROVE  /\ sends' \in Nums /\ sends + 1 \in Nums
         /\ conf' \in [ConfThreads -> ConfStates]
<1>1. sends' \in Nums /\ sends + 1 \in Nums /\ sentID \in WireIDs
  BY DEF TypeOK, StartConfirmThread, Nums
<1>2. [IdleConf EXCEPT !.pc = "started", !.num = sends + 1, !.id = sentID] \in ConfStates
  BY <1>1, RestTyped DEF ConfStates
<1> QED BY <1>1, <1>2 DEF TypeOK, StartConfirmThread

(* Every step of every thread keeps the types. *)
LEMMA TypeStep == TypeOK /\ [CoreNext]_coreVars => TypeOK'
<1> SUFFICES ASSUME TypeOK, [CoreNext]_coreVars PROVE TypeOK'
  OBVIOUS
<1> USE DEF TypeOK
<1>1. ASSUME NEW k \in Callers, NEW c \in ConfThreads, Send(k, c) PROVE TypeOK'
  <2>1. sends' \in Nums /\ sends + 1 \in Nums /\ conf' \in [ConfThreads -> ConfStates]
    BY <1>1, TypeStart DEF Send
  <2>2. caller' \in [Callers -> CallerStates]
    BY <1>1, <2>1 DEF Send, CallerStates
  <2> QED BY <1>1, <2>1, <2>2 DEF Send, StartConfirmThread
<1>2. ASSUME NEW k \in Callers, NEW c \in ConfThreads, SendWhileHolding(k, c)
      PROVE  TypeOK'
  <2>1. sends' \in Nums /\ sends + 1 \in Nums /\ conf' \in [ConfThreads -> ConfStates]
    BY <1>2, TypeStart DEF SendWhileHolding
  <2>2. caller' \in [Callers -> CallerStates]
    BY <1>2, <2>1 DEF SendWhileHolding, CallerStates
  <2> QED BY <1>2, <2>1, <2>2 DEF SendWhileHolding, StartConfirmThread
<1>3. ASSUME NEW c \in ConfThreads, ReadExpected(c) PROVE TypeOK'
  BY <1>3, ZenonT(40) DEF ReadExpected, ConfStates
<1>4. ASSUME NEW c \in ConfThreads, LockAndCount(c) PROVE TypeOK'
  BY <1>4 DEF LockAndCount, ConfStates, Owners, WireIDs
<1>5. ASSUME NEW c \in ConfThreads, Transmit(c) PROVE TypeOK'
  <2>1. conf[c] \in ConfStates
    OBVIOUS
  <2>2. conf[c].tries + 1 \in 0..UdpRetransmissions
    BY <1>5, <2>1 DEF Transmit, ConfStates
  <2>3. conf' \in [ConfThreads -> ConfStates]
    BY <1>5, <2>1, <2>2 DEF Transmit, ConfStates
  <2>4. received' \subseteq Nums /\ inflight' \subseteq WireIDs
    BY <1>5, <2>1 DEF Transmit, ConfStates, Nums
  <2> QED BY <1>5, <2>3, <2>4 DEF Transmit
<1>6. ASSUME NEW c \in ConfThreads, Confirmed(c) PROVE TypeOK'
  BY <1>6, RestTyped DEF Confirmed, Owners
<1>7. ASSUME NEW c \in ConfThreads, Look(c) \/ TimeOut(c) PROVE TypeOK'
  BY <1>7 DEF Look, TimeOut, ConfStates
<1>8. ASSUME NEW c \in ConfThreads, GiveUp(c) PROVE TypeOK'
  BY <1>8 DEF GiveUp, ConfStates, Nums
<1>9. ASSUME NEW c \in ConfThreads, CloseAfterLoss(c) PROVE TypeOK'
  BY <1>9, RestTyped DEF CloseAfterLoss, Owners
<1>10. ASSUME NEW k \in Callers, Wake(k) PROVE TypeOK'
  BY <1>10 DEF Wake, CallerStates, Owners
<1>11. ASSUME NEW k \in Callers, Unlock(k) PROVE TypeOK'
  BY <1>11, RestTyped DEF Unlock, Owners
<1>12. ASSUME NEW id \in WireIDs, ReceiveConfirm(id) PROVE TypeOK'
  BY <1>12 DEF ReceiveConfirm
<1>13. ASSUME ClearBuffer \/ SendBye \/ StopNetwork PROVE TypeOK'
  BY <1>13 DEF ClearBuffer, SendBye, StopNetwork
<1>14. ASSUME UNCHANGED coreVars PROVE TypeOK'
  BY <1>14 DEF coreVars
<1> QED
  BY <1>1, <1>2, <1>3, <1>4, <1>5, <1>6, <1>7, <1>8, <1>9, <1>10, <1>11, <1>12,
     <1>13, <1>14 DEF CoreNext, ConfStep

(* The variables keep their types: identifiers stay within 16 bits (within *)
(* IdModulus) however often SentID is incremented, no confirm thread       *)
(* transmits more often than UdpRetransmissions says.                      *)
THEOREM TypeCorrect == CoreSpec => []TypeOK
<1>1. CoreInit => TypeOK
  BY TypeInit
<1>2. TypeOK /\ [CoreNext]_coreVars => TypeOK'
  BY TypeStep
<1> QED BY <1>1, <1>2, PTL DEF CoreSpec
-----------------------------------------------------------------------------
(* A new confirm thread is idle until it is started, and owns nothing yet. *)
LEMMA MutexStart ==
  ASSUME TypeOK, MutexOwned, NEW c \in ConfThreads, StartConfirmThread(c)
  PROVE  \A d \in ConfThreads :
           conf'[d].pc \in {"sending", "checking", "looked", "closing"} <=> confirmMutex' = d
BY DEF TypeOK, MutexOwned, StartConfirmThread, IdleConf

(* Who owns confirmMutex is changed only by its owner, or when it is free. *)
LEMMA MutexStep == TypeOK /\ MutexOwned /\ [CoreNext]_coreVars => MutexOwned'
<1> SUFFICES ASSUME TypeOK, MutexOwned, [CoreNext]_coreVars PROVE MutexOwned'
  OBVIOUS
<1>t. /\ caller \in [Callers -> CallerStates] /\ conf \in [ConfThreads -> ConfStates]
      /\ confirmMutex \in Owners
  BY DEF TypeOK
<1>1. ASSUME NEW k \in Callers, NEW c \in ConfThreads, Send(k, c) PROVE MutexOwned'
  <2>1. \A j \in Callers : caller'[j].state \in {"holding", "stuck"} <=> confirmMutex' = j
    BY <1>1, <1>t DEF Send, StartConfirmThread, MutexOwned
  <2> QED BY <1>1, <2>1, MutexStart DEF Send, MutexOwned
<1>2. ASSUME NEW k \in Callers, NEW c \in ConfThreads, SendWhileHolding(k, c)
      PROVE  MutexOwned'
  <2>1. \A j \in Callers : caller'[j].state \in {"holding", "stuck"} <=> confirmMutex' = j
    BY <1>2, <1>t DEF SendWhileHolding, StartConfirmThread, MutexOwned
  <2> QED BY <1>2, <2>1, MutexStart DEF SendWhileHolding, MutexOwned
<1>3. ASSUME NEW c \in ConfThreads, ReadExpected(c) PROVE MutexOwned'
  BY <1>3, <1>t DEF ReadExpected, MutexOwned
<1>4. ASSUME NEW c \in ConfThreads, LockAndCount(c) PROVE MutexOwned'
  BY <1>4, <1>t DEF LockAndCount, MutexOwned
<1>5. ASSUME NEW c \in ConfThreads, Transmit(c) PROVE MutexOwned'
  BY <1>5, <1>t DEF Transmit, MutexOwned
<1>6. ASSUME NEW c \in ConfThreads, Confirmed(c) PROVE MutexOwned'
  BY <1>6, <1>t DEF Confirmed, MutexOwned, IdleConf
<1>7. ASSUME NEW c \in ConfThreads, Look(c) \/ TimeOut(c) PROVE MutexOwned'
  <2>1. CASE Look(c)    BY <2>1, <1>t DEF Look, MutexOwned
  <2>2. CASE TimeOut(c) BY <2>2, <1>t DEF TimeOut, MutexOwned
  <2> QED BY <1>7, <2>1, <2>2
<1>8. ASSUME NEW c \in ConfThreads, GiveUp(c) PROVE MutexOwned'
  BY <1>8, <1>t DEF GiveUp, MutexOwned
<1>9. ASSUME NEW c \in ConfThreads, CloseAfterLoss(c) PROVE MutexOwned'
  BY <1>9, <1>t DEF CloseAfterLoss, MutexOwned, IdleConf
<1>10. ASSUME NEW k \in Callers, Wake(k) PROVE MutexOwned'
  BY <1>10, <1>t DEF Wake, MutexOwned
<1>11. ASSUME NEW k \in Callers, Unlock(k) PROVE MutexOwned'
  BY <1>11, <1>t DEF Unlock, MutexOwned
<1>12. CASE UNCHANGED << caller, conf, confirmMutex >>
  BY <1>12 DEF MutexOwned
<1>13. ASSUME NEW id \in WireIDs, ReceiveConfirm(id) PROVE MutexOwned'
  BY <1>13, <1>12 DEF ReceiveConfirm
<1>14. CASE ClearBuffer \/ SendBye \/ StopNetwork \/ UNCHANGED coreVars
  BY <1>14, <1>12 DEF ClearBuffer, SendBye, StopNetwork, coreVars
<1> QED
  BY <1>1, <1>2, <1>3, <1>4, <1>5, <1>6, <1>7, <1>8, <1>9, <1>10, <1>11, <1>13, <1>14
     DEF CoreNext, ConfStep

(* confirmMutex is exclusive, whatever the threads do: a caller that       *)
(* handles what it received keeps every confirm thread from transmitting.  *)
THEOREM MutexCorrect == CoreSpec => []MutexOwned
<1>1. CoreInit => MutexOwned
  BY DEF CoreInit, MutexOwned, IdleConf
<1>2. TypeOK /\ MutexOwned /\ [CoreNext]_coreVars => MutexOwned'
  BY MutexStep
<1> QED BY <1>1, <1>2, TypeCorrect, PTL DEF CoreSpec
-----------------------------------------------------------------------------
(* The threads that count are finitely many. *)
LEMMA CountsTyped ==
  /\ IsFiniteSet(Pending) /\ Cardinality(Pending) \in Nat
  /\ IsFiniteSet(Waiting) /\ Cardinality(Waiting) \in Nat
BY FS_Subset, FS_CardinalityType DEF Pending, Waiting

(* A thread started for a caller that begins to wait: one more of each. *)
LEMMA CountsStart ==
  ASSUME NEW k \in Callers, NEW c \in ConfThreads, TypeOK, StartConfirmThread(c),
         k \notin Waiting, NEW s \in {"waiting", "stuck"}, NEW n,
         caller' = [caller EXCEPT ![k] = [state |-> s, num |-> n]]
  PROVE  /\ Cardinality(Pending') = Cardinality(Pending) + 1
         /\ Cardinality(Waiting') = Cardinality(Waiting) + 1
<1>1. Pending' = Pending \cup {c} /\ c \notin Pending
  BY DEF TypeOK, StartConfirmThread, Pending, IdleConf
<1>2. Waiting' = Waiting \cup {k}
  BY DEF TypeOK, Waiting
<1> QED BY <1>1, <1>2, CountsTyped, FS_AddElement

(* A confirm thread that ends makes one pending thread less. *)
LEMMA CountsEnd ==
  ASSUME NEW c \in Pending, TypeOK, conf' = [conf EXCEPT ![c] = IdleConf]
  PROVE  Cardinality(Pending') = Cardinality(Pending) - 1
<1>1. Pending' = Pending \ {c}
  BY DEF TypeOK, Pending, IdleConf
<1> QED BY <1>1, CountsTyped, FS_RemoveElement

(* Neither count changes when threads go on without starting or ending. *)
LEMMA CountsSame ==
  ASSUME Pending' = Pending, Waiting' = Waiting, confirmReceived' = confirmReceived,
         WakeupsBalance
  PROVE  WakeupsBalance'
BY DEF WakeupsBalance

(* Every step keeps the balance of wake-ups and waiters. *)
LEMMA BalanceStep ==
  TypeOK /\ WakeupsBalance /\ [CoreNext]_coreVars => WakeupsBalance'
<1> SUFFICES ASSUME TypeOK, WakeupsBalance, [CoreNext]_coreVars PROVE WakeupsBalance'
  OBVIOUS
<1>t. /\ caller \in [Callers -> CallerStates] /\ conf \in [ConfThreads -> ConfStates]
      /\ confirmReceived \in BOOLEAN
      /\ Cardinality(Pending) \in Nat /\ Cardinality(Waiting) \in Nat
  BY CountsTyped DEF TypeOK
<1>1. ASSUME NEW k \in Callers, NEW c \in ConfThreads,
             Send(k, c) \/ SendWhileHolding(k, c)
      PROVE  WakeupsBalance'
  <2>1. /\ Cardinality(Pending') = Cardinality(Pending) + 1
        /\ Cardinality(Waiting') = Cardinality(Waiting) + 1
    <3>1. k \notin Waiting /\ StartConfirmThread(c)
      BY <1>1 DEF Send, SendWhileHolding, Waiting
    <3>2. CASE Send(k, c)
      BY <3>1, <3>2, CountsStart DEF Send
    <3>3. CASE SendWhileHolding(k, c)
      BY <3>1, <3>3, CountsStart DEF SendWhileHolding
    <3> QED BY <1>1, <3>2, <3>3
  <2>2. confirmReceived' = confirmReceived
    BY <1>1 DEF Send, SendWhileHolding, StartConfirmThread
  <2> QED BY <1>t, <2>1, <2>2 DEF WakeupsBalance
<1>2. ASSUME NEW c \in ConfThreads, Confirmed(c) \/ CloseAfterLoss(c)
      PROVE  WakeupsBalance'
  <2>1. c \in Pending /\ conf' = [conf EXCEPT ![c] = IdleConf]
    BY <1>2 DEF Confirmed, CloseAfterLoss, Pending
  <2>2. Cardinality(Pending') = Cardinality(Pending) - 1
    BY <2>1, CountsEnd
  <2>3. Waiting' = Waiting /\ confirmReceived' = TRUE
    BY <1>2 DEF Confirmed, CloseAfterLoss, Waiting
  <2> QED BY <1>t, <2>2, <2>3 DEF WakeupsBalance
<1>3. ASSUME NEW k \in Callers, Wake(k) PROVE WakeupsBalance'
  <2>1. Waiting' = Waiting \ {k} /\ k \in Waiting
    BY <1>3, <1>t DEF Wake, Waiting
  <2>2. Cardinality(Waiting') = Cardinality(Waiting) - 1
    BY <2>1, CountsTyped, FS_RemoveElement
  <2>3. Pending' = Pending
    BY <1>3 DEF Wake, Pending
  <2>4. confirmReceived /\ ~confirmReceived'
    BY <1>3 DEF Wake
  <2> QED BY <1>t, <2>2, <2>3, <2>4 DEF WakeupsBalance
<1>4. ASSUME NEW k \in Callers, Unlock(k) PROVE WakeupsBalance'
  <2>1. Waiting' = Waiting
    BY <1>4, <1>t DEF Unlock, Waiting
  <2>2. Pending' = Pending /\ confirmReceived' = confirmReceived
    BY <1>4 DEF Unlock, Pending
  <2> QED BY <2>1, <2>2, CountsSame
<1>5. ASSUME NEW c \in ConfThreads,
             \/ ReadExpected(c) \/ LockAndCount(c) \/ Transmit(c) \/ Look(c)
             \/ TimeOut(c) \/ GiveUp(c)
      PROVE  WakeupsBalance'
  <2>a. conf'[c].pc # "idle" /\ conf[c].pc # "idle"
    <3>1. CASE ReadExpected(c) BY <3>1, <1>t DEF ReadExpected
    <3>2. CASE LockAndCount(c) BY <3>2, <1>t DEF LockAndCount
    <3>3. CASE Transmit(c)     BY <3>3, <1>t DEF Transmit
    <3>4. CASE TimeOut(c)      BY <3>4, <1>t DEF TimeOut
    <3>5. CASE GiveUp(c)       BY <3>5, <1>t DEF GiveUp
    <3>6. CASE Look(c)         BY <3>6, <1>t DEF Look
    <3> QED BY <1>5, <3>1, <3>2, <3>3, <3>4, <3>5, <3>6
  <2>b. \A d \in ConfThreads \ {c} : conf'[d] = conf[d]
    BY <1>5, <1>t DEF ReadExpected, LockAndCount, Transmit, Look, TimeOut, GiveUp
  <2>1. Pending' = Pending
    BY <2>a, <2>b DEF Pending
  <2>2. caller' = caller
    BY <1>5 DEF ReadExpected, LockAndCount, Transmit, Look, TimeOut, GiveUp
  <2>3. confirmReceived' = confirmReceived
    BY <1>5 DEF ReadExpected, LockAndCount, Transmit, Look, TimeOut, GiveUp
  <2> QED BY <2>1, <2>2, <2>3, CountsSame DEF Waiting
<1>6. ASSUME UNCHANGED << caller, conf, confirmReceived >> PROVE WakeupsBalance'
  BY <1>6, CountsSame DEF Pending, Waiting
<1>7. ASSUME NEW id \in WireIDs, ReceiveConfirm(id) PROVE WakeupsBalance'
  BY <1>7, <1>6 DEF ReceiveConfirm
<1>8. CASE ClearBuffer \/ SendBye \/ StopNetwork \/ UNCHANGED coreVars
  BY <1>8, <1>6 DEF ClearBuffer, SendBye, StopNetwork, coreVars
<1> QED
  BY <1>1, <1>2, <1>3, <1>4, <1>5, <1>7, <1>8 DEF CoreNext, ConfStep

(* Confirm threads and the flag together never outnumber the callers that  *)
(* wait, whatever the number of each: a count, which says nothing of whose *)
(* wake-up it is.                                                          *)
THEOREM WakeupsCorrect == CoreSpec => []WakeupsBalance
<1>1. CoreInit => WakeupsBalance
  <2> SUFFICES ASSUME CoreInit PROVE WakeupsBalance
    OBVIOUS
  <2>1. Pending = {} /\ Waiting = {} /\ confirmReceived = FALSE
    BY DEF CoreInit, Pending, Waiting, IdleConf
  <2> QED BY <2>1, FS_EmptySet DEF WakeupsBalance
<1>2. TypeOK /\ WakeupsBalance /\ [CoreNext]_coreVars => WakeupsBalance'
  BY BalanceStep
<1> QED BY <1>1, <1>2, TypeCorrect, PTL DEF CoreSpec

(* When nobody waits the flag is down and no confirm thread is alive: what *)
(* a send of a single sender, or one in a pause of all senders, meets is   *)
(* never the wake-up of an earlier message.                                *)
THEOREM NoFlagLeftCorrect == CoreSpec => []NoFlagLeft
<1>1. TypeOK /\ WakeupsBalance => NoFlagLeft
  <2> SUFFICES ASSUME TypeOK, WakeupsBalance, Waiting = {}
               PROVE  confirmReceived = FALSE /\ Pending = {}
    BY DEF NoFlagLeft
  <2>1. Cardinality(Waiting) = 0
    BY FS_EmptySet
  <2>2. IsFiniteSet(Pending) /\ Cardinality(Pending) \in Nat /\ confirmReceived \in BOOLEAN
    BY CountsTyped DEF TypeOK
  <2>3. Cardinality(Pending) = 0 /\ confirmReceived = FALSE
    BY <2>1, <2>2 DEF WakeupsBalance
  <2> QED BY <2>2, <2>3, FS_EmptySet
<1> QED BY <1>1, TypeCorrect, WakeupsCorrect, PTL
-----------------------------------------------------------------------------
(* No message is known anywhere before it has been built. *)
NumsKnown ==
  /\ received \subseteq 0..sends
  /\ \A k \in Callers : caller[k].num <= sends
  /\ \A c \in ConfThreads : conf[c].num <= sends

(* What StuckIsSilent needs to be inductive: while a caller is stuck in    *)
(* its own mutex no confirm thread owns it, so nothing is transmitted; and *)
(* the message that got it stuck is new.                                   *)
SilentInv == NumsKnown /\ StuckIsSilent

(* While a caller is stuck, no confirm thread is past the lock. *)
LEMMA StuckHasMutex ==
  ASSUME MutexOwned, NEW k \in Callers, caller[k].state = "stuck"
  PROVE  /\ confirmMutex = k
         /\ \A c \in ConfThreads : conf[c].pc \notin {"sending", "checking", "looked", "closing"}
BY DEF MutexOwned

(* A message that begins is a new one, and its thread has not read SentID. *)
LEMMA SilentStart ==
  ASSUME TypeOK, SilentInv, NEW k \in Callers, NEW c \in ConfThreads, StartConfirmThread(c),
         NEW s \in {"waiting", "stuck"}, caller[k].state # "stuck",
         caller' = [caller EXCEPT ![k] = [state |-> s, num |-> sends + 1]]
  PROVE  SilentInv'
<1>t. /\ caller \in [Callers -> CallerStates] /\ conf \in [ConfThreads -> ConfStates]
      /\ sends \in Nat /\ sends' = sends + 1 /\ received' = received
      /\ received \subseteq 0..sends
  BY DEF TypeOK, Nums, StartConfirmThread, SilentInv, NumsKnown
<1>1. /\ \A j \in Callers : caller[j].num <= sends /\ caller[j].num \in Nat
      /\ \A d \in ConfThreads : conf[d].num <= sends /\ conf[d].num \in Nat
  BY <1>t DEF SilentInv, NumsKnown, CallerStates, ConfStates, Nums
<1>2. /\ \A j \in Callers \ {k} : caller'[j] = caller[j]
      /\ caller'[k].num = sends + 1
      /\ \A d \in ConfThreads \ {c} : conf'[d] = conf[d]
      /\ conf'[c].num = sends + 1 /\ conf'[c].pc = "started"
  BY <1>t DEF StartConfirmThread, IdleConf
<1>3. NumsKnown'
  BY <1>t, <1>1, <1>2 DEF NumsKnown
<1>4. ASSUME NEW j \in Callers, caller'[j].state = "stuck"
      PROVE  /\ caller'[j].num \notin received'
             /\ \A d \in ConfThreads : conf'[d].num = caller'[j].num =>
                  conf'[d].pc \in {"started", "locking"}
  <2>1. CASE j = k
    BY <2>1, <1>t, <1>1, <1>2
  <2>2. CASE j # k
    BY <2>2, <1>4, <1>t, <1>1, <1>2 DEF SilentInv, StuckIsSilent
  <2> QED BY <2>1, <2>2
<1> QED BY <1>3, <1>4 DEF SilentInv, StuckIsSilent

(* Every step keeps a stuck caller's message in its thread. *)
LEMMA SilentStep ==
  TypeOK /\ MutexOwned /\ SilentInv /\ [CoreNext]_coreVars => SilentInv'
<1> SUFFICES ASSUME TypeOK, MutexOwned, SilentInv, [CoreNext]_coreVars PROVE SilentInv'
  OBVIOUS
<1>t. /\ caller \in [Callers -> CallerStates] /\ conf \in [ConfThreads -> ConfStates]
      /\ sends \in Nat
  BY DEF TypeOK, Nums
<1>s. NumsKnown /\ StuckIsSilent
  BY DEF SilentInv
<1>1. ASSUME NEW k \in Callers, NEW c \in ConfThreads,
             Send(k, c) \/ SendWhileHolding(k, c)
      PROVE  SilentInv'
  <2>1. CASE Send(k, c)
    BY <2>1, SilentStart DEF Send
  <2>2. CASE SendWhileHolding(k, c)
    BY <2>2, SilentStart DEF SendWhileHolding
  <2> QED BY <1>1, <2>1, <2>2
<1>2. ASSUME NEW c \in ConfThreads, ReadExpected(c) PROVE SilentInv'
  BY <1>2, <1>s, <1>t DEF ReadExpected, SilentInv, NumsKnown, StuckIsSilent
<1>3. ASSUME NEW c \in ConfThreads,
             \/ LockAndCount(c) \/ Transmit(c) \/ Look(c) \/ Confirmed(c) \/ TimeOut(c)
             \/ GiveUp(c) \/ CloseAfterLoss(c)
      PROVE  SilentInv'
  <2>1. \A k \in Callers : caller[k].state # "stuck"
    <3> SUFFICES ASSUME NEW k \in Callers, caller[k].state = "stuck" PROVE FALSE
      OBVIOUS
    <3>1. confirmMutex = k /\ conf[c].pc \notin {"sending", "checking", "looked", "closing"}
      BY StuckHasMutex
    <3> QED BY <1>3, <3>1 DEF LockAndCount, Transmit, Look, Confirmed, TimeOut, GiveUp,
                             CloseAfterLoss
  <2>2. caller' = caller /\ sends' = sends
    BY <1>3 DEF LockAndCount, Transmit, Look, Confirmed, TimeOut, GiveUp, CloseAfterLoss
  <2>3. StuckIsSilent'
    BY <2>1, <2>2 DEF StuckIsSilent
  <2>4. received' \subseteq 0..sends
    <3>1. conf[c].num \in 0..sends /\ received \subseteq 0..sends
      BY <1>s, <1>t DEF NumsKnown, ConfStates, Nums
    <3>2. received' \subseteq received \cup {conf[c].num}
      BY <1>3 DEF LockAndCount, Transmit, Look, Confirmed, TimeOut, GiveUp, CloseAfterLoss
    <3> QED BY <3>1, <3>2
  <2>5. \A d \in ConfThreads : conf'[d].num \in {0, conf[d].num}
    <3>1. CASE LockAndCount(c)   BY <3>1, <1>t DEF LockAndCount
    <3>2. CASE Transmit(c)       BY <3>2, <1>t DEF Transmit
    <3>3. CASE Confirmed(c)      BY <3>3, <1>t DEF Confirmed, IdleConf
    <3>4. CASE TimeOut(c)        BY <3>4, <1>t DEF TimeOut
    <3>5. CASE GiveUp(c)         BY <3>5, <1>t DEF GiveUp
    <3>6. CASE CloseAfterLoss(c) BY <3>6, <1>t DEF CloseAfterLoss, IdleConf
    <3>7. CASE Look(c)           BY <3>7, <1>t DEF Look
    <3> QED BY <1>3, <3>1, <3>2, <3>3, <3>4, <3>5, <3>6, <3>7
  <2> QED BY <1>s, <1>t, <2>2, <2>3, <2>4, <2>5 DEF SilentInv, NumsKnown
<1>4. ASSUME NEW k \in Callers, Wake(k) PROVE SilentInv'
  BY <1>4, <1>s, <1>t DEF Wake, SilentInv, NumsKnown, StuckIsSilent
<1>5. ASSUME NEW k \in Callers, Unlock(k) PROVE SilentInv'
  BY <1>5, <1>s, <1>t DEF Unlock, SilentInv, NumsKnown, StuckIsSilent
<1>6. CASE UNCHANGED << sends, caller, conf, received >>
  BY <1>6, <1>s DEF SilentInv, NumsKnown, StuckIsSilent
<1>7. ASSUME NEW id \in WireIDs, ReceiveConfirm(id) PROVE SilentInv'
  BY <1>6, <1>7 DEF ReceiveConfirm
<1>8. CASE ClearBuffer \/ SendBye \/ StopNetwork \/ UNCHANGED coreVars
  BY <1>6, <1>8 DEF ClearBuffer, SendBye, StopNetwork, coreVars
<1> QED BY <1>1, <1>2, <1>3, <1>4, <1>5, <1>7, <1>8 DEF CoreNext, ConfStep

(* The ERR that handleErrFromServerUDP builds in a caller that owns        *)
(* confirmMutex never leaves the client, whatever else happens.            *)
THEOREM SilentCorrect == CoreSpec => []StuckIsSilent
<1>1. CoreInit => SilentInv
  BY DEF CoreInit, SilentInv, NumsKnown, StuckIsSilent, IdleConf
<1>2. TypeOK /\ MutexOwned /\ SilentInv /\ [CoreNext]_coreVars => SilentInv'
  BY SilentStep
<1>3. SilentInv => StuckIsSilent
  BY DEF SilentInv
<1> QED BY <1>1, <1>2, <1>3, TypeCorrect, MutexCorrect, PTL DEF CoreSpec
-----------------------------------------------------------------------------
(* The steps a confirm thread has left at most, before it ends *)
StepsLeft(c) ==
  IF conf[c].pc = "idle" THEN 0
  ELSE IF conf[c].pc = "closing" THEN 1
  ELSE 3 * (UdpRetransmissions - conf[c].tries) +
       (CASE conf[c].pc \in {"started", "checking"} -> 4
          [] conf[c].pc \in {"locking", "looked"}   -> 3
          [] conf[c].pc = "sending"                 -> 2)

(* They are a number, and none exactly when the thread has ended. *)
StepsBounded ==
  \A c \in ConfThreads :
    /\ StepsLeft(c) \in 0..(3 * UdpRetransmissions + 4)
    /\ StepsLeft(c) = 0 <=> c \notin Pending

(* A thread that is alive and takes a step has fewer left; nothing that    *)
(* other threads do gives it more.                                         *)
StepsRunOut ==
  [][\A c \in Pending : conf'[c] = conf[c] \/ StepsLeft(c)' < StepsLeft(c)]_coreVars

(* What the types say of the steps left *)
LEMMA StepsNumber == TypeOK => StepsBounded
<1> SUFFICES ASSUME TypeOK, NEW c \in ConfThreads
             PROVE  /\ StepsLeft(c) \in 0..(3 * UdpRetransmissions + 4)
                    /\ StepsLeft(c) = 0 <=> c \notin Pending
  BY DEF StepsBounded
<1>1. conf[c] \in ConfStates
  BY DEF TypeOK
<1>2. /\ conf[c].tries \in 0..UdpRetransmissions
      /\ conf[c].pc \in {"idle", "started", "locking", "sending", "checking", "looked", "closing"}
  BY <1>1 DEF ConfStates
<1>3. UdpRetransmissions - conf[c].tries \in 0..UdpRetransmissions
  BY <1>2
<1> QED BY <1>2, <1>3 DEF StepsLeft, Pending

(* A step of one confirm thread leaves the others where they are. *)
LEMMA OtherThreads ==
  ASSUME TypeOK, NEW c \in ConfThreads, NEW d \in ConfThreads, d # c, ConfStep(d)
  PROVE  conf'[c] = conf[c]
<1>t. conf \in [ConfThreads -> ConfStates]
  BY DEF TypeOK
<1>1. CASE ReadExpected(d)   BY <1>1, <1>t DEF ReadExpected
<1>2. CASE LockAndCount(d)   BY <1>2, <1>t DEF LockAndCount
<1>3. CASE Transmit(d)       BY <1>3, <1>t DEF Transmit
<1>4. CASE Look(d)           BY <1>4, <1>t DEF Look
<1>5. CASE Confirmed(d)      BY <1>5, <1>t DEF Confirmed
<1>6. CASE TimeOut(d)        BY <1>6, <1>t DEF TimeOut
<1>7. CASE GiveUp(d)         BY <1>7, <1>t DEF GiveUp
<1>8. CASE CloseAfterLoss(d) BY <1>8, <1>t DEF CloseAfterLoss
<1> QED BY <1>1, <1>2, <1>3, <1>4, <1>5, <1>6, <1>7, <1>8 DEF ConfStep

(* Every step of a confirm thread is one of those it has left. *)
LEMMA StepTaken ==
  ASSUME TypeOK, NEW c \in ConfThreads, ConfStep(c)
  PROVE  StepsLeft(c)' < StepsLeft(c)
<1>1. /\ conf \in [ConfThreads -> ConfStates] /\ conf[c] \in ConfStates
      /\ conf[c].tries \in 0..UdpRetransmissions
  BY DEF TypeOK, ConfStates
<1>2. CASE ReadExpected(c) BY <1>1, <1>2 DEF ReadExpected, StepsLeft
<1>3. CASE LockAndCount(c) BY <1>1, <1>3 DEF LockAndCount, StepsLeft
<1>4. CASE Transmit(c)
  <2>1. conf'[c].pc = "checking" /\ conf'[c].tries = conf[c].tries + 1 /\ conf[c].pc = "sending"
    BY <1>1, <1>4 DEF Transmit
  <2> QED BY <1>1, <2>1 DEF StepsLeft
<1>5. CASE Look(c)         BY <1>1, <1>5 DEF Look, StepsLeft
<1>6. CASE TimeOut(c)      BY <1>1, <1>6 DEF TimeOut, StepsLeft
<1>7. CASE GiveUp(c)       BY <1>1, <1>7 DEF GiveUp, StepsLeft
<1>8. CASE Confirmed(c) \/ CloseAfterLoss(c)
  <2>1. conf'[c].pc = "idle" /\ conf[c].pc \in {"checking", "looked", "closing"}
    BY <1>1, <1>8 DEF Confirmed, CloseAfterLoss, IdleConf
  <2> QED BY <1>1, <2>1 DEF StepsLeft
<1> QED BY <1>2, <1>3, <1>4, <1>5, <1>6, <1>7, <1>8 DEF ConfStep

(* No message keeps its confirm thread for more than 3 r + 4 steps, where  *)
(* r is the number of transmissions allowed and the looks at the buffer    *)
(* during one timeout are one step: the loops of confirmThread run out     *)
(* whatever the server, the other threads and the network do.              *)
THEOREM StepsRunOutCorrect == CoreSpec => []StepsBounded /\ StepsRunOut
<1> DEFINE Fewer == \A c \in Pending : conf'[c] = conf[c] \/ StepsLeft(c)' < StepsLeft(c)
<1>1. TypeOK => StepsBounded
  BY StepsNumber
<1>2. TypeOK /\ [CoreNext]_coreVars => [Fewer]_coreVars
  <2> SUFFICES ASSUME TypeOK, CoreNext, NEW c \in Pending
               PROVE  conf'[c] = conf[c] \/ StepsLeft(c)' < StepsLeft(c)
    BY DEF Pending
  <2>t. conf \in [ConfThreads -> ConfStates] /\ c \in ConfThreads /\ conf[c].pc # "idle"
    BY DEF TypeOK, Pending
  <2>1. ASSUME NEW k \in Callers, NEW d \in ConfThreads, Send(k, d) \/ SendWhileHolding(k, d)
        PROVE  conf'[c] = conf[c]
    <3>1. StartConfirmThread(d)
      BY <2>1 DEF Send, SendWhileHolding
    <3> QED BY <3>1, <2>t DEF StartConfirmThread
  <2>2. ASSUME NEW d \in ConfThreads, ConfStep(d), d # c PROVE conf'[c] = conf[c]
    BY <2>2, <2>t, OtherThreads
  <2>3. ASSUME ConfStep(c) PROVE StepsLeft(c)' < StepsLeft(c)
    BY <2>3, <2>t, StepTaken
  <2>4. CASE UNCHANGED conf
    BY <2>4
  <2>5. ASSUME NEW k \in Callers, Wake(k) \/ Unlock(k) PROVE conf'[c] = conf[c]
    BY <2>5 DEF Wake, Unlock
  <2>6. ASSUME NEW id \in WireIDs, ReceiveConfirm(id) PROVE conf'[c] = conf[c]
    BY <2>6 DEF ReceiveConfirm
  <2>7. CASE ClearBuffer \/ SendBye \/ StopNetwork
    BY <2>7 DEF ClearBuffer, SendBye, StopNetwork
  <2> QED BY <2>1, <2>2, <2>3, <2>5, <2>6, <2>7 DEF CoreNext
<1> QED BY <1>1, <1>2, TypeCorrect, PTL DEF CoreSpec, StepsRunOut
=============================================================================
