-------------------------- MODULE OneSenderProofs --------------------------
(***************************************************************************)
(* Proofs about ConfirmedSend with one sender, which is the client as long *)
(* as what the server sends is well formed: the network thread alone sends.*)
(***************************************************************************)
EXTENDS ConfirmedSendProofs

USE ThreadsAssumption, NumbersAssumption, SwitchesAssumption
    DEF ThreadsAssumption, NumbersAssumption, SwitchesAssumption

OneSender == Cardinality(Callers) = 1

(* The identifiers do not wrap: the server's answers to one message cannot *)
(* be taken for answers to another.                                        *)
OneLap == MaxSends <= IdModulus
-----------------------------------------------------------------------------
(* One sender is the same thread, whichever way it is named. *)
LEMMA Alone == OneSender => \A j, k \in Callers : j = k
BY FS_Singleton DEF OneSender

(* With one sender, at most one confirm thread is alive, and none is when  *)
(* the flag is up or the sender does not wait.                             *)
LEMMA OneOutstanding ==
  ASSUME OneSender, TypeOK, WakeupsBalance
  PROVE  /\ \A c, d \in Pending : c = d
         /\ confirmReceived => Pending = {}
         /\ Waiting = {} => Pending = {} /\ confirmReceived = FALSE
<1>1. Cardinality(Waiting) <= 1 /\ Cardinality(Waiting) \in Nat /\ Cardinality(Pending) \in Nat
  <2>1. Waiting \in SUBSET Callers
    BY DEF Waiting
  <2> QED BY <2>1, FS_Subset, CountsTyped DEF OneSender
<1>2. IsFiniteSet(Pending) /\ confirmReceived \in BOOLEAN
  BY CountsTyped DEF TypeOK
<1>3. Cardinality(Pending) <= 1 /\ (confirmReceived => Cardinality(Pending) = 0)
  BY <1>1, <1>2 DEF WakeupsBalance
<1>4. \A c, d \in Pending : c = d
  <2>1. CASE Cardinality(Pending) = 0
    BY <2>1, <1>2, FS_EmptySet
  <2>2. CASE Cardinality(Pending) = 1
    BY <2>2, <1>2, FS_Singleton
  <2> QED BY <1>1, <1>3, <2>1, <2>2
<1>5. confirmReceived => Pending = {}
  BY <1>2, <1>3, FS_EmptySet
<1>6. ASSUME Waiting = {} PROVE Pending = {} /\ confirmReceived = FALSE
  <2>1. Cardinality(Waiting) = 0
    BY <1>6, FS_EmptySet
  <2>2. Cardinality(Pending) = 0 /\ confirmReceived = FALSE
    BY <2>1, <1>1, <1>2 DEF WakeupsBalance
  <2> QED BY <2>2, <1>2, FS_EmptySet
<1> QED BY <1>4, <1>5, <1>6

(* A sender that does not wait is the only one: nothing is outstanding. *)
LEMMA NoneOutstanding ==
  ASSUME OneSender, TypeOK, WakeupsBalance,
         NEW k \in Callers, caller[k].state \in {"running", "holding"}
  PROVE  Waiting = {} /\ Pending = {} /\ confirmReceived = FALSE
<1>1. Waiting = {}
  BY Alone DEF Waiting
<1> QED BY <1>1, OneOutstanding
-----------------------------------------------------------------------------
(* With one sender, whatever the wrapping of identifiers, the number of    *)
(* messages and the duplicates, confirmThread looks for the CONFIRM of its *)
(* own message: that no flag is left over keeps SentID from moving between *)
(* the building of the message and the start of its thread.                *)
THEOREM ExpectsOwnIDCorrect == CoreSpec => []ExpectsOwnID
<1>1. CoreInit => ExpectsOwnID
  BY DEF CoreInit, ExpectsOwnID, Pending, IdleConf
<1>2. TypeOK /\ WakeupsBalance /\ ExpectsOwnID /\ [CoreNext]_coreVars => ExpectsOwnID'
  <2> SUFFICES ASSUME TypeOK, WakeupsBalance, ExpectsOwnID, [CoreNext]_coreVars, OneSender
               PROVE  ExpectsOwnID'
    BY DEF OneSender, ExpectsOwnID
  <2>t. conf \in [ConfThreads -> ConfStates]
    BY DEF TypeOK
  <2>i. \A c \in Pending : IF conf[c].pc = "started" THEN conf[c].id = sentID
                                                    ELSE conf[c].expected = conf[c].id
    BY DEF ExpectsOwnID, OneSender
  <2>1. ASSUME NEW k \in Callers, NEW c \in ConfThreads,
               Send(k, c) \/ SendWhileHolding(k, c)
        PROVE  ExpectsOwnID'
    <3>1. StartConfirmThread(c)
      BY <2>1 DEF Send, SendWhileHolding
    <3> QED BY <3>1, <2>t, <2>i DEF StartConfirmThread, ExpectsOwnID, Pending, IdleConf
  <2>2. ASSUME NEW c \in ConfThreads, ReadExpected(c) PROVE ExpectsOwnID'
    BY <2>2, <2>t, <2>i DEF ReadExpected, ExpectsOwnID, Pending
  <2>3. ASSUME NEW c \in ConfThreads, LockAndCount(c) PROVE ExpectsOwnID'
    <3>1. c \in Pending /\ \A d \in Pending : d = c
      BY <2>3, OneOutstanding DEF LockAndCount, Pending
    <3> QED BY <3>1, <2>3, <2>t, <2>i DEF LockAndCount, ExpectsOwnID, Pending
  <2>4. ASSUME NEW c \in ConfThreads, Transmit(c) PROVE ExpectsOwnID'
    BY <2>4, <2>t, <2>i DEF Transmit, ExpectsOwnID, Pending
  <2>5. ASSUME NEW c \in ConfThreads, Confirmed(c) PROVE ExpectsOwnID'
    BY <2>5, <2>t, <2>i DEF Confirmed, ExpectsOwnID, Pending, IdleConf
  <2>6. ASSUME NEW c \in ConfThreads, Look(c) \/ TimeOut(c) PROVE ExpectsOwnID'
    <3>1. CASE Look(c)    BY <3>1, <2>t, <2>i DEF Look, ExpectsOwnID, Pending
    <3>2. CASE TimeOut(c) BY <3>2, <2>t, <2>i DEF TimeOut, ExpectsOwnID, Pending
    <3> QED BY <2>6, <3>1, <3>2
  <2>7. ASSUME NEW c \in ConfThreads, GiveUp(c) PROVE ExpectsOwnID'
    BY <2>7, <2>t, <2>i DEF GiveUp, ExpectsOwnID, Pending
  <2>8. ASSUME NEW c \in ConfThreads, CloseAfterLoss(c) PROVE ExpectsOwnID'
    BY <2>8, <2>t, <2>i DEF CloseAfterLoss, ExpectsOwnID, Pending, IdleConf
  <2>9. CASE UNCHANGED << sentID, conf >>
    BY <2>9, <2>i DEF ExpectsOwnID, Pending
  <2>10. ASSUME NEW k \in Callers, Wake(k) \/ Unlock(k) PROVE ExpectsOwnID'
    BY <2>9, <2>10 DEF Wake, Unlock
  <2>11. ASSUME NEW id \in WireIDs, ReceiveConfirm(id) PROVE ExpectsOwnID'
    BY <2>9, <2>11 DEF ReceiveConfirm
  <2>12. CASE ClearBuffer \/ SendBye \/ StopNetwork \/ UNCHANGED coreVars
    BY <2>9, <2>12 DEF ClearBuffer, SendBye, StopNetwork, coreVars
  <2> QED BY <2>1, <2>2, <2>3, <2>4, <2>5, <2>6, <2>7, <2>8, <2>10, <2>11, <2>12
             DEF CoreNext, ConfStep
<1> QED BY <1>1, <1>2, TypeCorrect, WakeupsCorrect, PTL DEF CoreSpec
-----------------------------------------------------------------------------
(* How messages, identifiers and threads hang together: the thread alive   *)
(* and the sender that waits are at the last message built, identifiers    *)
(* are one behind the numbers, and SentID is counted up between the start  *)
(* of a thread and its first transmission.                                 *)
NumbersFollow ==
  /\ \A c \in Pending : sends > 0 /\ conf[c].num = sends /\ conf[c].id = sends - 1
  /\ IF \E c \in ConfThreads : conf[c].pc \in {"started", "locking"}
     THEN sentID = sends - 1
     ELSE sends < IdModulus => sentID = sends
  /\ \A k \in Waiting : sends > 0 /\ caller[k].num = sends

(* ... and where an answer comes from: a CONFIRM, and what it brings       *)
(* about, from a message that arrived; a message given up from its thread. *)
AnswersFollow ==
  /\ received \subseteq 1..sends /\ failed \subseteq 1..sends
  /\ \A i \in confirms \cup inflight : i + 1 \in received
  /\ \A c \in Pending : conf[c].num \in failed <=> conf[c].pc = "closing"
  /\ \A k \in Callers :
       \/ caller[k].state = "holding"
       \/ caller[k].state = "waiting" /\ confirmReceived = TRUE
       => caller[k].num \in received \cup failed

(* The invariants that the proofs of the first lap start from *)
LapInv == TypeOK /\ WakeupsBalance /\ ExpectsOwnID /\ NumbersFollow /\ AnswersFollow

(* Before the last identifier is used SentID does not wrap. *)
LEMMA NoWrap == \A n \in Nat : n < IdModulus => n % IdModulus = n
OBVIOUS

(* A new message: its thread and its sender are the only ones. *)
LEMMA LapStart ==
  ASSUME OneSender, OneLap, LapInv, NEW k \in Callers, NEW c \in ConfThreads,
         Send(k, c) \/ SendWhileHolding(k, c)
  PROVE  /\ Waiting = {} /\ Pending = {} /\ confirmReceived = FALSE
         /\ Waiting' = {k} /\ Pending' = {c} /\ sends' = sends + 1
         /\ conf'[c] = [IdleConf EXCEPT !.pc = "started", !.num = sends + 1, !.id = sends]
         /\ caller'[k].num = sends + 1 /\ caller'[k].state \in {"waiting", "stuck"}
         /\ sentID = sends
<1>t. /\ caller \in [Callers -> CallerStates] /\ conf \in [ConfThreads -> ConfStates]
      /\ sends \in Nat
  BY DEF LapInv, TypeOK, Nums
<1>1. Waiting = {} /\ Pending = {} /\ confirmReceived = FALSE
  BY NoneOutstanding DEF LapInv, Send, SendWhileHolding
<1>2. StartConfirmThread(c)
  BY DEF Send, SendWhileHolding
<1>3. sends < IdModulus /\ sends' = sends + 1
  BY <1>2, <1>t DEF StartConfirmThread, OneLap
<1>4. sentID = sends
  BY <1>1, <1>3 DEF LapInv, NumbersFollow, Pending
<1>5. /\ conf'[c] = [IdleConf EXCEPT !.pc = "started", !.num = sends + 1, !.id = sends]
      /\ \A d \in ConfThreads \ {c} : conf'[d] = conf[d]
  BY <1>2, <1>4, <1>t DEF StartConfirmThread
<1>6. /\ caller'[k].num = sends + 1 /\ caller'[k].state \in {"waiting", "stuck"}
      /\ \A j \in Callers \ {k} : caller'[j] = caller[j]
  BY <1>t DEF Send, SendWhileHolding
<1>7. Pending' = {c}
  BY <1>1, <1>5 DEF Pending, IdleConf
<1>8. Waiting' = {k}
  BY <1>1, <1>6 DEF Waiting
<1> QED BY <1>1, <1>3, <1>4, <1>5, <1>6, <1>7, <1>8

(* What a step of a confirm thread leaves alone. *)
LEMMA ConfStepFrame ==
  ASSUME TypeOK, NEW c \in ConfThreads, ConfStep(c)
  PROVE  /\ caller' = caller /\ sends' = sends
         /\ \A d \in ConfThreads \ {c} : conf'[d] = conf[d]
         /\ c \in Pending
         /\ conf'[c].pc # "idle" => conf'[c].num = conf[c].num /\ conf'[c].id = conf[c].id
<1>t. conf \in [ConfThreads -> ConfStates]
  BY DEF TypeOK
<1>1. CASE ReadExpected(c)   BY <1>1, <1>t DEF ReadExpected, Pending
<1>2. CASE LockAndCount(c)   BY <1>2, <1>t DEF LockAndCount, Pending
<1>3. CASE Transmit(c)       BY <1>3, <1>t DEF Transmit, Pending
<1>4. CASE Confirmed(c)      BY <1>4, <1>t DEF Confirmed, Pending, IdleConf
<1>5. CASE TimeOut(c)        BY <1>5, <1>t DEF TimeOut, Pending
<1>6. CASE GiveUp(c)         BY <1>6, <1>t DEF GiveUp, Pending
<1>7. CASE CloseAfterLoss(c) BY <1>7, <1>t DEF CloseAfterLoss, Pending, IdleConf
<1>8. CASE Look(c)           BY <1>8, <1>t DEF Look, Pending
<1> QED BY <1>1, <1>2, <1>3, <1>4, <1>5, <1>6, <1>7, <1>8 DEF ConfStep

(* The thread that takes a step is the one thread alive. *)
LEMMA OnlyThread ==
  ASSUME OneSender, LapInv, NEW c \in ConfThreads, ConfStep(c)
  PROVE  /\ Pending = {c} /\ confirmReceived = FALSE
         /\ \A d \in ConfThreads \ {c} : conf[d].pc = "idle" /\ conf'[d].pc = "idle"
         /\ sends > 0 /\ conf[c].num = sends /\ conf[c].id = sends - 1
         /\ Waiting' = Waiting
<1>1. /\ c \in Pending /\ caller' = caller
      /\ \A d \in ConfThreads \ {c} : conf'[d] = conf[d]
  BY ConfStepFrame DEF LapInv
<1>2. Pending = {c} /\ (confirmReceived => FALSE)
  BY <1>1, OneOutstanding DEF LapInv
<1>3. confirmReceived = FALSE
  BY <1>2 DEF LapInv, TypeOK
<1>4. \A d \in ConfThreads \ {c} : conf[d].pc = "idle" /\ conf'[d].pc = "idle"
  BY <1>1, <1>2 DEF Pending
<1> QED BY <1>1, <1>2, <1>3, <1>4 DEF LapInv, NumbersFollow, Waiting
-----------------------------------------------------------------------------
(* Every step keeps numbers, identifiers and threads together. *)
LEMMA NumbersStep ==
  ASSUME OneSender, OneLap, LapInv, [CoreNext]_coreVars
  PROVE  NumbersFollow'
<1>t. /\ caller \in [Callers -> CallerStates] /\ conf \in [ConfThreads -> ConfStates]
      /\ sends \in Nat /\ sends <= IdModulus
  BY DEF LapInv, TypeOK, Nums, OneLap
<1>n. NumbersFollow
  BY DEF LapInv
<1>1. ASSUME NEW k \in Callers, NEW c \in ConfThreads,
             Send(k, c) \/ SendWhileHolding(k, c)
      PROVE  NumbersFollow'
  <2>1. sentID' = sentID
    BY <1>1 DEF Send, SendWhileHolding, StartConfirmThread
  <2>2. conf'[c].pc = "started" /\ conf'[c].num = sends + 1 /\ conf'[c].id = sends
    BY <1>1, LapStart, ZenonT(40) DEF IdleConf
  <2>3. /\ Pending' = {c} /\ Waiting' = {k} /\ sends' = sends + 1 /\ sentID = sends
        /\ caller'[k].num = sends + 1
    BY <1>1, LapStart
  <2>4. \E d \in ConfThreads : conf'[d].pc \in {"started", "locking"}
    BY <2>2
  <2> QED BY <2>1, <2>2, <2>3, <2>4, <1>t DEF NumbersFollow
<1>2. ASSUME NEW c \in ConfThreads, ConfStep(c) PROVE NumbersFollow'
  <2>1. /\ sends' = sends /\ sends > 0 /\ conf[c].num = sends /\ conf[c].id = sends - 1
        /\ \A d \in ConfThreads \ {c} : conf[d].pc = "idle" /\ conf'[d].pc = "idle"
        /\ Waiting' = Waiting /\ caller' = caller
    BY <1>2, OnlyThread, ConfStepFrame DEF LapInv
  <2>2. \A d \in Pending' : sends > 0 /\ conf'[d].num = sends /\ conf'[d].id = sends - 1
    BY <1>2, <2>1, ConfStepFrame DEF LapInv, Pending
  <2>3. \A k \in Waiting' : sends > 0 /\ caller'[k].num = sends
    BY <2>1, <1>n DEF NumbersFollow
  <2>4. IF conf'[c].pc \in {"started", "locking"}
        THEN sentID' = sends - 1
        ELSE sends < IdModulus => sentID' = sends
    <3>n. IF conf[c].pc \in {"started", "locking"}
          THEN sentID = sends - 1
          ELSE sends < IdModulus => sentID = sends
      BY <1>n, <2>1 DEF NumbersFollow
    <3>1. CASE ReadExpected(c)   BY <3>1, <3>n, <1>t DEF ReadExpected
    <3>2. CASE LockAndCount(c)
      <4>1. sentID' = sends % IdModulus /\ conf'[c].pc = "sending"
        BY <3>2, <3>n, <1>t DEF LockAndCount
      <4> QED BY <4>1, <1>t, NoWrap
    <3>3. CASE Transmit(c)       BY <3>3, <3>n, <1>t DEF Transmit
    <3>4. CASE Confirmed(c)      BY <3>4, <3>n, <1>t DEF Confirmed, IdleConf
    <3>5. CASE TimeOut(c)        BY <3>5, <3>n, <1>t DEF TimeOut
    <3>6. CASE GiveUp(c)         BY <3>6, <3>n, <1>t DEF GiveUp
    <3>7. CASE CloseAfterLoss(c) BY <3>7, <3>n, <1>t DEF CloseAfterLoss, IdleConf
    <3>8. CASE Look(c)           BY <3>8, <3>n, <1>t DEF Look
    <3> QED BY <1>2, <3>1, <3>2, <3>3, <3>4, <3>5, <3>6, <3>7, <3>8 DEF ConfStep
  <2> QED BY <2>1, <2>2, <2>3, <2>4 DEF NumbersFollow
<1>3. ASSUME NEW k \in Callers, Wake(k) \/ Unlock(k) PROVE NumbersFollow'
  <2>1. UNCHANGED << sends, sentID, conf >>
    BY <1>3 DEF Wake, Unlock
  <2>2. Waiting' \subseteq Waiting /\ \A j \in Waiting' : caller'[j] = caller[j]
    <3>1. CASE Wake(k)   BY <3>1, <1>t DEF Wake, Waiting
    <3>2. CASE Unlock(k) BY <3>2, <1>t DEF Unlock, Waiting
    <3> QED BY <1>3, <3>1, <3>2
  <2> QED BY <2>1, <2>2, <1>n DEF NumbersFollow, Pending
<1>4. CASE UNCHANGED << sends, sentID, caller, conf >>
  BY <1>4, <1>n DEF NumbersFollow, Pending, Waiting
<1>5. ASSUME NEW id \in WireIDs, ReceiveConfirm(id) PROVE NumbersFollow'
  BY <1>4, <1>5 DEF ReceiveConfirm
<1>6. CASE ClearBuffer \/ SendBye \/ StopNetwork \/ UNCHANGED coreVars
  BY <1>4, <1>6 DEF ClearBuffer, SendBye, StopNetwork, coreVars
<1> QED BY <1>1, <1>2, <1>3, <1>5, <1>6 DEF CoreNext

(* Every step keeps answers and their causes together. *)
LEMMA AnswersStep ==
  ASSUME OneSender, OneLap, LapInv, [CoreNext]_coreVars
  PROVE  AnswersFollow'
<1>t. /\ caller \in [Callers -> CallerStates] /\ conf \in [ConfThreads -> ConfStates]
      /\ sends \in Nat /\ sends <= IdModulus
  BY DEF LapInv, TypeOK, Nums, OneLap
<1>n. NumbersFollow /\ AnswersFollow
  BY DEF LapInv
<1>a. /\ received \subseteq 1..sends /\ failed \subseteq 1..sends
      /\ \A i \in confirms \cup inflight : i + 1 \in received
  BY <1>n DEF AnswersFollow
<1>1. ASSUME NEW k \in Callers, NEW c \in ConfThreads,
             Send(k, c) \/ SendWhileHolding(k, c)
      PROVE  AnswersFollow'
  <2>1. /\ Pending' = {c} /\ sends' = sends + 1 /\ confirmReceived = FALSE
        /\ conf'[c].num = sends + 1 /\ conf'[c].pc = "started"
        /\ caller'[k].state \in {"waiting", "stuck"}
    <3>1. conf'[c] = [IdleConf EXCEPT !.pc = "started", !.num = sends + 1, !.id = sends]
      BY <1>1, LapStart
    <3>2. conf'[c].num = sends + 1 /\ conf'[c].pc = "started"
      BY <3>1 DEF IdleConf
    <3>3. confirmReceived = FALSE
      BY <1>1, LapStart
    <3>4. Pending' = {c} /\ sends' = sends + 1 /\ caller'[k].state \in {"waiting", "stuck"}
      BY <1>1, LapStart
    <3> QED BY <3>2, <3>3, <3>4
  <2>2. UNCHANGED << confirmReceived, confirms, inflight, received, failed >>
    BY <1>1 DEF Send, SendWhileHolding, StartConfirmThread
  <2>3. \A j \in Callers : j = k
    BY Alone
  <2>4. \A d \in Pending' : conf'[d].num \in failed' <=> conf'[d].pc = "closing"
    BY <1>a, <1>t, <2>1, <2>2
  <2>5. received' \subseteq 1..sends' /\ failed' \subseteq 1..sends'
    BY <1>a, <1>t, <2>1, <2>2
  <2> QED BY <1>a, <2>1, <2>2, <2>3, <2>4, <2>5 DEF AnswersFollow
<1>2. ASSUME NEW c \in ConfThreads, ConfStep(c) PROVE AnswersFollow'
  <2>1. /\ sends' = sends /\ sends > 0 /\ conf[c].num = sends /\ conf[c].id = sends - 1
        /\ \A d \in ConfThreads \ {c} : conf[d].pc = "idle" /\ conf'[d].pc = "idle"
        /\ Pending = {c} /\ confirmReceived = FALSE /\ caller' = caller
        /\ conf'[c].pc # "idle" => conf'[c].num = sends
    BY <1>2, OnlyThread, ConfStepFrame DEF LapInv
  <2>2. /\ sends \in failed <=> conf[c].pc = "closing"
        /\ \A k \in Callers : caller[k].state = "waiting" => caller[k].num = sends
        /\ \A k \in Callers : caller[k].state = "holding" =>
             caller[k].num \in received \cup failed
    BY <1>n, <2>1 DEF NumbersFollow, AnswersFollow, Waiting
  <2>3. ASSUME received' \subseteq received \cup {sends}, received \subseteq received',
               failed' \subseteq failed \cup {sends}, failed \subseteq failed',
               \A i \in confirms' \cup inflight' : i + 1 \in received',
               conf'[c].pc # "idle" => (sends \in failed' <=> conf'[c].pc = "closing"),
               confirmReceived' = TRUE => sends \in received' \cup failed'
        PROVE  AnswersFollow'
    <3>1. received' \subseteq 1..sends' /\ failed' \subseteq 1..sends'
      BY <1>a, <1>t, <2>1, <2>3
    <3>2. \A d \in Pending' : conf'[d].num \in failed' <=> conf'[d].pc = "closing"
      BY <2>1, <2>3 DEF Pending
    <3>3. ASSUME NEW k \in Callers,
                 \/ caller'[k].state = "holding"
                 \/ caller'[k].state = "waiting" /\ confirmReceived' = TRUE
          PROVE  caller'[k].num \in received' \cup failed'
      BY <2>1, <2>2, <2>3, <3>3
    <3> QED BY <2>3, <3>1, <3>2, <3>3 DEF AnswersFollow
  <2>4. CASE ReadExpected(c) \/ LockAndCount(c) \/ Look(c) \/ TimeOut(c)
    <3>1. /\ UNCHANGED << confirmReceived, confirms, inflight, received, failed >>
          /\ conf[c].pc # "closing"
      BY <2>4 DEF ReadExpected, LockAndCount, Look, TimeOut
    <3>2. conf'[c].pc # "closing"
      <4>1. CASE ReadExpected(c) BY <4>1, <1>t DEF ReadExpected
      <4>2. CASE LockAndCount(c) BY <4>2, <1>t DEF LockAndCount
      <4>3. CASE TimeOut(c)      BY <4>3, <1>t DEF TimeOut
      <4>4. CASE Look(c)         BY <4>4, <1>t DEF Look
      <4> QED BY <2>4, <4>1, <4>2, <4>3, <4>4
    <3> QED BY <1>a, <2>1, <2>2, <2>3, <3>1, <3>2
  <2>5. CASE Transmit(c)
    <3>1. /\ UNCHANGED << confirmReceived, confirms, failed >>
          /\ conf[c].pc = "sending" /\ conf'[c].pc = "checking"
      BY <2>5, <1>t DEF Transmit
    <3>2. /\ received' \subseteq received \cup {sends} /\ received \subseteq received'
          /\ \A i \in inflight' : i \in inflight \/ (i = sends - 1 /\ sends \in received')
      BY <2>1, <2>5 DEF Transmit
    <3>3. \A i \in confirms' \cup inflight' : i + 1 \in received'
      <4> SUFFICES ASSUME NEW i \in confirms \cup inflight' PROVE i + 1 \in received'
        BY <3>1
      <4>1. CASE i \in confirms \cup inflight
        BY <4>1, <1>a, <3>2
      <4>2. CASE i = sends - 1 /\ sends \in received'
        BY <4>2, <1>t
      <4> QED BY <3>2, <4>1, <4>2
    <3> QED BY <2>1, <2>2, <2>3, <3>1, <3>2, <3>3
  <2>6. CASE Confirmed(c)
    <3>1. /\ UNCHANGED << inflight, received, failed >>
          /\ confirms' \subseteq confirms /\ conf'[c].pc = "idle"
      BY <2>6, <1>t DEF Confirmed, IdleConf
    <3>2. sends - 1 \in confirms
      BY <2>1, <2>6 DEF LapInv, ExpectsOwnID, OneSender, Confirmed
    <3>3. sends \in received
      BY <1>a, <1>t, <2>1, <3>2
    <3> QED BY <1>a, <2>3, <3>1, <3>3
  <2>7. CASE GiveUp(c)
    <3>1. /\ UNCHANGED << confirmReceived, confirms, inflight, received >>
          /\ failed' = failed \cup {sends} /\ conf'[c].pc = "closing"
      BY <2>1, <2>7, <1>t DEF GiveUp
    <3> QED BY <1>a, <2>3, <3>1
  <2>8. CASE CloseAfterLoss(c)
    <3>1. /\ UNCHANGED << confirms, inflight, received, failed >>
          /\ conf[c].pc = "closing" /\ conf'[c].pc = "idle"
      BY <2>8, <1>t DEF CloseAfterLoss, IdleConf
    <3> QED BY <1>a, <2>2, <2>3, <3>1
  <2> QED BY <1>2, <2>4, <2>5, <2>6, <2>7, <2>8 DEF ConfStep
<1>3. ASSUME NEW k \in Callers, Wake(k) PROVE AnswersFollow'
  <2>1. /\ UNCHANGED << sends, conf, confirms, inflight, received, failed >>
        /\ caller'[k].num = caller[k].num /\ caller[k].num \in received \cup failed
    <3>1. caller[k].state = "waiting" /\ confirmReceived = TRUE
      BY <1>3 DEF Wake, LapInv, TypeOK
    <3> QED BY <1>3, <1>n, <1>t, <3>1 DEF Wake, AnswersFollow
  <2>2. \A j \in Callers : j = k
    BY Alone
  <2> QED BY <1>n, <2>1, <2>2 DEF AnswersFollow, Pending
<1>4. ASSUME NEW k \in Callers, Unlock(k) PROVE AnswersFollow'
  <2>1. /\ UNCHANGED << sends, conf, confirms, inflight, received, failed >>
        /\ caller'[k].state = "running"
    BY <1>4, <1>t DEF Unlock
  <2>2. \A j \in Callers : j = k
    BY Alone
  <2> QED BY <1>n, <2>1, <2>2 DEF AnswersFollow, Pending
<1>5. ASSUME UNCHANGED << sends, caller, conf, confirmReceived, received, failed >>,
             confirms' \cup inflight' \subseteq confirms \cup inflight
      PROVE  AnswersFollow'
  BY <1>5, <1>n DEF AnswersFollow, Pending
<1>6. ASSUME NEW id \in WireIDs, ReceiveConfirm(id) PROVE AnswersFollow'
  BY <1>5, <1>6 DEF ReceiveConfirm
<1>7. CASE ClearBuffer \/ SendBye \/ StopNetwork \/ UNCHANGED coreVars
  BY <1>5, <1>7 DEF ClearBuffer, SendBye, StopNetwork, coreVars
<1> QED BY <1>1, <1>2, <1>3, <1>4, <1>6, <1>7 DEF CoreNext

(* The invariants of the first lap hold initially. *)
LEMMA LapInit == CoreInit => NumbersFollow /\ AnswersFollow
<1> SUFFICES ASSUME CoreInit PROVE NumbersFollow /\ AnswersFollow
  OBVIOUS
<1>1. Pending = {} /\ Waiting = {} /\ \A c \in ConfThreads : conf[c].pc = "idle"
  BY DEF CoreInit, Pending, Waiting, IdleConf
<1>2. NumbersFollow
  BY <1>1 DEF CoreInit, NumbersFollow
<1>3. AnswersFollow
  BY <1>1 DEF CoreInit, AnswersFollow
<1> QED BY <1>2, <1>3

(* ... and always, with one sender and identifiers that do not wrap. *)
LEMMA LapAlways ==
  ASSUME OneSender, OneLap
  PROVE  CoreSpec => []LapInv
<1>1. CoreInit => NumbersFollow /\ AnswersFollow
  BY LapInit
<1>2. LapInv /\ [CoreNext]_coreVars => NumbersFollow' /\ AnswersFollow'
  BY NumbersStep, AnswersStep
<1>3. LapInv <=> TypeOK /\ WakeupsBalance /\ ExpectsOwnID /\ NumbersFollow /\ AnswersFollow
  BY DEF LapInv
<1> QED BY <1>1, <1>2, <1>3, TypeCorrect, WakeupsCorrect, ExpectsOwnIDCorrect, PTL DEF CoreSpec

(* A sender that has been let go was let go for its own message: the       *)
(* server has it, or all its transmissions went unconfirmed - although the *)
(* flag that let it go carries no identifier.                              *)
THEOREM AnsweredCorrect == CoreSpec => []AnsweredForItself
<1>1. CASE OneSender /\ OneLap
  <2>1. LapInv => AnsweredForItself
    BY DEF LapInv, AnswersFollow, AnsweredForItself
  <2>2. CoreSpec => []LapInv
    BY <1>1, LapAlways
  <2> QED BY <2>1, <2>2, PTL
<1>2. CASE ~(OneSender /\ OneLap)
  <2>1. AnsweredForItself
    BY <1>2 DEF OneSender, OneLap, AnsweredForItself
  <2> QED BY <2>1, PTL
<1> QED BY <1>1, <1>2
-----------------------------------------------------------------------------
(* What the one sender waits for *)
LEMMA AwaitedIs ==
  ASSUME OneSender
  PROVE  /\ Waiting = {} => Awaited = 0
         /\ \A k \in Waiting : Awaited = caller[k].num
<1>1. \A k \in Waiting : k = CHOOSE j \in Waiting : TRUE
  <2> SUFFICES ASSUME NEW k \in Waiting PROVE k = CHOOSE j \in Waiting : TRUE
    OBVIOUS
  <2>1. (CHOOSE j \in Waiting : TRUE) \in Waiting
    OBVIOUS
  <2> QED BY <2>1, Alone DEF Waiting
<1> QED BY <1>1 DEF Awaited

(* A step of a confirm thread delivers the awaited message, or gives it    *)
(* up, or is nothing to the sender.                                        *)
LEMMA ConfStepAbstract ==
  ASSUME OneSender, OneLap, LapInv, NEW c \in ConfThreads, ConfStep(c)
  PROVE  [Abstract!SWNext]_(Abstract!swVars)
<1>1. /\ Pending = {c} /\ confirmReceived = FALSE /\ Waiting' = Waiting
      /\ conf[c].num = sends /\ sends > 0 /\ sends' = sends /\ caller' = caller
  BY OnlyThread, ConfStepFrame DEF LapInv
<1>2. Awaited' = Awaited
  BY <1>1 DEF Awaited
<1>3. Awaited = sends
  <2>1. Waiting # {}
    BY <1>1, OneOutstanding DEF LapInv
  <2> QED BY <2>1, AwaitedIs DEF LapInv, NumbersFollow
<1>4. CASE UNCHANGED << received, failed >>
  BY <1>1, <1>2, <1>4 DEF Abstract!swVars
<1>5. CASE received' = received \cup {sends} /\ failed' = failed /\ sends \notin failed
  <2>1. Abstract!Deliver
    BY <1>1, <1>2, <1>3, <1>5 DEF Abstract!Deliver
  <2> QED BY <2>1 DEF Abstract!SWNext
<1>6. CASE failed' = failed \cup {sends} /\ received' = received
  <2>1. Abstract!Lose
    BY <1>1, <1>2, <1>3, <1>6 DEF Abstract!Lose
  <2> QED BY <2>1 DEF Abstract!SWNext
<1>7. CASE Transmit(c)
  <2>1. sends \notin failed
    BY <1>1, <1>7 DEF Transmit, LapInv, AnswersFollow
  <2>2. failed' = failed /\ (received' = received \cup {sends} \/ received' = received)
    BY <1>1, <1>7 DEF Transmit
  <2> QED BY <2>1, <2>2, <1>4, <1>5
<1>8. CASE GiveUp(c)
  BY <1>1, <1>6, <1>8 DEF GiveUp
<1>9. CASE ~Transmit(c) /\ ~GiveUp(c)
  BY <1>4, <1>9 DEF ConfStep, ReadExpected, LockAndCount, Look, Confirmed, TimeOut, CloseAfterLoss
<1> QED BY <1>7, <1>8, <1>9

(* Every step of the program is a step of the abstract sender, or none. *)
LEMMA StepAbstract ==
  ASSUME OneSender, OneLap, LapInv, [CoreNext]_coreVars
  PROVE  [Abstract!SWNext]_(Abstract!swVars)
<1>t. caller \in [Callers -> CallerStates] /\ sends \in Nat
  BY DEF LapInv, TypeOK, Nums
<1>1. ASSUME NEW k \in Callers, NEW c \in ConfThreads,
             Send(k, c) \/ SendWhileHolding(k, c)
      PROVE  Abstract!Submit
  <2>1. Waiting = {} /\ Waiting' = {k} /\ caller'[k].num = sends + 1
    BY <1>1, LapStart
  <2>2. Awaited = 0
    BY <2>1, AwaitedIs
  <2>3. Awaited' = sends + 1
    <3>1. (CHOOSE j \in Waiting' : TRUE) = k
      BY <2>1
    <3> QED BY <2>1, <3>1 DEF Awaited
  <2>4. sends < MaxSends /\ sends' = sends + 1 /\ UNCHANGED << received, failed >>
    BY <1>1 DEF Send, SendWhileHolding, StartConfirmThread
  <2> QED BY <2>2, <2>3, <2>4 DEF Abstract!Submit
<1>2. ASSUME NEW k \in Callers, Wake(k) PROVE Abstract!Resolve
  <2>1. k \in Waiting /\ caller[k].state = "waiting" /\ confirmReceived = TRUE
    BY <1>2 DEF Wake, Waiting, LapInv, TypeOK
  <2>2. Awaited \in received \cup failed
    BY <2>1, AwaitedIs DEF LapInv, AnswersFollow
  <2>3. Waiting' = {}
    BY <1>2, <1>t, Alone DEF Wake, Waiting
  <2>4. Awaited' = 0
    BY <2>3 DEF Awaited
  <2> QED BY <1>2, <2>2, <2>4 DEF Wake, Abstract!Resolve
<1>3. ASSUME Waiting' = Waiting, \A k \in Waiting : caller'[k] = caller[k],
             UNCHANGED << sends, received, failed >>
      PROVE  UNCHANGED Abstract!swVars
  <2>1. Awaited' = Awaited
    <3>1. CASE Waiting = {}
      BY <1>3, <3>1 DEF Awaited
    <3>2. CASE Waiting # {}
      <4>1. (CHOOSE k \in Waiting : TRUE) \in Waiting
        BY <3>2
      <4> QED BY <1>3, <3>2, <4>1 DEF Awaited
    <3> QED BY <3>1, <3>2
  <2> QED BY <1>3, <2>1 DEF Abstract!swVars
<1>4. ASSUME NEW k \in Callers, Unlock(k) PROVE UNCHANGED Abstract!swVars
  <2>1. Waiting' = Waiting /\ \A j \in Waiting : caller'[j] = caller[j]
    BY <1>4, <1>t DEF Unlock, Waiting
  <2> QED BY <1>3, <1>4, <2>1 DEF Unlock
<1>5. CASE UNCHANGED << sends, caller, received, failed >>
  BY <1>3, <1>5 DEF Waiting
<1>6. ASSUME NEW id \in WireIDs, ReceiveConfirm(id) PROVE UNCHANGED Abstract!swVars
  BY <1>3, <1>6 DEF ReceiveConfirm, Waiting
<1>7. CASE ClearBuffer \/ SendBye \/ StopNetwork \/ UNCHANGED coreVars
  BY <1>5, <1>7 DEF ClearBuffer, SendBye, StopNetwork, coreVars
<1>8. ASSUME NEW c \in ConfThreads, ConfStep(c) PROVE [Abstract!SWNext]_(Abstract!swVars)
  BY <1>8, ConfStepAbstract
<1> QED BY <1>1, <1>2, <1>4, <1>6, <1>7, <1>8 DEF CoreNext, Abstract!SWNext

(* With one sender and identifiers that do not wrap, confirmThread and its *)
(* caller are a stop-and-wait sender, for any number of messages and       *)
(* transmissions, with a network that loses, delays, reorders and repeats. *)
THEOREM StopAndWaitCorrect ==
  ASSUME OneSender, OneLap
  PROVE  CoreSpec => ImplementsStopAndWait
<1>1. CoreInit => Abstract!SWInit
  <2> SUFFICES ASSUME CoreInit PROVE Abstract!SWInit
    OBVIOUS
  <2>1. Waiting = {}
    BY DEF CoreInit, Waiting
  <2>2. Awaited = 0
    BY <2>1 DEF Awaited
  <2> QED BY <2>2 DEF CoreInit, Abstract!SWInit
<1>2. LapInv /\ [CoreNext]_coreVars => [Abstract!SWNext]_(Abstract!swVars)
  BY StepAbstract
<1>3. CoreSpec => []LapInv
  BY LapAlways
<1> QED BY <1>1, <1>2, <1>3, PTL DEF CoreSpec, ImplementsStopAndWait, Abstract!SWSpec
-----------------------------------------------------------------------------
(* A sender that waits can always be helped: either the flag is up and the *)
(* mutex free for it, or a confirm thread is alive whose next step nothing *)
(* holds up, the mutex being free if that is what it needs.                *)
WaitGoesOn ==
  OneSender =>
    \A k \in Callers : caller[k].state = "waiting" =>
      IF confirmReceived
      THEN confirmMutex = NoThread
      ELSE \E c \in Pending : conf[c].pc = "locking" => confirmMutex = NoThread

(* No wake-up is lost: there is a flag or a thread for the one that waits. *)
WakeupComes == OneSender /\ Waiting # {} => confirmReceived \/ Pending # {}

(* Every step keeps the wake-up of the one that waits. *)
LEMMA WakeupStep == TypeOK /\ WakeupComes /\ [CoreNext]_coreVars => WakeupComes'
<1> SUFFICES ASSUME TypeOK, WakeupComes, [CoreNext]_coreVars, OneSender, Waiting' # {}
             PROVE  confirmReceived' \/ Pending' # {}
  BY DEF WakeupComes, OneSender
<1>t. /\ caller \in [Callers -> CallerStates] /\ conf \in [ConfThreads -> ConfStates]
      /\ Waiting # {} => confirmReceived \/ Pending # {}
  BY DEF TypeOK, WakeupComes
<1>1. ASSUME NEW k \in Callers, NEW c \in ConfThreads, Send(k, c) \/ SendWhileHolding(k, c)
      PROVE  Pending' # {}
  <2>1. StartConfirmThread(c)
    BY <1>1 DEF Send, SendWhileHolding
  <2>2. c \in Pending'
    BY <2>1, <1>t DEF StartConfirmThread, Pending, IdleConf
  <2> QED BY <2>2
<1>2. ASSUME NEW c \in ConfThreads, Confirmed(c) \/ CloseAfterLoss(c)
      PROVE  confirmReceived'
  BY <1>2 DEF Confirmed, CloseAfterLoss
<1>3. ASSUME NEW c \in ConfThreads,
             \/ ReadExpected(c) \/ LockAndCount(c) \/ Transmit(c) \/ Look(c)
             \/ TimeOut(c) \/ GiveUp(c)
      PROVE  Pending' # {}
  <2>1. conf'[c].pc # "idle"
    <3>1. CASE ReadExpected(c) BY <3>1, <1>t DEF ReadExpected
    <3>2. CASE LockAndCount(c) BY <3>2, <1>t DEF LockAndCount
    <3>3. CASE Transmit(c)     BY <3>3, <1>t DEF Transmit
    <3>4. CASE Look(c)         BY <3>4, <1>t DEF Look
    <3>5. CASE TimeOut(c)      BY <3>5, <1>t DEF TimeOut
    <3>6. CASE GiveUp(c)       BY <3>6, <1>t DEF GiveUp
    <3> QED BY <1>3, <3>1, <3>2, <3>3, <3>4, <3>5, <3>6
  <2>2. c \in Pending'
    BY <2>1 DEF Pending
  <2> QED BY <2>2
<1>4. ASSUME NEW k \in Callers, Wake(k) PROVE FALSE
  <2>1. caller'[k].state = "holding" /\ \A j \in Callers : j = k
    BY <1>4, <1>t, Alone DEF Wake
  <2> QED BY <2>1 DEF Waiting
<1>5. ASSUME NEW k \in Callers, Unlock(k) PROVE FALSE
  <2>1. caller'[k].state = "running" /\ \A j \in Callers : j = k
    BY <1>5, <1>t, Alone DEF Unlock
  <2> QED BY <2>1 DEF Waiting
<1>6. CASE UNCHANGED << caller, conf, confirmReceived >>
  BY <1>6, <1>t DEF Waiting, Pending
<1>7. ASSUME NEW id \in WireIDs, ReceiveConfirm(id)
      PROVE  confirmReceived' \/ Pending' # {}
  BY <1>6, <1>7 DEF ReceiveConfirm
<1>8. CASE ClearBuffer \/ SendBye \/ StopNetwork \/ UNCHANGED coreVars
  BY <1>6, <1>8 DEF ClearBuffer, SendBye, StopNetwork, coreVars
<1> QED BY <1>1, <1>2, <1>3, <1>4, <1>5, <1>7, <1>8 DEF CoreNext, ConfStep

(* With one sender no wait is ever without somebody to end it, and the one *)
(* to end it is not held up: the safety part of WaitEnds.  Together with   *)
(* StepsRunOut, threads that are scheduled end every wait.                 *)
THEOREM WaitGoesOnCorrect == CoreSpec => []WaitGoesOn
<1>1. CoreInit => WakeupComes
  BY DEF CoreInit, WakeupComes, Waiting
<1>2. TypeOK /\ WakeupComes /\ [CoreNext]_coreVars => WakeupComes'
  BY WakeupStep
<1>3. TypeOK /\ MutexOwned /\ WakeupsBalance /\ WakeupComes => WaitGoesOn
  <2> SUFFICES ASSUME TypeOK, MutexOwned, WakeupsBalance, WakeupComes, OneSender,
                      NEW k \in Callers, caller[k].state = "waiting"
               PROVE  IF confirmReceived
                      THEN confirmMutex = NoThread
                      ELSE \E c \in Pending : conf[c].pc = "locking" => confirmMutex = NoThread
    BY DEF WaitGoesOn
  <2>1. Waiting # {}
    BY DEF Waiting
  <2>2. \A j \in Callers : confirmMutex # j
    BY Alone DEF MutexOwned
  <2>3. \A c \in ConfThreads : confirmMutex = c => c \in Pending /\ conf[c].pc # "locking"
    BY DEF MutexOwned, Pending
  <2>4. confirmMutex \in Callers \cup ConfThreads \cup {NoThread}
    BY DEF TypeOK, Owners
  <2>5. CASE confirmReceived
    <3>1. Pending = {}
      BY <2>5, OneOutstanding
    <3> QED BY <2>2, <2>3, <2>4, <2>5, <3>1
  <2>6. CASE ~ confirmReceived
    <3>1. PICK c \in Pending : TRUE
      BY <2>1, <2>6 DEF WakeupComes
    <3>2. c \in ConfThreads /\ \A d \in Pending : d = c
      BY <3>1, OneOutstanding DEF Pending
    <3>3. conf[c].pc = "locking" => confirmMutex = NoThread
      BY <2>2, <2>3, <2>4, <3>2
    <3> QED BY <2>6, <3>1, <3>3
  <2> QED BY <2>5, <2>6
<1> QED BY <1>1, <1>2, <1>3, TypeCorrect, MutexCorrect, WakeupsCorrect, PTL DEF CoreSpec
=============================================================================
