----------------------------- MODULE StdinFacts -----------------------------
(***************************************************************************)
(* Facts about the stdin thread and the input buffer, for the proofs about *)
(* the clients over UDP and over TCP.                                      *)
(***************************************************************************)
EXTENDS StdinReader, SequenceTheorems, TLAPS

(* The thread starts with nothing read. *)
LEMMA InputInitType == InputInit => InputTypeOK
<1> SUFFICES ASSUME InputInit PROVE InputTypeOK
  OBVIOUS
<1>1. typed \in 0..MaxLines
  <2>1. MaxLines \in Nat
    BY InputAssumption DEF InputAssumption
  <2>2. typed = 0
    BY DEF InputInit
  <2> QED BY <2>1, <2>2
<1>2. lines \in Seq(Commands)
  BY EmptySeq DEF InputInit
<1>3. stdinEof \in BOOLEAN /\ lastLine \in Commands \cup {""} /\ stdin \in {"run", "done"}
  BY DEF InputInit
<1> QED BY <1>1, <1>2, <1>3 DEF InputTypeOK

(* What it reads are lines, and it reads no more of them than the bound. *)
LEMMA ReadingType ==
  ASSUME InputTypeOK,
         (\E line \in Commands : ReadLine(line)) \/ ReadAgain \/ ReadEof \/ StdinStop
  PROVE  InputTypeOK'
<1>0. /\ lines \in Seq(Commands) /\ stdinEof \in BOOLEAN
      /\ lastLine \in Commands \cup {""} /\ stdin \in {"run", "done"}
  BY DEF InputTypeOK
<1>n. typed \in 0..MaxLines /\ MaxLines \in Nat
  BY InputAssumption DEF InputTypeOK, InputAssumption
<1>1. ASSUME NEW line \in Commands, ReadLine(line) PROVE InputTypeOK'
  <2>1. typed < MaxLines /\ typed' = typed + 1 /\ lines' = Append(lines, line) /\ stdin' = stdin
    BY <1>1 DEF ReadLine
  <2>2. lines' \in Seq(Commands)
    BY <1>0, <2>1, AppendProperties
  <2>3. typed' \in 0..MaxLines
    BY <1>n, <2>1
  <2>4. stdinEof' \in BOOLEAN
    BY <1>1 DEF ReadLine
  <2>5. lastLine' \in Commands \cup {""}
    BY <1>1 DEF ReadLine
  <2> QED BY <1>0, <2>1, <2>2, <2>3, <2>4, <2>5 DEF InputTypeOK
<1>2. ASSUME ReadAgain PROVE InputTypeOK'
  <2>1. /\ lines' = Append(lines, lastLine) /\ lastLine # ""
        /\ UNCHANGED << stdinEof, lastLine, stdin >>
    BY <1>2 DEF ReadAgain
  <2>2. lines' \in Seq(Commands)
    BY <1>0, <2>1, AppendProperties
  <2>3. typed' = typed \/ (typed < MaxLines /\ typed' = typed + 1)
    BY <1>2 DEF ReadAgain
  <2>4. typed' \in 0..MaxLines
    BY <1>n, <2>3
  <2> QED BY <1>0, <2>1, <2>2, <2>4 DEF InputTypeOK
<1>3. ASSUME ReadEof \/ StdinStop PROVE InputTypeOK'
  BY <1>0, <1>n, <1>3 DEF ReadEof, StdinStop, InputTypeOK
<1> QED BY <1>1, <1>2, <1>3

(* Taking the first line leaves lines. *)
LEMMA RetrieveType ==
  ASSUME InputTypeOK, lines # << >>, RetrieveLine
  PROVE  InputTypeOK'
BY HeadTailProperties DEF InputTypeOK, RetrieveLine

(* Every other thread leaves them alone. *)
LEMMA InputKept == InputTypeOK /\ UNCHANGED inputVars => InputTypeOK'
BY DEF InputTypeOK, inputVars
=============================================================================
