---------------------------- MODULE StdinReader ----------------------------
(***************************************************************************)
(* TcpUdp::stdinReaderThread and the queue of class InputBuffer it fills,  *)
(* the same for UDP and TCP.  A line is abstracted to the kind of command  *)
(* that parseLine makes of it (module InputText has parseLine itself).     *)
(* The client adds when the thread goes on: while the network flag is up.  *)
(* Operators marked "slip" are wrong variants of the one that follows.     *)
(***************************************************************************)
EXTENDS Naturals, Sequences

CONSTANTS
  Commands,  \* kinds of lines the user types
  MaxLines,  \* bound on the lines typed, and on those waiting
  Endless,   \* may the last line be repeated beyond that bound?
  UserEnds   \* how the user may end the session: end of input, SIGINT

ASSUME InputAssumption ==
  /\ Commands \subseteq {"AUTH", "JOIN", "MSG", "RENAME", "NONE"}
  /\ UserEnds \subseteq {"EOF", "SIGINT"}
  /\ MaxLines \in Nat
  /\ Endless \in BOOLEAN

VARIABLES
  lines,     \* InputBuffer::buffer
  typed,     \* lines typed so far
  stdinEof,  \* cin.eof()
  lastLine,  \* what the thread's "line" holds when getline fails
  stdin      \* place of the stdin thread

inputVars == << lines, typed, stdinEof, lastLine, stdin >>

InputTypeOK ==
  /\ lines \in Seq(Commands) /\ typed \in 0..MaxLines
  /\ stdinEof \in BOOLEAN /\ lastLine \in Commands \cup {""} /\ stdin \in {"run", "done"}

InputInit ==
  lines = << >> /\ typed = 0 /\ stdinEof = FALSE /\ lastLine = "" /\ stdin = "run"
-----------------------------------------------------------------------------
(* getline yields a line, or a last line without a newline, which also     *)
(* reaches the end of file.                                                *)
ReadLine(line) ==
  /\ stdin = "run" /\ ~stdinEof /\ typed < MaxLines
  /\ lines' = Append(lines, line)
  /\ typed' = typed + 1
  /\ stdinEof' \in BOOLEAN /\ (stdinEof' => "EOF" \in UserEnds)
  /\ lastLine' = IF stdinEof' THEN line ELSE ""
  /\ UNCHANGED stdin

(* After the end of file getline fails and leaves "line" as it was; what   *)
(* is not empty is added once more.                                        *)
ReadAgain ==
  /\ stdin = "run" /\ stdinEof /\ lastLine # ""
  /\ IF Endless THEN Len(lines) < MaxLines ELSE typed < MaxLines
  /\ lines' = Append(lines, lastLine)
  /\ typed' = IF Endless THEN typed ELSE typed + 1
  /\ UNCHANGED << stdinEof, lastLine, stdin >>

(* An end of file after a newline: getline empties "line". *)
ReadEof ==
  /\ "EOF" \in UserEnds
  /\ stdin = "run" /\ ~stdinEof
  /\ stdinEof' = TRUE
  /\ UNCHANGED << lines, typed, lastLine, stdin >>

(* slip: a blocking read, which only a line or the end of input ends *)
StdinStopBlocking ==
  /\ stdin = "run" /\ stdinEof
  /\ stdin' = "done"
  /\ UNCHANGED << lines, typed, stdinEof, lastLine >>

(* The network flag is down: select returns within 100 ms, and the loop    *)
(* ends.                                                                   *)
StdinStop ==
  /\ stdin = "run"
  /\ stdin' = "done"
  /\ UNCHANGED << lines, typed, stdinEof, lastLine >>
-----------------------------------------------------------------------------
(* isEmpty and retrieveLine, called by the network thread *)
FirstLine(line) == lines # << >> /\ Head(lines) = line

RetrieveLine ==
  /\ lines' = Tail(lines)
  /\ UNCHANGED << typed, stdinEof, lastLine, stdin >>
=============================================================================
