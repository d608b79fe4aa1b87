# A specification of the IPK chat client

TLA+ modules, TLC configurations and TLAPS proofs for the IPK24-CHAT client in
`src/`: a command-line chat client in C++ that speaks one protocol over TCP or,
with its own confirmations and retransmissions, over UDP. The specifications are
translated from the code; line numbers below are those of `src/`.

## 1. The system

### Components

| component | code | state | operations |
|---|---|---|---|
| confirmed sending (UDP) | `tcp_udp.cpp` 66-185, 1026 | `SentID`, `confirmMutex`, `confirmReceived`, `confirmCondition`, confirm threads | `sendMessageUDP`, `confirmThread`, `setReceived`, the wait of each caller |
| network thread | `tcp_udp.cpp` 287-1025 | `CurrentStatus` (START, AUTH, OPEN), `what_to_do`, pointers to the datagrams looked up | takes typed lines; sends AUTH, JOIN, MSG; looks for REPLY, ERR, BYE in the response buffer |
| receiver thread, UDP | `tcp_udp.cpp` 205-241, 1032-1140 | the datagram at hand | buffers CONFIRM, REPLY, ERR, BYE; confirms and prints MSG; reports what is invalid with an ERR |
| receiver thread, TCP | `tcp_udp.cpp` 187-203, 1198-1250 | the receive buffer | takes what one `recv` returns for one message: prints MSG, obeys ERR, buffers REPLY, reports what it does not know |
| stdin thread, signal thread | `tcp_udp.cpp` 243-285, 1158-1196 | none of their own | `select` and `getline`; SIGINT ends the session and says BYE |
| response buffer | `response_buffer.*` | a vector of datagrams, `bufferMutex` | add, look up by type or by bytes, remove, clear |
| input buffer | `input_process.*` | a queue of lines, `is_network_active` | `addLine`, `retrieveLine`, `isEmpty`, `setNetwork`, `getNetwork` |
| parsing and building | `input_process.*` | display name | `parseLine`, validators, message builders, `shortToBytes` |
| command line | `parse_args.*` | options | parses and defaults |
| set-up | `connect.cpp` | socket | resolves, sets options, starts `Input` |

### Interactions

`TcpUdp::Input` starts four threads. They share one `InputBuffer` (lines from
stdin to the network thread, and the flag that ends everything), one
`ResponseBuffer` (datagrams from the receiver to the network thread and to the
confirm threads), `SentID`, and one mutex, flag and condition variable that
serve every confirmation. A message over UDP is sent by a detached confirm
thread, which polls the response buffer for the CONFIRM, retransmits, gives up
with a BYE after `-r` transmissions, and always ends by setting the flag. The
caller waits for the flag and keeps `confirmMutex` while it looks at what the
server answered. `Input` joins signal, stdin and receiver; the network thread is
detached and dies with the process.

### What is hard

* One flag serves several waiters, and the identifier a confirm thread expects is
  read from a shared counter in the new thread, not handed over with the message.
* CONFIRMs are lost, late, duplicated; retransmissions make more of them.
* REPLYs wait in the buffer until a command looks for one; nothing compares
  their reference with the request.
* Over UDP, ERR and BYE are only noticed by a command that looks for them.
* The session can end from five places (end of input, SIGINT, loss or timeout,
  ERR, BYE) while every thread is somewhere else.
* `handleErrFromServerUDP` locks the mutex its caller may own.
* `getline` at the end of file leaves the last line as it was.
* Signed characters and 16-bit identifiers; casts of the options.
* TCP: a `recv` is taken as one message whatever the stream delivered; three
  kinds of BYE leave the wait for a response in three different ways; a send that
  fails ends the process.
* Keywords of the TCP protocol inside names and texts.

### What makes the parts correct

* Confirmed sending: exclusion; with one sender, no wake-up left over for the next
  message, each message confirmed for itself, and every wait ended. (With two the
  code keeps none of the three.)
* Both clients: they keep the session of `ChatSession`. The client's idea of the
  session is the server's; nothing but AUTH and ERR goes out before
  authentication; a REPLY is taken for its request; an ERR ends the session; a
  closed session has said BYE and ends the process; so does the end of input.
* Identifiers: they survive the way into a datagram and back.
* Response buffer: a lookup returns the oldest datagram of a type; removal
  removes what was looked up. (Both are what the session properties rest on.)
* Texts: what a user types is what other users see, and what is accepted on one
  side is accepted on the other - with the exceptions that the properties name.
* Options: what is asked for is what the members hold, if it fits.

## 2. Modules

```
   StopAndWait      (abstract)          ChatSession   (abstract)
       ^ implements                       ^ implements      ^ implements
   ConfirmedSend  <-- extends --  UdpClient              TcpClient
                                    |  extends              |  extends
                                    +--> StdinReader  <-----+
                                    +--> ResponseBuffer <---+
                                    +--> UdpWire

   InputText, ParseArgs, UdpWire  <-- extends --  Conversions

   proofs:  ConfirmedSendProofs <- OneSenderProofs <- UdpClientProofs <- UdpSessionProofs
            SequenceFacts, StdinFacts  <- TcpClientProofs, UdpSessionProofs
            SequenceFacts  <- ConversionProofs
```

`MCConfirmedSend`, `MCUdpClient`, `MCTcpClient` and `MCConversions` instantiate the modules for
TLC. Operators marked *slip* in a comment are wrong variants of the action or
operator that follows them (a dropped guard, a forgotten reset, an unmasked
byte): none is part of a specification, each is a bug that a property is known
to detect.

**ConfirmedSend.** `caller[k]` says where a sending thread is: `running`,
`waiting` (at `confirmCondition.wait`), `holding` (woken, owning the mutex) or
`stuck` (locking the mutex it owns). `conf[c]` is a confirm thread: `started`
(the lambda of `sendMessageUDP` has not read `SentID` yet), `locking`, `sending`,
`checking` and `looked` (the loop of `confirmThread`: between a transmission and
the first look into the buffer, and after a look that found nothing), `closing`
(the BYE after the last transmission has gone out). `num` numbers messages so
that properties can speak of *the* message; the code knows only identifiers.
`Send` is the call of `sendMessageUDP` by a thread that then waits;
`ReadExpected`, `LockAndCount`, `Transmit`, `Look`, `Confirmed`, `TimeOut`,
`GiveUp` and `CloseAfterLoss` are the confirm thread; a try times out only after
at least one look, unless `-d` is zero; `Wake` and `Unlock` the caller;
`ReceiveConfirm`, `ClearBuffer`, `SendBye` and `StopNetwork` what the other
threads do to this state. The server and the network are in `Transmit` (the
datagram arrives and is answered, or is lost) and `inflight` (a CONFIRM is taken
in any order, never, or - with `Duplicates` - again).

**StdinReader** is the stdin thread and the queue it fills, shared by both
clients: `lines` (the queue), `lastLine` (what a failing `getline` leaves in
`line`), `stdinEof` (`cin.eof()`). `ReadLine`, `ReadAgain` and `ReadEof` are the
three outcomes of `getline`.

**UdpClient** adds `net`, `recv`, `sig` (the place of each thread), `status`,
`todo` (`what_to_do`), `heldErr` and `heldBye` (the pointers of the JOIN branch),
`responses`, and what the properties need to remember: `acks` (the two identifier
bytes of each CONFIRM sent), `requests` (the kind of each message), `answers`
(which REPLY was taken for which request), `made` and `fromServer` (datagrams the
server made, copies under way; the server numbers them modulo 2^16). Every action
that sends is conjoined with an action of `ConfirmedSend`; the property
`CoreSteps` says that nothing in the client breaks its rules.

**TcpClient** has the same threads over a stream. `stream` holds what the client
has not received, three pieces to a message: the first ends inside the first
word, the second inside the content, the third is the rest with the line end.
`Take(n)` is one `recv` that returns the first `n` pieces, which the code takes
for one message whatever they are: `Typed` says whether it knows the first word,
`Parsed` whether `parseMSG`, `parseERR` or `parseRespondAuth` accept it, `Content`
whether `extractMessageContent` finds something valid - in the last message of
the run, not the first. A run that is not typed is answered by ERR and BYE
(`TakeInvalid`), an ERR ends the session (`TakeErr`), a REPLY and an invalid ERR
go to the buffer (`TakeResponse`), a MSG or a BYE changes nothing (`TakeUnread`).
The network thread sends (`LineAuth`, `LineMsg`, `LineJoin`) and polls
(`NetReply`, `NetErr`, `NetPoll`) until a response is judged (`JudgeAuth`,
`JudgeJoin`) or the time is over (`NetTimeout`, which lowers the flag, and
`NetBye` after it). The three `bye` places are the three ways out: `bye` leaves
only the wait, `byeBreak` the loop as well, `byeTimeout` finds the flag down.
`SendFails` is a send, of any thread, that the connection does not take: the socket
does not block and its buffer may be full, or the server has closed the
connection; `exit(3)` or SIGPIPE end the process. `goodbye` and `verdicts` remember that a BYE was sent
and what the server has answered.

**ChatSession** is the promise of both clients: `Login` before anything else, one
verdict per question, the phase follows verdicts on the latest AUTH only
(`Granted`, `Refused`), or also on the latest JOIN (`JoinRefused`, where
`JoinRefusalLogsOut`: over TCP a refused JOIN puts the client back to START, over
UDP it does not - the two transports disagree, and the constant says so). The
promise ends with a BYE (`over`): over TCP a BYE may leave only the wait, and the
code goes on sending after it. Over UDP it is never over: even what is done after
a BYE keeps to it.

**ResponseBuffer** holds the operations of the class on a sequence. `Without` is
written by the places kept, not as a filter, so that proofs can reason about it.
**UdpWire** has the conversions of identifiers between `short`, bytes and `char`.

**InputText** is class `InputProcess`: `parseLine`, the validators, the builders
of both transports, `upperTCP` and the readers of received texts, over words. The
vocabulary is a parameter (`Words`), and so is what the code asks of characters:
length (`Size`), `Printable`, `IdChars`, what is left of an identity without its
`discord.` (`Remains`), and what the replacement of keywords makes of a word, as
a whole between two spaces (`Between`), at its end before a space (`AtEnd`) or
anywhere in it (`Anywhere`). `CapitalsAssumption` says what any such vocabulary
satisfies: capitals keep length and printability, and the three kinds of keyword
do not contain each other.

**ParseArgs** is the loop of `parseArguments`, one option of `getopt` at a time
(`TakeProtocol`, `TakeHost`, `TakeNumber`, `TakeWrong`), with the casts and the
exits of the program, and the check behind the loop (`EndOptions`).

**Conversions** composes the two with `UdpWire`: a behaviour chooses one input -
an identifier, a message of a server, a typed line, a command line - and the
properties relate it to what the client makes of it.

### Abstractions

Both clients:

* A step ends where another thread can see or disturb what the thread does.
  `sendingMutex` and the buffer mutexes protect single calls and are folded into
  the step of the call. `addMessageToBuffer` takes no lock for UDP; it is one
  step all the same (section 6).
* The network thread reads the network flag, the emptiness of the queue and
  `cin.eof()` in one step; the user's terminal hands over whole lines, so that
  `getline` blocks only where it is not called (`select` comes first).
* What is shown to the user, the display name and `/help` change no other state
  and are left out of the clients; `InputText` has the texts.
* The server, the network, the user and SIGINT are external and do what they
  like within the bounds.

UDP:

* CONFIRMs are a set, not part of the sequence: they are looked up by their exact
  bytes, and a removal removes every copy.
* Text is `valid` (both `isValidDName` and `isValidContent` hold) or not.
* A pointer into the buffer that was freed when the receiver cleared it is read
  as valid or invalid, either way.
* A MSG that arrives before authentication is buffered and never looked for: it
  is taken and dropped.
* The branches for a datagram without a terminating zero byte are left out:
  `strchr` for the zero byte never returns a null pointer.
* A second lock of a `std::mutex` by its owner is undefined; with the pthread
  mutex of glibc it blocks for ever, and that is what `stuck` means.

TCP:

* The stream is cut inside the first word, inside the content, or between
  messages; a cut inside the words between (FROM, the name, IS, the result) is not
  modelled. Where it leaves words missing the code indexes its vector of words out
  of range; what happens then is undefined.
* A text is `good`, bad in its `first` word, bad in its `tail`, or begins with a
  space (`lead`): what `parse...` and `isValidContent` tell apart. One thing at
  most is wrong with a message, and a MSG is well formed, since an invalid one
  changes nothing but what is shown.
* `recv` and the look at the network flag before it are one step; what the server
  says once the flag is down is never received, and the server is silent then.

Texts and options:

* A text is the sequence of its words: single characters matter only as far as
  the parameters of `InputText` say. The vocabulary of the runs has the keywords
  in both spellings, words that contain one (`goodbye`, `ferr`), names and words
  of 21, 129 and 1401 characters, characters outside ASCII, identities with
  `discord.`, and the empty word (two spaces in a row).
* The texts of messages are lines that are no command: those `parseLine` makes a
  message of.
* `getopt` and `stoi` are external: what they deliver is given.

## 3. Runs

| run | what it checks | bounds, and why they are enough |
|---|---|---|
| `conversions` | `TypeOK`, `RoundTrip`, `NetworkConfirmsTheID`, `ReceiverConfirmWrongExactly`; `KeywordsAnyCase`, `RejectedExactly`, `ShownExactly`; `SentAsTyped`; `OptionsKept` | all 65536 identifiers; texts of up to 3 words behind a name that may be a keyword too (three keywords in a row and a word), lines of a command and up to 4 arguments (one too many), up to 4 options. The proofs hold for any vocabulary and any length |
| `udp_wire_signed` | `ReceiverConfirmsTheID` **is violated** (finding 1) | all 65536 identifiers |
| `auth_order` | `AuthAsDocumented` **is violated** (finding 2) | the lines of `conversions` |
| `confirm_one_caller` | `TypeOK`, `NoFlagLeft`, `ExpectsOwnID`, `AnsweredForItself`, refinement `ImplementsStopAndWait`, liveness `WaitEnds` | 1 caller, 2 confirm threads (only one is ever alive), 3 messages with different identifiers, 2 transmissions, duplicates, ERR under the mutex |
| `udp_sessions` | `NothingBeforeOpen`, `SessionsAgree`, `RepliesMatch`, `GoodbyeBeforeClose`, `CoreSteps`, refinement `ImplementsChatSession` | 3 lines (AUTH, then one more verdict or command, then one that meets its leftovers), ok and nok REPLYs, one ERR or BYE unasked, end of input at any time, with the last line terminated or not, one transmission: loss is one step away |
| `udp_live` | `GoodbyeBeforeClose`, liveness `AuthEnds`, `ErrNoticed`, `CloseExits` | 2 lines of any of the five kinds, ok REPLYs, one ERR, SIGINT at any time |
| `udp_malformed` | `ClientTypeOK`, `MutexOwned`, `WakeupsBalance`, `StuckIsSilent` | invalid names, contents, types and result bytes; both callers send - they are all the program has -, 2 confirm threads, 3 messages over 2 identifiers (they wrap, and a third message meets what the first two left), duplicate CONFIRMs |
| `tcp_sessions` | `TcpTypeOK`, `SessionsAgree`, `RepliesMatch`, `ByeBeforeExit`, refinement `ImplementsChatSession` | 2 commands (AUTH, JOIN, MSG and `/rename` in any order, so that the second meets what the first left), ok and nok REPLYs, one ERR or MSG at any moment, one defect in each message, every cut of the stream into the pieces of section 2, a connection closed at any moment. The proofs hold for any number of lines |
| `tcp_live` | `ByeBeforeExit`, liveness `ReplyWaitEnds`, `ErrEnds`, `CloseExits`, `EofExits` | 2 lines (AUTH, JOIN, or one that is passed over), one ERR or BYE, the same cuts, end of input and SIGINT at any moment |
| `udp_duplicates` | `RepliesMatch` **is violated** (finding 3) | two AUTHs, each REPLY may arrive twice |
| `udp_handle_err` | `HandleErrEnds` **is violated** (finding 4) | one AUTH, an invalid REPLY |
| `udp_eof` | `EofExits` **is violated** (finding 5) | AUTH without a newline at the end of input, a queue of at most 2 lines (`Endless`) |

A bound on what the user types, on what the server says and on the messages sent
makes every behaviour finite. `MaxSends` is never the reason why a client run
stops: the lines, and at most one ERR, ask for fewer messages.

`Endless` chooses how the repeated last line is bounded: by the number of lines
read in all (`MaxLines`, every behaviour finite), or by the length of the queue
only, with no end to the repetitions.

`CHECK_DEADLOCK FALSE` stands in the `ConfirmedSend` run, where the system stops
once `MaxSends` messages are through, and in the two UDP runs with malformed
datagrams, where the network thread may lock itself out, or a thread whose wake-up
was lost wait for ever, and leave nothing to do. In the other runs the only state
without a successor would be a defect: after `Exit` the specification stutters
explicitly (`Ended`).

`SYMMETRY` exchanges confirm threads, only in runs without liveness properties.

### Fairness

`FairCoreSpec`: each confirm thread that can go on does, and so does a caller
that can wake up. The threads belong to a preemptive scheduler, and a confirm
thread neither waits for anything but the mutex nor loops for ever (its tries are
counted). `FairSpec` of both clients: weak fairness of each thread as a whole -
the network thread, the receiver, the last steps of stdin and signal thread (for
stdin also the repeated last line, for which no user is needed), the joins - and
strong fairness of the timeout (`AuthTimeout`, `NetTimeout`), the expiry of a
clock that runs however often the thread polls in between (`tcp_udp.cpp` 599,
725). The receiver over TCP takes what is in the stream: `recv` polls without
blocking (`tcp_udp.cpp` 1270). Nothing is assumed of the user, SIGINT, the network or the server: no
message needs to arrive for `WaitEnds`, `AuthEnds`, `ErrNoticed`,
`ReplyWaitEnds`, `CloseExits` or `EofExits` to hold, and `ErrEnds` speaks of an
ERR that is already there.

## 4. What the runs show

The safety properties hold in every interleaving of the bounded instances, and
five statements of the repository do not hold of the code.

1. `udp_wire_signed`: the receiver thread reads a datagram's identifier from
   signed characters; when the low byte is 128 or more the CONFIRM carries high
   byte FF. `ReceiverConfirmWrongExactly` says precisely for which identifiers;
   the network thread, which uses unsigned characters, is right for all.
2. `auth_order`: `src/README.md` 49 documents `/auth Username DisplayName Secret`;
   the code takes the secret second and the display name third, as its help text
   says (`input_process.cpp` 301-302, 371). A user who follows the README sends the
   secret as the display name, which everybody sees. `SentAsTyped` is stated for
   the order of the help text.
3. `udp_duplicates`: a REPLY that arrives twice answers the next AUTH. Without
   duplicates the references match (`RepliesMatch` in `udp_sessions`, and a
   theorem).
4. `udp_handle_err`: the network thread reports an invalid datagram while it owns
   the mutex, locks itself out, and the session never ends. `CHANGELOG.md` lists
   a hang at shutdown "in some cases" as known and not fixed; this is one way
   into it.
5. `udp_eof`: a last line without a newline is queued again after every failed
   `getline`, so that the network thread need never see the empty queue at which
   it looks for the end of input. The end of input is missed in a second way when
   JOIN is among the commands: the wait for its REPLY has no time limit and does
   not look at `cin.eof()` (a hang that `CHANGELOG.md` lists as known). Over TCP
   the end of input is looked at after each command and the wait for a JOIN is
   limited, so that `EofExits`, stated for input that ends with a newline, holds
   there.

What holds, and is not obvious from the code:

* With one sender the identifier read late is always the right one
  (`ExpectsOwnID`), although nothing ties it to the message, because a sender that
  goes on leaves neither the flag up nor a confirm thread behind (`NoFlagLeft`).
  With two senders it is not, and a send while the other one waits may meet the
  other's flag: `WakeupsBalance` only counts. For instance A sends 1, B sends 2,
  the flag of 1 wakes B, the flag of 2 comes, and B's next message is let go at
  once. Over a second lap of the 65536 identifiers a duplicated CONFIRM of the
  first lap is taken for a new message, hence the condition `MaxSends <= IdModulus`
  of `AnsweredForItself`.
* With two senders a wake-up can also be lost. If the receiver thread reports an
  invalid datagram while the network thread waits for a confirmation of its own,
  and both confirm threads set the flag before either caller runs, only one of
  them goes on. When it is the network thread, the receiver waits for ever
  although the session is closed, and `main` waits for the receiver: a second way
  to violate `HandleErrEnds`, and into the hang of finding 4. TLC shows it when
  `UdpClientHandleErr.cfg` is given `ServerSays = {"BAD"}`, `MaxSaid = 1`,
  `Malformed = FALSE` and `ErrWhileHolding = FALSE`.
* No verdict is lost or taken for another request over either transport, although
  no reference is compared over UDP and TCP has none: a wait that ends without
  its REPLY ends the session. Over TCP there is one exception, an ERR whose text
  begins with a space in the wait for a JOIN: it leaves the wait with a BYE and
  the REPLY behind, hence the condition `~goodbye` of `RepliesMatch` and
  `SessionsAgree` there.
* Over TCP the process may end without a BYE in two ways, which
  `ByeBeforeExit` names: ended by a send that fails, or at the reply timeout,
  where `tcp_udp.cpp` 727 lowers the flag first and `main` may overtake the thread
  that is about to say BYE.
* An ERR or BYE of the server that is next in the stream ends the TCP client
  however `recv` cuts it (`ErrEnds`): as an ERR, as an unknown message, or in the
  pieces that follow it. An ERR or BYE that arrives in one `recv` behind another
  message is lost, and the property does not speak of it. A BYE alone in a `recv`
  keeps its line end, is no known word, and is answered by ERR and BYE.
* `ShownExactly`, `RejectedExactly` and `KeywordsAnyCase` characterise where a
  text is not shown as typed (keywords inside it, an " IS "), is dropped by the
  receiving client, or is not recognised (a sender named `is`).

One more statement does not hold and has no run, because nothing of the model
would be in it: the help text says that `/rename` sends a RENAME message to the
server and handles its REPLY (`input_process.cpp` 382-383). The code sends nothing
and only sets the local name; in the models a RENAME line changes no more than
where the network thread goes on.

## 5. What is proved

Every safety property that a run checks is also a theorem, for all values of the
constants; the assumptions are those that the modules state by name (the thread
sets are finite and disjoint, the bounds are natural numbers, the two callers are
the network and the receiver thread, and what is said of the vocabulary above)
and what each theorem says itself.

`ConfirmedSendProofs`, for any finite sets of callers and confirm threads, any
number of messages, identifiers, transmissions, and with or without duplicates
and errors:

* `TypeCorrect`, by an invariant that is inductive as it stands.
* `MutexCorrect` (`MutexOwned`), inductive with the types: the mutex changes hands
  only through its owner or when it is free.
* `WakeupsCorrect` (`WakeupsBalance`), by counting: a send adds one waiter and one
  thread, a thread that ends turns into the flag, a wake-up takes flag and waiter.
  It is a count, and bounds threads and wake-ups; it does not say for whom a flag
  is.
* `NoFlagLeftCorrect` (`NoFlagLeft`), what follows from the count where it is
  exact: when nobody waits, no flag is up and no confirm thread alive. With one
  sender this is so at every send.
* `SilentCorrect` (`StuckIsSilent`). Inductive with `NumsKnown` (no message is
  known before it is built): while a caller is stuck it owns the mutex, so no
  thread gets past its lock, and the message that got it stuck is new.
* `StepsRunOutCorrect`, the variant behind `WaitEnds`: `StepsLeft` bounds what a
  confirm thread still does for its message by `3 r + 4` steps, `r` being the
  transmissions allowed and the looks at the buffer within one timeout counted as
  one step. Every step of the thread makes it smaller (a transmission costs one of
  `r` and is followed by a look and a timeout), nobody else makes it larger.

`OneSenderProofs`, for one sender:

* `ExpectsOwnIDCorrect`, for any number of identifiers: by `WakeupsBalance` at
  most one confirm thread is alive for the one that waits, and none otherwise, so
  no other one moves `SentID` meanwhile.
* `AnsweredCorrect` and `StopAndWaitCorrect` (the refinement), as long as
  identifiers do not wrap (`OneLap`). Neither is inductive alone: `LapInv` adds
  that thread and sender are at the last message, that identifiers follow the
  numbers (`NumbersFollow`), and that every CONFIRM comes from a message that
  arrived (`AnswersFollow`). Without it a state with a CONFIRM from nowhere is
  allowed, from which the flag rises for a message that was lost.
* `WaitGoesOnCorrect` (`WaitGoesOn`): while a caller waits, either the flag is up
  and the mutex free for it, or a confirm thread is alive whose next step the mutex
  does not hold up. `WakeupComes` - a waiter has a flag or a thread - is inductive
  for one sender; with two, a flag set twice before either wakes up lets one of
  them wait for ever (section 4), which is why the theorem names the one sender. With
  `StepsRunOut` this is all of `WaitEnds` but the scheduling itself.

`UdpClientProofs`, for the whole UDP client, any input, server and network:

* `CoreStepsCorrect`: each step of the client is a step of `ConfirmedSend` or
  leaves it alone. Hence `ClientMutex`, `ClientNoFlagLeft`, `ClientSilent` and
  `ClientStepsRunOut`, with the receiver thread as a second sender. While one of
  the two waits, `ClientNoFlagLeft` promises nothing to the other.
* `GoodbyeCorrect` (`GoodbyeBeforeClose`), strengthened by `GoodbyeInv`: for each
  of the threads that can end the session, the places between its BYE and the
  end are places where a BYE has been sent.

`UdpSessionProofs`, the session over UDP. The steps of the client are first
reduced to what they can do to a session: three of the other threads and the
server (`Quiet`, `Arrives`, `Makes`) and five of the network thread (`Moves`,
`Asks`, `Drops`, `TakesVerdict`, `Reports`); all that follows argues over these
eight.

* `ClientTypeCorrect` (`ClientTypeOK`), with `MessagesNumbered`: what arrived at
  the server was sent.
* `NothingBeforeOpenCorrect`, for a network that may do anything. `NothingInv`
  adds that every REPLY answers an AUTH or a JOIN and that the buffer holds what
  the server made: a granting REPLY to a JOIN opens nothing new, because before
  the JOIN there was a granted AUTH.
* `SessionsAgreeCorrect`, `RepliesMatchCorrect` and `UdpSessionCorrect` (the
  refinement), where `MaxCopies = 1`: finding 3 is what happens otherwise. The
  invariant has two more parts. `OneCopy`: each question has at most one REPLY,
  which is on its way, in the buffer, or taken, once. `SessionInv`: between two
  commands every question has had its REPLY and it was taken; in a wait only the
  last question is open. The second is not inductive without the first - a
  second copy could be taken later -, nor is the agreement without the second:
  a REPLY left behind would answer the next AUTH.

`TcpClientProofs`, for the whole TCP client, any input, server and cut into the
pieces of section 2:

* `TcpTypeCorrect`; `ByeCorrect` (`ByeBeforeExit`), strengthened by `FlagDown`:
  who lowered the flag has said BYE or is about to.
* `RepliesCorrect`, `SessionsCorrect` and `TcpSessionCorrect` (the refinement),
  by `SessionInv`: as long as no BYE was said, requests, verdicts, the stream and
  the buffer agree (`Exchange`), between two commands no request is open and no
  REPLY is left (`Settled`), and in a wait only the request under way is
  (`OneOpen`). The stream matters: a REPLY lost behind another message leaves its
  wait, but only through a BYE.

`ConversionProofs`, for every vocabulary, and texts, lines and command lines of
any length:

* `TypesKept`, `IDsSurvive`, `NetworkConfirmsRight` and `ReceiverConfirmsWrong`,
  from what division by 256 does to the identifiers and to the negative numbers
  that a sign makes of them (`IDBytes`, `NegativeBytes`, `ReadSigned`).
* `KeywordsRecognised`, `TextsRejected` and `TextsShown`. `Matched`, the
  replacement of one keyword from left to right, is a recursive function: a
  spelling is matched if the word in front of it is not a spelling that was
  matched. `MatchedEveryOther` solves the recursion - it is matched exactly if an
  even number of spellings stands directly in front of it, `InFront` in the
  property. There is no induction theorem to cite, but a set of natural numbers
  has a least member (`NatMin`): at the least place where the two functions
  differ they agree one place before, so that they agree there. From this follow
  what `upperTCP` does to each word (`UpperWord`, `LeftAlone`), when a message is
  recognised (`FromRecognised`, `ReplyRecognised`), and which text comes out
  (`ShownText`).
* `LinesSentAsTyped`: whatever is behind a command, only an empty word at its end
  is lost when the line is split (`SplitLine`).
* `MembersAsAsked`, by the invariant `AllKept`: the members hold what the casts
  make of the last option of each letter. It is inductive because an option moves
  its own letter's last place only (`LatestAppended`). The final property follows
  since a number is kept by its cast exactly if it fits (`CastFits`).

`SequenceFacts` and `StdinFacts` have what these rest on: that sets of natural
numbers have a least member, what removing one place of a sequence, a lookup and
a removal in the buffer, and a step of the stdin thread do.

Checked by TLC only: liveness (`WaitEnds`, `AuthEnds`, `ErrNoticed`,
`ReplyWaitEnds`, `ErrEnds`, `CloseExits`, `EofExits`), which the proof system
does not handle under fairness; for `WaitEnds` the two facts its argument rests
on are proved.

## 6. Not modelled

* `connect.cpp`: name resolution, socket options and the start of `Input`, one
  after the other before any thread runs; and the functions that print buffers
  for debugging.
* The data race on the vector when `addMessageToBuffer` (UDP, no lock) meets a
  lookup: what a reader of a vector that is being reallocated sees is undefined,
  and no property could hold over it. The runs take the call for atomic.
* UDP: datagrams shorter than their format, `recvfrom` failing, a server that
  changes its port, or a second server.
* TCP: an ERR with words missing, and a cut behind or inside the words between the
  first and the text: most of these index out of range. (`recv` failing is the same as nothing received.)
* The time from a typed line to its reading: `select` looks at the descriptor,
  and lines that the C library has buffered wait for more input. `ReadLine` may
  wait for ever in the model, as the user may.
