--------------------------- MODULE ResponseBuffer ---------------------------
(***************************************************************************)
(* Class ResponseBuffer as operators on a sequence: the REPLY, ERR and BYE *)
(* messages received and not handled yet, oldest first, the same for UDP   *)
(* (messageBuffer) and TCP (messageBufferTCP, where the type is the first  *)
(* word and a lookup takes what it finds).                                 *)
(*                                                                         *)
(* A lookup asks for the oldest datagram of a type; datagrams of other     *)
(* types never matter to it.  CONFIRMs are looked up by their exact bytes  *)
(* and removed all at once: ConfirmedSend keeps them as a set.  Datagrams  *)
(* no lookup asks for (a MSG that came before authentication) are left     *)
(* out.  A datagram is a record with a field "type".                       *)
(***************************************************************************)
EXTENDS Naturals, Sequences, FiniteSets, SequencesExt

(* addMessageToBuffer(const char *, size_t) *)
AddMessage(buffer, d) == Append(buffer, d)

(* getMessageByIDFromBuffer.  Of its three looks the last one decides that *)
(* there is no such datagram.                                              *)
HasType(buffer, type) == \E d \in ToSet(buffer) : d.type = type

MessageByID(buffer, type) ==
  buffer[SelectInSeq(buffer, LAMBDA d : d.type = type)]

(* A slip of the next operator: a datagram handled is left in the buffer. *)
RemoveNothing(buffer, d) == {buffer}

(* The buffer without any copy of d: the messages at the other places, in  *)
(* their order                                                             *)
Without(buffer, d) ==
  LET others == {i \in DOMAIN buffer : buffer[i] # d}
      place(n) == CHOOSE i \in others : Cardinality(others \cap 1..i) = n
  IN  [n \in 1..Cardinality(others) |-> buffer[place(n)]]

(* removeMessageFromBuffer with a pointer that came out of the buffer.  It *)
(* frees the datagram and goes on comparing with the freed bytes, so that  *)
(* whether it still finds further copies is undefined: either the oldest   *)
(* copy is removed, or all.                                                *)
RemoveMessage(buffer, d) ==
  { RemoveFirst(buffer, d), Without(buffer, d) }

(* A slip of the next operator: the message found is left in the buffer. *)
TakenKept(buffer, type) == buffer

(* What getMessageFromBufferTCP leaves when it has found a message. *)
Taken(buffer, type) == RemoveFirst(buffer, MessageByID(buffer, type))
=============================================================================
