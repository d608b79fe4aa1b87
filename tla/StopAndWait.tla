---------------------------- MODULE StopAndWait ----------------------------
(***************************************************************************)
(* What confirmed sending promises to a program with one sender, as the    *)
(* headers of the client put it: "Send a message for UDP protocol (and     *)
(* receive confirm)".  One message at a time; the sender goes on only when *)
(* the server has got that very message, or when the message was given up. *)
(***************************************************************************)
EXTENDS Naturals

CONSTANT MaxSends  \* bound on the number of messages

VARIABLES
  count,      \* messages submitted so far: they are numbered 1, 2, ...
  current,    \* the message the sender waits for, 0 for none
  delivered,  \* messages the server has got
  lost        \* messages given up

swVars == << count, current, delivered, lost >>

SWInit == count = 0 /\ current = 0 /\ delivered = {} /\ lost = {}

Submit ==
  /\ current = 0
  /\ count < MaxSends
  /\ count' = count + 1
  /\ current' = count + 1
  /\ UNCHANGED << delivered, lost >>

Deliver ==
  /\ current # 0
  /\ current \notin lost
  /\ delivered' = delivered \cup {current}
  /\ UNCHANGED << count, current, lost >>

Lose ==
  /\ current # 0
  /\ lost' = lost \cup {current}
  /\ UNCHANGED << count, current, delivered >>

Resolve ==
  /\ current \in delivered \cup lost
  /\ current' = 0
  /\ UNCHANGED << count, delivered, lost >>

SWNext == Submit \/ Deliver \/ Lose \/ Resolve

SWSpec == SWInit /\ [][SWNext]_swVars
=============================================================================
