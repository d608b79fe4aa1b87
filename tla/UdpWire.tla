------------------------------ MODULE UdpWire ------------------------------
(***************************************************************************)
(* Message identifiers on the UDP wire: how the client writes a 16-bit     *)
(* identifier into a datagram and how it reads one back.                   *)
(*                                                                         *)
(* An identifier is an unsigned short, a number in 0..65535.  A datagram   *)
(* carries it in two bytes, each a number in 0..255, high byte first.  The *)
(* client reads received bytes in two ways: through a cast to unsigned     *)
(* char (network thread) and through plain char, which is signed on the    *)
(* supported platform (receiver thread).  Both end in sendConfirm(short).  *)
(***************************************************************************)
EXTENDS Integers

IDs    == 0..(2^16 - 1)
Bytes  == 0..255
Shorts == -(2^15)..(2^15 - 1)

(* The conversion of an unsigned short argument to a short parameter *)
ToShort(u)    == IF u < 2^15 THEN u ELSE u - 2^16

(* char c = byte, where char is signed *)
Char(b) == IF b < 128 THEN b ELSE b - 256

(* Plausible slips in the code below, for the sensitivity checks: the mask  *)
(* of the high byte forgotten, the bytes added without a shift, every read  *)
(* done through the cast, and the network thread's casts left out.          *)
ShortToBytesUnmasked(number) == << number \div 256, number % 256 >>
ReadIDUnshifted(bytes)       == bytes[1] + bytes[2]
ReadSignedIDCast(bytes)      == ToShort(256 * bytes[1] + bytes[2])

(* InputProcess::shortToBytes.  \div floors, as the arithmetic >> does. *)
ShortToBytes(number) == << (number \div 256) % 256, number % 256 >>

(* (unsigned char) b1 << 8 | (unsigned char) b2: the operands share no bit *)
ReadID(bytes) == 256 * bytes[1] + bytes[2]

(* b1 << 8 | b2 with signed chars, stored in a short.  A negative b2 is sign *)
(* extended, so that the "or" sets every bit of the high byte.               *)
ReadSignedID(bytes) ==
  IF bytes[2] < 128 THEN 256 * Char(bytes[1]) + bytes[2] ELSE Char(bytes[2])

NetworkConfirmSigned(bytes)  == ShortToBytes(ReadSignedID(bytes))

(* The identifier bytes of the CONFIRM that answers a datagram whose bytes *)
(* are "bytes": sendConfirm as the network thread and the receiver call it *)
NetworkConfirm(bytes)  == ShortToBytes(ToShort(ReadID(bytes)))
ReceiverConfirm(bytes) == ShortToBytes(ReadSignedID(bytes))
=============================================================================
