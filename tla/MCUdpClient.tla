---------------------------- MODULE MCUdpClient ----------------------------
(* Instances of UdpClient for TLC. *)
EXTENDS UdpClient

CONSTANTS C1, C2

BothCallers == {NetworkThread, ReceiverThread}
OneThread   == {C1}
TwoThreads  == {C1, C2}
ThreadSymmetry == Permutations({C1, C2})
=============================================================================
