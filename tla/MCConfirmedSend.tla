-------------------------- MODULE MCConfirmedSend --------------------------
(* An instance of ConfirmedSend for TLC.  The network thread alone is the  *)
(* sender as long as the server's datagrams are well formed; with the      *)
(* receiver thread as a second one it is part of the instances of          *)
(* UdpClient.                                                              *)
EXTENDS ConfirmedSend

CONSTANTS Net, C1, C2

OneCaller  == {Net}
TwoThreads == {C1, C2}
=============================================================================
