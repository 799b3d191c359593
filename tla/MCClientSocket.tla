---------------------------- MODULE MCClientSocket ----------------------------
(* Three sockets are enough for the one in use, one that still closes and a *)
(* new one; two requests for one that takes the place of the other.         *)
EXTENDS ClientSocket
=============================================================================
