------------------------------ MODULE MCSockets ------------------------------
(* Small instances of Sockets for TLC. *)
EXTENDS Sockets

CONSTANTS s1, s2
=============================================================================
