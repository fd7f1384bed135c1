---------------------------- MODULE MCClientConn ----------------------------
(* An instance of ClientConn for TLC. *)
EXTENDS ClientConn, TLC
=============================================================================
