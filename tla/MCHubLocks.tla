---------------------------- MODULE MCHubLocks ----------------------------
(* Instances of HubLocks for TLC. *)
EXTENDS HubLocks

CONSTANT s1
===========================================================================
