---------------------------- MODULE MCPluginHost ----------------------------
(* PluginHost with one instance and two commands at a time.                *)
EXTENDS PluginHost, TLC

CONSTANTS i1, c1, c2, none
=============================================================================
