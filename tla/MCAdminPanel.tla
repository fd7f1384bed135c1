---------------------------- MODULE MCAdminPanel ----------------------------
(* AdminPanel with one other user, one plugin and two commands at a time.   *)
EXTENDS AdminPanel, TLC

CONSTANTS root, a, p1, c1, c2, none

ThePlugins == <<p1>>
=============================================================================
