-------------------------- MODULE MCSnippetEditor --------------------------
(* Keys type one character; the other comes from the clipboard, which holds  *)
(* a text of three lines at first.                                           *)
EXTENDS SnippetEditor, TLC

CONSTANTS x1, x2

MCClips == {<<NL, x2, NL>>}
=============================================================================
