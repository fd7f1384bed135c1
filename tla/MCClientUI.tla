----------------------------- MODULE MCClientUI -----------------------------
(* One partner, typed in two ways; three users; two profiles of one identity *)
(* and one of another; two rooms; a file named by -config. What belongs      *)
(* together is exercised together.                                           *)
EXTENDS ClientUI
CONSTANTS me, ann, bob, Bob
MCFold == bob :> bob @@ Bob :> bob
MCLists == {<<me>>, <<ann, me>>, <<ann, bob, me>>, <<bob, me>>}
MCKits == {{"threads", "dm", "hide", "clear"}, {"rooms", "scroll", "clear"},
           {"keys", "say", "dm", "hide"}, {"keys", "admin"}, {"say", "join", "dm"},
           {"sound"}, {"look"}}
MCThemes == <<"system", "retro">>
MCProfiles == <<me, me, ann>>
MCQuiets == {<<3, 1>>, <<1, 2>>}
MCOthers == {[Blank EXCEPT !.theme = "retro", !.notify.quiet = TRUE]}
=============================================================================
