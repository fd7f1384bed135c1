---------------------------- MODULE MCModeration ----------------------------
(* Instances of Moderation for TLC. *)
EXTENDS Moderation

CONSTANT a

\* Nothing; a ban from before the column expires_at; a kick and a ban that are
\* both open; a ban and a kick that has yet to expire, both open.
LegacyRows ==
    LET row(expires) == [from |-> 0, till |-> Null, expires |-> expires] IN
    {<<>>, <<row(Null)>>, <<row(1), row(Null)>>, <<row(Null), row(1)>>}
=============================================================================
