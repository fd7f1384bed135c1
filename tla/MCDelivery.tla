----------------------------- MODULE MCDelivery -----------------------------
(* Instances of Delivery for TLC: an author, an administrator and somebody   *)
(* who is away, to whom direct messages can be sent.                         *)
EXTENDS Delivery, TLC

CONSTANTS author, admin, away, a1, b1

Everybody == {author, admin, away}

\* Two insertions and two replays; an insertion, two operations and two
\* replays; two insertions, an operation and a replay.
TheMixes == {<<2, 0, 2>>, <<1, 2, 2>>, <<2, 1, 1>>}

\* A direct message, an edit of it, and somebody else in the room.
AnEdit == {<<1, 1, 2>>}
Behind == (a1 :> author) @@ (b1 :> admin)
=============================================================================
