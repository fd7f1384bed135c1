------------------------------- MODULE MCHub -------------------------------
(* Instances of Hub for TLC: a user who connects twice.                  *)
EXTENDS Hub, TLC

CONSTANTS a, s1, s2

SameUser == [s \in {s1, s2} |-> a]

\* Both connections have the same user, so exchanging them is sound.
Interchangeable == Permutations({s1, s2})
============================================================================
