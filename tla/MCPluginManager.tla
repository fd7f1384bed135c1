--------------------------- MODULE MCPluginManager ---------------------------
(* PluginManager with two plugins, one of which comes in four versions.       *)
EXTENDS PluginManager, TLC

CONSTANTS p1, q1, c1, c2, v1, bad, new, odd, none

TheRegistries == {[x \in {p1, q1} |-> IF x = p1 THEN v ELSE none] : v \in {v1, bad, new, odd}}
Alike == Permutations({c1, c2})
=============================================================================
