----------------------------- MODULE MCAdminWeb -----------------------------
(* AdminWeb with two tabs of one browser.                                    *)
EXTENDS AdminWeb, TLC

CONSTANTS t1, t2, none

Alike == Permutations({t1, t2})
=============================================================================
