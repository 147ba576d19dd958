---------------------------- MODULE MCEdgeCache ----------------------------
(***************************************************************************)
(* The constants TLC gives EdgeCache.                                      *)
(***************************************************************************)
EXTENDS EdgeCache, TLC

CONSTANTS v1, w1, w2, u1

MCVisits == {v1}
MCWriters == {w1, w2}
MCTargets == {u1}
MCExpiries == {6}

MCSymmetry == Permutations(MCWriters)
=============================================================================
