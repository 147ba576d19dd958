---------------------------- MODULE MCLinkStore ----------------------------
(***************************************************************************)
(* The constants TLC gives LinkStore.                                      *)
(***************************************************************************)
EXTENDS LinkStore, TLC

CONSTANTS s1, s2, u1, u2, o1, o2, r1, r2

MCSlugs == {s1, s2}
MCUrls == {u1, u2}
MCOwners == {o1, o2}
MCRequests == {r1, r2}

MCSymmetry ==
  Permutations(MCSlugs) \cup Permutations(MCUrls) \cup Permutations(MCOwners)
    \cup Permutations(MCRequests)
=============================================================================
