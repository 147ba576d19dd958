--------------------------- MODULE MCAbuseReview ---------------------------
(***************************************************************************)
(* The constants TLC gives AbuseReview: two reports of one link, and one   *)
(* of a slug that nobody created.                                          *)
(***************************************************************************)
EXTENDS AbuseReview, TLC

CONSTANTS q1, q2, q3, s1, invented, o1, o2

MCReports == {q1, q2, q3}
MCAbout == q1 :> s1 @@ q2 :> s1 @@ q3 :> invented
MCSlugs == {s1, invented}
MCLinks == {s1}
MCOperators == {o1, o2}
=============================================================================
