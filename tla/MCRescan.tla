------------------------------ MODULE MCRescan ------------------------------
(***************************************************************************)
(* The constants TLC gives Rescan: four links, the first two of one target. *)
(***************************************************************************)
EXTENDS Rescan, TLC

CONSTANTS u1, u2, u3

MCUrl == 1 :> u1 @@ 2 :> u1 @@ 3 :> u2 @@ 4 :> u3
=============================================================================
