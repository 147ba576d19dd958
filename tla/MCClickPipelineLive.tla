------------------------ MODULE MCClickPipelineLive ------------------------
(***************************************************************************)
(* The constants TLC gives ClickPipelineLive.                              *)
(***************************************************************************)
EXTENDS ClickPipelineLive

CONSTANTS c1, c2, c3, p1, p2, raw

MCClicks == {c1, c2, c3}
MCCorrupt == {c2}
MCFlushers == {p1, p2}
MCTables == {raw}
=============================================================================
