-------------------------- MODULE MCClickPipeline --------------------------
(***************************************************************************)
(* The constants TLC gives ClickPipeline.                                  *)
(***************************************************************************)
EXTENDS ClickPipelineRefinement, TLC

CONSTANTS c1, c2, c3, p1, p2, raw, rollup

MCClicks3 == {c1, c2, c3}
MCCorrupt == {c3}
MCNoCorrupt == {}
MCFlushers1 == {p1}
MCFlushers2 == {p1, p2}
MCTables == {raw, rollup}
MCRawOnly == {raw}

\* Clicks that parse, flushers and tables are interchangeable in the safety runs.
MCSymmetry == Permutations({c1, c2}) \cup Permutations({p1, p2}) \cup Permutations({raw, rollup})
=============================================================================
