---------------------- MODULE ClickPipelineRefinement ----------------------
(***************************************************************************)
(* The click pipeline implements ClickDelivery: a click is in custody      *)
(* while it is in either Redis list, and a table's count of it is the      *)
(* number of blocks of that table that contain it.                         *)
(***************************************************************************)
EXTENDS ClickPipeline

BlocksWith(t, c) == {k \in DOMAIN stored[t] : c \in stored[t][k]}

Delivery == INSTANCE ClickDelivery WITH
  held  <- Range(buffer) \cup Range(inflight),
  count <- [t \in Tables |-> [c \in Clicks |-> Cardinality(BlocksWith(t, c))]]

\* Every step of the pipeline is a step ClickDelivery allows, or changes nothing
\* it can see: moving a batch between the lists, taking the lease, crashing and
\* restarting neither release nor recount a click.
ImplementsDelivery == Delivery!Spec

=============================================================================
