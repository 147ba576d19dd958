------------------------- MODULE ClickPipelineLive -------------------------
(***************************************************************************)
(* The click pipeline in an environment that settles down: Redis,          *)
(* ClickHouse and the processes fail, or are told to stop, MaxFaults times *)
(* at most, and from then on steps succeed. Under it every click that was  *)
(* buffered is counted.                                                    *)
(***************************************************************************)
EXTENDS ClickPipeline

CONSTANT MaxFaults  \* bound on failing steps, crashes and stop signals

ASSUME FaultBound == MaxFaults \in Nat

VARIABLE faults     \* how many there have been

liveVars == <<vars, faults>>

Fault ==
  \/ \E c \in Clicks : IngestFails(c)
  \/ \E f \in Flows : FlushFault(f)
  \/ \E p \in Flushers : BeginStop(p) \/ Crash(p)
  \/ LateInsert

LiveInit == Init /\ faults = 0

LiveNext ==
  \/ /\ \/ \E c \in Clicks : IngestClick(c)
        \/ \E f \in Flows : FlushStep(f)
        \/ \E p \in Flushers : Start(p) \/ BeginTick(p) \/ Release(p) \/ Exit(p)
        \/ LeaseLapses
     /\ UNCHANGED faults
  \/ /\ faults < MaxFaults
     /\ faults' = faults + 1
     /\ Fault

(***************************************************************************)
(* Fairness. The timer of a running process fires, and the flow it starts  *)
(* goes on; a stopping process ends; the TTL of a lease runs out unless    *)
(* its holder renews it. A process that is down need not come back, as     *)
(* long as some process is running again and again: a dead flusher may     *)
(* leave the lease behind for good.                                        *)
(***************************************************************************)
LiveFairness ==
  /\ \A p \in Flushers : /\ WF_liveVars(BeginTick(p) /\ UNCHANGED faults)
                         /\ WF_liveVars((Release(p) \/ Exit(p)) /\ UNCHANGED faults)
  /\ \A f \in Flows : WF_liveVars(FlushStep(f) /\ UNCHANGED faults)
  /\ WF_liveVars(LeaseLapses /\ UNCHANGED faults)
  /\ []<>(\E p \in Flushers : process[p] = "running")

LiveSpec == LiveInit /\ [][LiveNext]_liveVars /\ LiveFairness

\* Every click ingest answered "buffered" for, and whose row parses, is counted
\* in every table in the end: no batch is stuck in flight, no click starves
\* behind others, and the lease of a flusher that died is not in the way.
EveryClickCounted ==
  \A c \in Clicks \ Corrupt :
    answer[c] = "buffered" ~> \A t \in Tables : Counted(t, c)

=============================================================================
