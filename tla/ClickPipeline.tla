--------------------------- MODULE ClickPipeline ---------------------------
(***************************************************************************)
(* The click pipeline of the API: POST /ingest/click appends a click to a  *)
(* Redis list, and a flusher that holds a Redis lease moves clicks in      *)
(* batches to an in-flight list, inserts them into ClickHouse and only     *)
(* then deletes them.                                                      *)
(*                                                                         *)
(*   apps/api/src/routes/ingest.ts              IngestClick, IngestFails   *)
(*   apps/api/src/repositories/click-buffer.ts  PushScript, DrainScript    *)
(*   apps/api/src/consumer/flush-lease.ts       lease                      *)
(*   apps/api/src/consumer/flusher.ts           the flows                  *)
(*   apps/api/src/analytics/pipeline.ts         Start, Exit                *)
(*   infra/clickhouse/schema.sql                stored, StoreBlock         *)
(*                                                                         *)
(* flush() is async, so each Redis script and each insert is a step of its *)
(* own. A process runs it from two places: the timer (#tick) and stop().   *)
(* Those are the two flows of a flusher, and #running guards the first     *)
(* against itself only.                                                    *)
(***************************************************************************)
EXTENDS Integers, Sequences, FiniteSets, Functions

CONSTANTS
  Clicks,            \* click event ids, each minted once at the edge
  Corrupt,           \* the clicks whose buffered row does not parse any more
  Flushers,          \* lease owner ids: processes with CLICK_CONSUMER_ENABLED
  NoOwner,           \* the lease key is absent
  Tables,            \* clicks and the rollups its materialized views feed
  BufferMax,         \* CLICK_BUFFER_MAX
  BatchSize,         \* CLICK_FLUSH_BATCH_SIZE
  MaxBatches,        \* MAX_BATCHES_PER_CYCLE
  LeaseBatches,      \* how many insert timeouts the lease TTL covers
  DedupWindow,       \* non_replicated_deduplication_window
  LateBlocks,        \* how many blocks later an abandoned insert may be executed
  StopMidTick        \* may the stop signal arrive while a tick is flushing?

ASSUME PipelineConstants ==
  /\ Corrupt \subseteq Clicks
  /\ NoOwner \notin Flushers
  /\ BufferMax \in Nat \ {0}
  /\ BatchSize \in Nat \ {0}
  /\ MaxBatches \in Nat \ {0}
  /\ LeaseBatches \in Nat
  /\ DedupWindow \in Nat \ {0}
  /\ LateBlocks \in Nat
  /\ StopMidTick \in BOOLEAN

VARIABLES
  answer,      \* what ingest told the edge about each click
  buffer,      \* Redis list urlgen:clicks:buffer
  inflight,    \* Redis list urlgen:clicks:inflight
  dropped,     \* Redis counter urlgen:clicks:dropped
  lease,       \* Redis key urlgen:clicks:flusher
  process,     \* each flusher process: down, running, or stopping
  pc,          \* where each flow is in flush()
  batch,       \* flush()'s loop counter
  claimed,     \* claimed.rows
  stored,      \* per table, the blocks ClickHouse has written, in order
  late         \* inserts the client gave up on that may still be executed

redisVars == <<buffer, inflight, dropped, lease>>
flowVars  == <<process, pc, batch, claimed>>
storeVars == <<stored, late>>
vars == <<answer, buffer, inflight, dropped, lease,
          process, pc, batch, claimed, stored, late>>

-----------------------------------------------------------------------------
(***************************************************************************)
(* Data.                                                                   *)
(***************************************************************************)

Flows == Flushers \X {"tick", "stop"}
Tick(p) == <<p, "tick">>
Stop(p) == <<p, "stop">>

\* parseRow over a batch. Each click is buffered at most once and a batch keeps
\* its order until it is acknowledged, so the set of rows determines the sequence
\* of event ids, and with it the token clickBatchToken hashes from them.
Rows(raw) == Range(raw) \ Corrupt

Block == SUBSET Clicks

\* The deduplication token of rows is among the last DedupWindow blocks of t.
Remembered(t, rows) ==
  \E k \in DOMAIN stored[t] : /\ k > Len(stored[t]) - DedupWindow
                              /\ stored[t][k] = rows

\* Mutant: the insert carries no deduplication token.
StoreBlockNoToken(T, rows) ==
  stored' = [t \in Tables |-> IF t \in T THEN Append(stored[t], rows) ELSE stored[t]]

\* Mutant: a block one table remembers is not passed on to the others
\* (deduplicate_blocks_in_dependent_materialized_views left off).
StoreBlockAtSource(T, rows) ==
  stored' = [t \in Tables |-> IF t \in T /\ ~\E u \in Tables : Remembered(u, rows)
                                THEN Append(stored[t], rows)
                                ELSE stored[t]]

\* An insert reaching ClickHouse: every table in T writes the block unless it
\* remembers the token. A complete insert reaches every table; one that fails
\* part way has reached some of them.
StoreBlock(T, rows) ==
  stored' = [t \in Tables |-> IF t \in T /\ ~Remembered(t, rows)
                                THEN Append(stored[t], rows)
                                ELSE stored[t]]

Counted(t, c) == \E k \in DOMAIN stored[t] : c \in stored[t][k]

-----------------------------------------------------------------------------
Init ==
  /\ answer = [c \in Clicks |-> "none"]
  /\ buffer = <<>>
  /\ inflight = <<>>
  /\ dropped = 0
  /\ lease = NoOwner
  /\ process = [p \in Flushers |-> "down"]
  /\ pc = [f \in Flows |-> "idle"]
  /\ batch = [f \in Flows |-> 0]
  /\ claimed = [f \in Flows |-> {}]
  /\ stored = [t \in Tables |-> <<>>]
  /\ late = {}

-----------------------------------------------------------------------------
(***************************************************************************)
(* Ingest.                                                                 *)
(***************************************************************************)

BufferFull == Len(buffer) >= BufferMax

\* PUSH_SCRIPT
PushScript(c) ==
  \/ /\ BufferFull
     /\ dropped' = dropped + 1
     /\ UNCHANGED buffer
  \/ /\ ~BufferFull
     /\ buffer' = Append(buffer, c)
     /\ UNCHANGED dropped

\* The worker posts a click once and never retries. 202 either way: the body
\* says whether the click was buffered or dropped.
IngestClick(c) ==
  /\ answer[c] = "none"
  /\ PushScript(c)
  /\ answer' = [answer EXCEPT ![c] = IF BufferFull THEN "dropped" ELSE "buffered"]
  /\ UNCHANGED <<inflight, lease, flowVars, storeVars>>

\* push() rejects: Redis is unreachable, or it ran the script and the reply
\* missed commandTimeout. 503 in both cases.
IngestFails(c) ==
  /\ answer[c] = "none"
  /\ PushScript(c) \/ UNCHANGED <<buffer, dropped>>
  /\ answer' = [answer EXCEPT ![c] = "unavailable"]
  /\ UNCHANGED <<inflight, lease, flowVars, storeVars>>

-----------------------------------------------------------------------------
(***************************************************************************)
(* flush(). A flow leaves it by returning or throwing: #tick's finally     *)
(* clears #running, stop() goes on to release the lease.                   *)
(***************************************************************************)

Goto(f, label) == pc' = [pc EXCEPT ![f] = label]

Leave(f) ==
  /\ Goto(f, IF f[2] = "tick" THEN "idle" ELSE "release")
  /\ batch' = [batch EXCEPT ![f] = 0]
  /\ claimed' = [claimed EXCEPT ![f] = {}]

EnterFlush(f) ==
  /\ Goto(f, "acquire")
  /\ UNCHANGED <<batch, claimed>>

Grantable(p) == lease \in {NoOwner, p}

\* ACQUIRE_SCRIPT, and "no-lease".
AcquireLease(f) ==
  /\ pc[f] = "acquire"
  /\ \/ /\ Grantable(f[1])
        /\ lease' = f[1]
        /\ Goto(f, "drain")
        /\ UNCHANGED <<batch, claimed>>
     \/ /\ ~Grantable(f[1])
        /\ Leave(f)
        /\ UNCHANGED lease
  /\ UNCHANGED <<answer, buffer, inflight, dropped, process, storeVars>>

\* acquire() throws; the script may have run.
AcquireFails(f) ==
  /\ pc[f] = "acquire"
  /\ lease' \in {lease} \cup (IF Grantable(f[1]) THEN {f[1]} ELSE {})
  /\ Leave(f)
  /\ UNCHANGED <<answer, buffer, inflight, dropped, process, storeVars>>

\* DRAIN_SCRIPT: what it returns, and what it does to the two lists.
Batch ==
  IF inflight # <<>> THEN inflight
  ELSE SubSeq(buffer, 1, IF Len(buffer) < BatchSize THEN Len(buffer) ELSE BatchSize)

\* Mutant: LPOP, with nothing kept in flight.
DrainScriptPops ==
  /\ inflight' = inflight
  /\ buffer' = SubSeq(buffer, IF inflight # <<>> THEN 1 ELSE Len(Batch) + 1, Len(buffer))

DrainScript ==
  /\ inflight' = Batch
  /\ buffer' = IF inflight # <<>> THEN buffer
               ELSE SubSeq(buffer, Len(Batch) + 1, Len(buffer))

\* Mutant: a batch of unparseable rows is left in flight.
DrainNoRows(f) ==
  /\ pc[f] = "drain"
  /\ DrainScript
  /\ \/ /\ Rows(Batch) = {}
        /\ Leave(f)
     \/ /\ Rows(Batch) # {}
        /\ Goto(f, "insert")
        /\ claimed' = [claimed EXCEPT ![f] = Rows(Batch)]
        /\ UNCHANGED batch
  /\ UNCHANGED <<answer, dropped, lease, process, storeVars>>

\* Nothing claimed: return. Only unparseable rows: acknowledge them. Otherwise
\* insert the rows.
Drain(f) ==
  /\ pc[f] = "drain"
  /\ DrainScript
  /\ \/ /\ Batch = <<>>
        /\ Leave(f)
     \/ /\ Batch # <<>>
        /\ Goto(f, IF Rows(Batch) = {} THEN "ack" ELSE "insert")
        /\ claimed' = [claimed EXCEPT ![f] = Rows(Batch)]
        /\ UNCHANGED batch
  /\ UNCHANGED <<answer, dropped, lease, process, storeVars>>

DrainFails(f) ==
  /\ pc[f] = "drain"
  /\ DrainScript \/ UNCHANGED <<buffer, inflight>>
  /\ Leave(f)
  /\ UNCHANGED <<answer, dropped, lease, process, storeVars>>

InsertSucceeds(f) ==
  /\ pc[f] = "insert"
  /\ StoreBlock(Tables, claimed[f])
  /\ Goto(f, "ack")
  /\ UNCHANGED <<answer, redisVars, process, batch, claimed, late>>

\* Mutant: the batch is acknowledged although the insert failed.
InsertFailsAcked(f) ==
  /\ pc[f] = "insert"
  /\ \E T \in SUBSET Tables : StoreBlock(T, claimed[f])
  /\ Goto(f, "ack")
  /\ UNCHANGED <<answer, redisVars, process, batch, claimed, late>>

\* ClickHouse reports an error, with the block in none or some of the tables, or
\* in all of them when only the response is lost. No ack(): "insert-failed".
InsertFails(f) ==
  /\ pc[f] = "insert"
  /\ \E T \in SUBSET Tables : StoreBlock(T, claimed[f])
  /\ Leave(f)
  /\ UNCHANGED <<answer, redisVars, process, late>>

\* Mutant: a timeout counts as delivered.
InsertTimesOutAcked(f) ==
  /\ pc[f] = "insert"
  /\ late' = late \cup {[rows |-> claimed[f],
                         sent |-> [t \in Tables |-> Len(stored[t])]]}
  /\ Goto(f, "ack")
  /\ UNCHANGED <<answer, redisVars, process, batch, claimed, stored>>

\* request_timeout expires with the request still on its way or executing.
InsertTimesOut(f) ==
  /\ pc[f] = "insert"
  /\ late' = late \cup {[rows |-> claimed[f],
                         sent |-> [t \in Tables |-> Len(stored[t])]]}
  /\ Leave(f)
  /\ UNCHANGED <<answer, redisVars, process, stored>>

NextBatch(f) ==
  IF batch[f] + 1 < MaxBatches
    THEN /\ Goto(f, "drain")
         /\ batch' = [batch EXCEPT ![f] = @ + 1]
         /\ claimed' = [claimed EXCEPT ![f] = {}]
    ELSE Leave(f)

\* ack(): DEL of the in-flight list, whatever is in it. A batch of unparseable
\* rows or a full batch goes round the loop again.
Ack(f) ==
  /\ pc[f] = "ack"
  /\ inflight' = <<>>
  /\ IF claimed[f] # {} /\ Cardinality(claimed[f]) < BatchSize
       THEN Leave(f)
       ELSE NextBatch(f)
  /\ UNCHANGED <<answer, buffer, dropped, lease, process, storeVars>>

AckFails(f) ==
  /\ pc[f] = "ack"
  /\ inflight' \in {inflight, <<>>}
  /\ Leave(f)
  /\ UNCHANGED <<answer, buffer, dropped, lease, process, storeVars>>

\* One step of flush(), as it goes when everything answers, and as it goes when
\* Redis or ClickHouse does not.
FlushStep(f) == AcquireLease(f) \/ Drain(f) \/ InsertSucceeds(f) \/ Ack(f)

FlushFault(f) ==
  \/ AcquireFails(f) \/ DrainFails(f) \/ AckFails(f)
  \/ InsertFails(f) \/ InsertTimesOut(f)

-----------------------------------------------------------------------------
(***************************************************************************)
(* The process around flush().                                             *)
(***************************************************************************)

Start(p) ==
  /\ process[p] = "down"
  /\ process' = [process EXCEPT ![p] = "running"]
  /\ UNCHANGED <<answer, redisVars, pc, batch, claimed, storeVars>>

\* #tick returns at once when #running or #stopped.
BeginTick(p) ==
  /\ process[p] = "running"
  /\ pc[Tick(p)] = "idle"
  /\ EnterFlush(Tick(p))
  /\ UNCHANGED <<answer, redisVars, process, storeVars>>

\* stop() sets #stopped, clears the timer and flushes; it does not look at
\* #running.
BeginStop(p) ==
  /\ process[p] = "running"
  /\ StopMidTick \/ pc[Tick(p)] = "idle"
  /\ process' = [process EXCEPT ![p] = "stopping"]
  /\ EnterFlush(Stop(p))
  /\ UNCHANGED <<answer, redisVars, storeVars>>

\* RELEASE_SCRIPT; a failure is logged and the lease left to lapse.
Release(p) ==
  /\ pc[Stop(p)] = "release"
  /\ lease' \in {lease} \cup (IF lease = p THEN {NoOwner} ELSE {})
  /\ Goto(Stop(p), "exit")
  /\ UNCHANGED <<answer, buffer, inflight, dropped, process, batch, claimed, storeVars>>

ProcessEnds(p) ==
  /\ process' = [process EXCEPT ![p] = "down"]
  /\ pc' = [f \in Flows |-> IF f[1] = p THEN "idle" ELSE pc[f]]
  /\ batch' = [f \in Flows |-> IF f[1] = p THEN 0 ELSE batch[f]]
  /\ claimed' = [f \in Flows |-> IF f[1] = p THEN {} ELSE claimed[f]]
  /\ UNCHANGED <<answer, redisVars, storeVars>>

\* After stop() the shutdown hook closes the clients and the process exits.
Exit(p) ==
  /\ pc[Stop(p)] = "exit"
  /\ ProcessEnds(p)

Crash(p) ==
  /\ process[p] # "down"
  /\ ProcessEnds(p)

-----------------------------------------------------------------------------
(***************************************************************************)
(* Redis and ClickHouse on their own.                                      *)
(***************************************************************************)

Working(f) == pc[f] \in {"drain", "insert", "ack"}

\* The TTL of the lease runs out. The holder set it when its flow acquired it,
\* so that happens inside a cycle only once LeaseBatches batches have gone by.
LeaseLapses ==
  /\ lease # NoOwner
  /\ \A f \in Flows : f[1] = lease /\ Working(f) => batch[f] >= LeaseBatches
  /\ lease' = NoOwner
  /\ UNCHANGED <<answer, buffer, inflight, dropped, flowVars, storeVars>>

\* An abandoned insert is executed after all, completely or in part, before
\* LateBlocks more blocks are written. Nothing in the code bounds that delay:
\* whether it stays within DedupWindow is up to ClickHouse.
LateInsert ==
  \E w \in late :
    /\ \A t \in Tables : Len(stored[t]) < w.sent[t] + LateBlocks
    /\ \E T \in SUBSET Tables : StoreBlock(T, w.rows)
    /\ late' = late \ {w}
    /\ UNCHANGED <<answer, redisVars, flowVars>>

-----------------------------------------------------------------------------
Next ==
  \/ \E c \in Clicks : IngestClick(c) \/ IngestFails(c)
  \/ \E f \in Flows : FlushStep(f) \/ FlushFault(f)
  \/ \E p \in Flushers : \/ Start(p) \/ BeginTick(p) \/ BeginStop(p)
                         \/ Release(p) \/ Exit(p) \/ Crash(p)
  \/ LeaseLapses
  \/ LateInsert

Spec == Init /\ [][Next]_vars

-----------------------------------------------------------------------------
(***************************************************************************)
(* Properties.                                                             *)
(***************************************************************************)

LateRequest == [rows : Block, sent : [Tables -> Nat]]

\* Every variable has its type, and the two Redis lists keep to their limits:
\* CLICK_BUFFER_MAX for the buffer, whatever pushes and drains interleave, and one
\* batch for the in-flight list, whatever is left there by failures.
TypeOK ==
  /\ answer \in [Clicks -> {"none", "buffered", "dropped", "unavailable"}]
  /\ buffer \in Seq(Clicks) /\ Len(buffer) <= BufferMax
  /\ inflight \in Seq(Clicks) /\ Len(inflight) <= BatchSize
  /\ dropped \in Nat
  /\ lease \in Flushers \cup {NoOwner}
  /\ process \in [Flushers -> {"down", "running", "stopping"}]
  /\ pc \in [Flows -> {"idle", "acquire", "drain", "insert", "ack", "release", "exit"}]
  /\ batch \in [Flows -> Nat]
  /\ claimed \in [Flows -> Block]
  /\ stored \in [Tables -> Seq(Block)]
  /\ late \in SUBSET LateRequest

\* A click ingest answered "buffered" for is never lost: it waits in the buffer,
\* or is in flight, or every table counts it, or it was one of the rows drain()
\* reports as unparseable. Flusher crashes, failed inserts and lost replies of
\* push, drain and ack may fall anywhere.
Kept(c) ==
  \/ c \in Range(buffer) \cup Range(inflight) \cup Corrupt
  \/ \A t \in Tables : Counted(t, c)

NoLoss == \A c \in Clicks : answer[c] = "buffered" => Kept(c)

\* No table ever counts a click twice, although a batch is inserted again after
\* every failure, timeout or crash that leaves it in flight, and an insert the
\* client gave up on may still be executed, LateBlocks blocks later at most.
CountedOnce ==
  \A t \in Tables : \A j, k \in DOMAIN stored[t] :
    stored[t][j] \cap stored[t][k] # {} => j = k

\* The in-flight list has one user at a time: of all the flows of all the processes,
\* at most one is between acquiring the lease and leaving flush(). flush-lease.ts and
\* pipeline.ts say the lease's TTL is long enough for that; it covers LeaseBatches
\* insert timeouts of a cycle that may take MaxBatches.
OneFlusher == \A f, g \in Flows : Working(f) /\ Working(g) => f = g

\* The raw table and the rollups agree on which clicks happened whenever no batch
\* is in flight: a batch that reached some of the tables is not acknowledged
\* before it has reached the others.
RollupsAgree ==
  inflight = <<>> =>
    \A t, u \in Tables : \A c \in Clicks : Counted(t, c) => Counted(u, c)

\* ack() never deletes a batch ClickHouse has not confirmed (flusher.ts).
AckOnlyConfirmed ==
  [][inflight # <<>> /\ inflight' = <<>> =>
       \A c \in Rows(inflight), t \in Tables : Counted(t, c)]_vars

=============================================================================
