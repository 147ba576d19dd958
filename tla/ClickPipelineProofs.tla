------------------------ MODULE ClickPipelineProofs ------------------------
(***************************************************************************)
(* Proofs about ClickPipeline, for any clicks, flushers, tables and        *)
(* bounds, in two parts: what makes a flow the only one that works, and    *)
(* that it takes nothing more than that for clicks to be delivered.        *)
(***************************************************************************)
EXTENDS ClickPipelineRefinement, SequenceTheorems, FiniteSetTheorems, TLAPS

-----------------------------------------------------------------------------
(***************************************************************************)
(* The Redis lists and the ClickHouse tables.                              *)
(***************************************************************************)

\* What DRAIN_SCRIPT does to the lists: both stay lists of clicks, within their
\* limits, and together they hold the clicks they held before, the returned batch
\* being the in-flight list.
LEMMA DrainScriptLists ==
  ASSUME buffer \in Seq(Clicks), inflight \in Seq(Clicks), Len(inflight) <= BatchSize
  PROVE  /\ Batch \in Seq(Clicks)
         /\ DrainScript => /\ buffer' \in Seq(Clicks) /\ Len(buffer') <= Len(buffer)
                           /\ inflight' \in Seq(Clicks) /\ Len(inflight') <= BatchSize
                           /\ Range(buffer') \cup Range(inflight')
                                = Range(buffer) \cup Range(inflight)
<1> DEFINE n == IF Len(buffer) < BatchSize THEN Len(buffer) ELSE BatchSize
           front == SubSeq(buffer, 1, n)
           back == SubSeq(buffer, n + 1, Len(buffer))
<1>1. /\ n \in Nat /\ n <= Len(buffer) /\ Len(buffer) \in Nat
      /\ \A i \in 1..Len(buffer) : buffer[i] \in Clicks
  BY PipelineConstants
<1>2. /\ front \in Seq(Clicks) /\ Len(front) = n
      /\ \A i \in 1..n : front[i] = buffer[i]
  BY <1>1, SubSeqProperties
<1>3. /\ back \in Seq(Clicks) /\ Len(back) = Len(buffer) - n
      /\ \A i \in 1..(Len(buffer) - n) : back[i] = buffer[n + i]
  BY <1>1, SubSeqProperties
<1>4. Range(front) \cup Range(back) = Range(buffer)
  <2>1. DOMAIN front = 1..n /\ DOMAIN back = 1..(Len(buffer) - n)
    BY <1>2, <1>3
  <2>2. ASSUME NEW i \in 1..Len(buffer)
        PROVE  buffer[i] \in Range(front) \cup Range(back)
    <3>1. CASE i <= n
      BY <3>1, <1>1, <1>2, <2>1 DEF Range
    <3>2. CASE i > n
      <4>1. i - n \in 1..(Len(buffer) - n) /\ back[i - n] = buffer[i]
        <5>1. i - n \in 1..(Len(buffer) - n) /\ n + (i - n) = i
          BY <3>2, <1>1
        <5>2. back[i - n] = buffer[n + (i - n)]
          BY <1>3, <5>1
        <5>3. QED  BY <5>1, <5>2
      <4>2. QED  BY <4>1, <2>1 DEF Range
    <3>3. QED  BY <3>1, <3>2, <1>1
  <2>3. Range(buffer) = {buffer[i] : i \in 1..Len(buffer)}
    BY LenProperties DEF Range
  <2>4. \A x \in Range(front) : x \in Range(buffer)
    <3>1. \A i \in 1..n : front[i] = buffer[i] /\ i \in 1..Len(buffer)
      BY <1>1, <1>2
    <3>2. QED  BY <3>1, <2>1, <2>3 DEF Range
  <2>5. \A x \in Range(back) : x \in Range(buffer)
    <3>1. \A i \in 1..(Len(buffer) - n) : back[i] = buffer[n + i] /\ n + i \in 1..Len(buffer)
      BY <1>1, <1>3
    <3>2. QED  BY <3>1, <2>1, <2>3 DEF Range
  <2>6. QED  BY <2>2, <2>3, <2>4, <2>5
<1>5. Range(<<>>) = {}
  BY DEF Range
<1>6. CASE inflight # <<>>
  BY <1>6, LenProperties DEF Batch, DrainScript
<1>7. CASE inflight = <<>>
  <2>1. n <= BatchSize /\ Len(buffer) - n <= Len(buffer)
    BY <1>1, PipelineConstants
  <2>2. QED  BY <1>2, <1>3, <1>4, <1>5, <1>7, <2>1 DEF Batch, DrainScript
<1>8. QED  BY <1>6, <1>7

\* RPUSH adds one click to the buffer and keeps the others.
LEMMA AppendRange ==
  ASSUME NEW S, NEW s \in Seq(S), NEW c \in S
  PROVE  Range(Append(s, c)) = Range(s) \cup {c}
<1> DEFINE a == Append(s, c)
<1>1. /\ Len(a) = Len(s) + 1 /\ a \in Seq(S)
      /\ \A i \in 1..Len(s) : a[i] = s[i]
      /\ a[Len(s) + 1] = c
  BY AppendProperties
<1>2. DOMAIN a = 1..(Len(s) + 1) /\ DOMAIN s = 1..Len(s) /\ Len(s) \in Nat
  BY <1>1, LenProperties
<1>3. Range(s) \cup {c} \subseteq Range(a)
  BY <1>1, <1>2 DEF Range
<1>4. ASSUME NEW i \in DOMAIN a
      PROVE  a[i] \in Range(s) \cup {c}
  BY <1>1, <1>2 DEF Range
<1>5. QED  BY <1>3, <1>4 DEF Range

\* An insert never takes a counted click out of a table.
LEMMA StoreBlockKeeps ==
  ASSUME stored \in [Tables -> Seq(Block)],
         NEW T, NEW rows \in Block, StoreBlock(T, rows)
  PROVE  /\ stored' \in [Tables -> Seq(Block)]
         /\ \A t \in Tables, c \in Clicks : Counted(t, c) => Counted(t, c)'
<1>1. ASSUME NEW t \in Tables
      PROVE  stored'[t] \in {stored[t], Append(stored[t], rows)}
  BY DEF StoreBlock
<1>2. ASSUME NEW t \in Tables
      PROVE  Append(stored[t], rows) \in Seq(Block)
  BY AppendProperties
<1>3. stored' \in [Tables -> Seq(Block)]
  BY <1>1, <1>2 DEF StoreBlock
<1>4. ASSUME NEW t \in Tables, NEW c \in Clicks, Counted(t, c)
      PROVE  Counted(t, c)'
  <2>1. stored[t] \in Seq(Block)
    OBVIOUS
  <2>2. PICK k \in DOMAIN stored[t] : c \in stored[t][k]
    BY <1>4 DEF Counted
  <2>3. k \in DOMAIN stored'[t] /\ stored'[t][k] = stored[t][k]
    <3>1. CASE stored'[t] = stored[t]
      BY <3>1
    <3>2. CASE stored'[t] = Append(stored[t], rows)
      BY <2>1, <3>2, AppendProperties, LenProperties
    <3>3. QED  BY <1>1, <3>1, <3>2
  <2>4. QED  BY <2>2, <2>3 DEF Counted
<1>5. QED  BY <1>3, <1>4

\* An insert that reaches a table leaves its rows counted there, whether it
\* writes the block or ClickHouse remembers the token.
LEMMA StoreBlockCounts ==
  ASSUME stored \in [Tables -> Seq(Block)],
         NEW T \in SUBSET Tables, NEW rows \in Block, StoreBlock(T, rows)
  PROVE  \A t \in T, c \in rows : Counted(t, c)'
<1> SUFFICES ASSUME NEW t \in T, NEW c \in rows
             PROVE  Counted(t, c)'
  OBVIOUS
<1>1. stored[t] \in Seq(Block)
  OBVIOUS
<1>2. CASE Remembered(t, rows)
  <2>1. stored'[t] = stored[t]
    BY <1>2 DEF StoreBlock
  <2>2. QED  BY <1>2, <2>1 DEF Remembered, Counted
<1>3. CASE ~Remembered(t, rows)
  <2>1. stored'[t] = Append(stored[t], rows)
    BY <1>3 DEF StoreBlock
  <2>2. Len(stored[t]) + 1 \in DOMAIN stored'[t] /\ stored'[t][Len(stored[t]) + 1] = rows
    BY <1>1, <2>1, AppendProperties, LenProperties
  <2>3. QED  BY <2>2 DEF Counted
<1>4. QED  BY <1>2, <1>3

-----------------------------------------------------------------------------
(***************************************************************************)
(* Types.                                                                  *)
(***************************************************************************)

LEMMA ConstantTypes ==
  /\ BufferMax \in Nat /\ BatchSize \in Nat /\ MaxBatches \in Nat
  /\ LeaseBatches \in Nat /\ DedupWindow \in Nat /\ 1 <= DedupWindow
  /\ NoOwner \notin Flushers
BY PipelineConstants

\* Leaving flush() or going round its loop keeps the flow variables typed.
LEMMA LeaveTypes ==
  ASSUME TypeOK, NEW f \in Flows, Leave(f) \/ NextBatch(f)
  PROVE  (pc \in [Flows -> {"idle", "acquire", "drain", "insert", "ack", "release", "exit"}]
           /\ batch \in [Flows -> Nat] /\ claimed \in [Flows -> Block])'
<1>1. {} \in Block
  BY DEF Block
<1>3. CASE Leave(f)
  <2>1. (IF f[2] = "tick" THEN "idle" ELSE "release") \in {"idle", "release"}
    BY Zenon
  <2>2. pc' \in [Flows -> {"idle", "acquire", "drain", "insert", "ack", "release", "exit"}]
    BY <1>3, <2>1 DEF TypeOK, Leave, Goto
  <2>3. QED  BY <1>1, <1>3, <2>2 DEF TypeOK, Leave
<1>4. CASE NextBatch(f) /\ ~Leave(f)
  <2>1. /\ pc' = [pc EXCEPT ![f] = "drain"]
        /\ batch' = [batch EXCEPT ![f] = @ + 1]
        /\ claimed' = [claimed EXCEPT ![f] = {}]
    BY <1>4 DEF NextBatch, Goto
  <2>2. batch[f] + 1 \in Nat
    BY DEF TypeOK
  <2>3. QED  BY <1>1, <2>1, <2>2 DEF TypeOK
<1>5. QED  BY <1>3, <1>4

LEMMA FlushStepTypes ==
  ASSUME TypeOK, NEW f \in Flows, FlushStep(f)
  PROVE  TypeOK'
<1> USE DEF TypeOK
<1>1. f[1] \in Flushers
  BY DEF Flows
<1>2. CASE AcquireLease(f)
  BY <1>1, <1>2, LeaveTypes DEF AcquireLease, Goto, storeVars
<1>3. CASE Drain(f)
  <2>1. Rows(Batch) \in Block
    BY DrainScriptLists, LenProperties DEF Rows, Range, Block
  <2>2. Len(buffer) \in Nat /\ BufferMax \in Nat
    BY LenProperties, ConstantTypes
  <2>3. DrainScript => buffer' \in Seq(Clicks) /\ Len(buffer') <= BufferMax
                       /\ inflight' \in Seq(Clicks) /\ Len(inflight') <= BatchSize
    BY <2>2, DrainScriptLists
  <2>4. QED  BY <1>3, <2>1, <2>3, LeaveTypes DEF Drain, Goto, storeVars
<1>4. CASE InsertSucceeds(f)
  BY <1>4, StoreBlockKeeps DEF InsertSucceeds, Goto, redisVars
<1>5. CASE Ack(f)
  BY <1>5, EmptySeq, ConstantTypes, LeaveTypes DEF Ack, storeVars
<1>6. QED  BY <1>2, <1>3, <1>4, <1>5 DEF FlushStep

LEMMA FlushFaultTypes ==
  ASSUME TypeOK, NEW f \in Flows, FlushFault(f)
  PROVE  TypeOK'
<1> USE DEF TypeOK
<1>1. f[1] \in Flushers
  BY DEF Flows
<1>2. CASE AcquireFails(f)
  BY <1>1, <1>2, LeaveTypes DEF AcquireFails, storeVars
<1>3. CASE DrainFails(f)
  <2>1. Len(buffer) \in Nat /\ BufferMax \in Nat
    BY LenProperties, ConstantTypes
  <2>2. DrainScript => buffer' \in Seq(Clicks) /\ Len(buffer') <= BufferMax
                       /\ inflight' \in Seq(Clicks) /\ Len(inflight') <= BatchSize
    BY <2>1, DrainScriptLists
  <2>3. QED  BY <1>3, <2>2, LeaveTypes DEF DrainFails, storeVars
<1>4. CASE InsertFails(f)
  BY <1>4, StoreBlockKeeps, LeaveTypes DEF InsertFails, redisVars
<1>5. CASE InsertTimesOut(f)
  <2>1. [rows |-> claimed[f], sent |-> [t \in Tables |-> Len(stored[t])]] \in LateRequest
    BY LenProperties DEF LateRequest
  <2>2. QED  BY <1>5, <2>1, LeaveTypes DEF InsertTimesOut, redisVars
<1>6. CASE AckFails(f)
  <2>1. inflight' \in Seq(Clicks) /\ Len(inflight') <= BatchSize
    <3>1. inflight' = inflight \/ inflight' = <<>>
      BY <1>6 DEF AckFails
    <3>2. <<>> \in Seq(Clicks) /\ Len(<<>>) = 0 /\ 0 <= BatchSize
      BY ConstantTypes
    <3>3. QED  BY <3>1, <3>2
  <2>2. /\ UNCHANGED <<answer, buffer, dropped, lease, process, stored, late>>
        /\ Leave(f)
    BY <1>6 DEF AckFails, storeVars
  <2>3. QED  BY <2>1, <2>2, LeaveTypes
<1>7. QED  BY <1>2, <1>3, <1>4, <1>5, <1>6 DEF FlushFault

LEMMA ProcessTypes ==
  ASSUME TypeOK, NEW p \in Flushers,
         Start(p) \/ BeginTick(p) \/ BeginStop(p) \/ Release(p) \/ Exit(p) \/ Crash(p)
  PROVE  TypeOK'
<1> USE DEF TypeOK, storeVars, redisVars, Goto
<1>1. Tick(p) \in Flows /\ Stop(p) \in Flows /\ {} \in Block
  BY DEF Flows, Tick, Stop, Block
<1>2. CASE Start(p)
  BY <1>2 DEF Start
<1>3. CASE BeginTick(p)
  BY <1>1, <1>3 DEF BeginTick, EnterFlush
<1>4. CASE BeginStop(p)
  BY <1>1, <1>4 DEF BeginStop, EnterFlush
<1>5. CASE Release(p)
  BY <1>1, <1>5 DEF Release
<1>6. CASE Exit(p) \/ Crash(p)
  <2>1. ProcessEnds(p)
    BY <1>6 DEF Exit, Crash
  <2>2. /\ process' \in [Flushers -> {"down", "running", "stopping"}]
        /\ pc' \in [Flows -> {"idle", "acquire", "drain", "insert", "ack", "release", "exit"}]
        /\ batch' \in [Flows -> Nat]
        /\ claimed' \in [Flows -> Block]
    BY <1>1, <2>1 DEF ProcessEnds
  <2>3. QED  BY <2>1, <2>2 DEF ProcessEnds
<1>7. QED  BY <1>2, <1>3, <1>4, <1>5, <1>6

LEMMA IngestTypes ==
  ASSUME TypeOK, NEW c \in Clicks, IngestClick(c) \/ IngestFails(c)
  PROVE  TypeOK'
<1>1. PushScript(c) => /\ buffer' \in Seq(Clicks) /\ Len(buffer') <= BufferMax
                       /\ dropped' \in Nat
  <2>1. buffer \in Seq(Clicks) /\ Len(buffer) <= BufferMax /\ dropped \in Nat
    BY DEF TypeOK
  <2>2. Append(buffer, c) \in Seq(Clicks) /\ Len(Append(buffer, c)) = Len(buffer) + 1
    BY <2>1, AppendProperties
  <2>3. Len(buffer) \in Nat
    BY <2>1, LenProperties
  <2>4. QED  BY <2>1, <2>2, <2>3, ConstantTypes DEF PushScript, BufferFull
<1>2. QED
  BY <1>1 DEF TypeOK, IngestClick, IngestFails, flowVars, storeVars

LEMMA InitTypes == Init => TypeOK
<1>1. {} \in Block
  BY DEF Block
<1>2. QED  BY <1>1, EmptySeq, ConstantTypes DEF Init, TypeOK

LEMMA NextTypes == TypeOK /\ [Next]_vars => TypeOK'
<1> SUFFICES ASSUME TypeOK, [Next]_vars
             PROVE  TypeOK'
  OBVIOUS
<1>1. CASE LeaseLapses
  BY <1>1 DEF TypeOK, LeaseLapses, flowVars, storeVars
<1>2. CASE LateInsert
  <2>1. PICK w \in late : /\ \E T \in SUBSET Tables : StoreBlock(T, w.rows)
                          /\ late' = late \ {w}
    BY <1>2 DEF LateInsert
  <2>2. w.rows \in Block
    BY DEF TypeOK, LateRequest
  <2>3. QED  BY <1>2, <2>1, <2>2, StoreBlockKeeps DEF TypeOK, LateInsert, redisVars, flowVars
<1>3. CASE UNCHANGED vars
  BY <1>3 DEF vars, TypeOK
<1>4. QED
  BY <1>1, <1>2, <1>3, IngestTypes, FlushStepTypes, FlushFaultTypes, ProcessTypes DEF Next

\* Every reachable state is well typed, whatever fails and whenever the processes
\* stop, crash and restart.
THEOREM TypeCorrect == Spec => []TypeOK
BY InitTypes, NextTypes, PTL DEF Spec

-----------------------------------------------------------------------------
(***************************************************************************)
(* One flusher at a time. It takes a lease that is kept for as long as its *)
(* holder's flow works, and stop signals that arrive between ticks. The    *)
(* code ensures neither, and there is no third way in which it fails.      *)
(***************************************************************************)

\* The lease lapses only when no flow of its holder works, and stop() is called only when
\* no tick is under way.
LapsesIdle == LeaseLapses => \A f \in Flows : Working(f) => lease # f[1]
StopsIdle == \A p \in Flushers : BeginStop(p) => pc[Tick(p)] = "idle"

LeaseIsKept == [][LapsesIdle]_vars
StopsBetweenTicks == [][StopsIdle]_vars

\* A tick flushes only in a running process, stop() only in a stopping one.
Life ==
  \A p \in Flushers :
    /\ pc[Tick(p)] # "idle" => process[p] = "running"
    /\ pc[Stop(p)] # "idle" => process[p] = "stopping"

\* A working flow holds the lease and has not used up its batches.
Hold ==
  \A f \in Flows :
    /\ Working(f) => lease = f[1] /\ batch[f] < MaxBatches
    /\ ~Working(f) => batch[f] = 0

Exclusion == TypeOK /\ Life /\ Hold

LEMMA FlowCases ==
  /\ \A p \in Flushers : Tick(p) \in Flows /\ Stop(p) \in Flows /\ Tick(p) # Stop(p)
  /\ \A f \in Flows : f[1] \in Flushers /\ (f = Tick(f[1]) \/ f = Stop(f[1]))
  /\ \A p \in Flushers : Tick(p)[1] = p /\ Stop(p)[1] = p
                         /\ Tick(p)[2] = "tick" /\ Stop(p)[2] = "stop"
BY DEF Flows, Tick, Stop

LEMMA ExclusionGivesOneFlusher == Exclusion => OneFlusher
<1> SUFFICES ASSUME Exclusion, NEW f \in Flows, NEW g \in Flows, Working(f), Working(g)
             PROVE  f = g
  BY DEF OneFlusher
<1>1. f[1] = g[1]
  BY DEF Exclusion, Hold
<1>2. pc[f] # "idle" /\ pc[g] # "idle"
  BY DEF Working
<1>3. QED  BY <1>1, <1>2, FlowCases DEF Exclusion, Life

\* What a step of a flow does to the program counters: only its own moves, and
\* it never leaves or enters "idle" but by returning to it.
FlowFrame(f) ==
  /\ process' = process
  /\ \A g \in Flows : g # f => pc'[g] = pc[g] /\ batch'[g] = batch[g]
                               /\ claimed'[g] = claimed[g]
  /\ pc[f] # "idle"

LEMMA LeaveEffect ==
  ASSUME TypeOK, NEW f \in Flows, Leave(f)
  PROVE  /\ \A g \in Flows : g # f => pc'[g] = pc[g] /\ batch'[g] = batch[g]
                                      /\ claimed'[g] = claimed[g]
         /\ ~Working(f)' /\ batch'[f] = 0
<1>1. (IF f[2] = "tick" THEN "idle" ELSE "release") \in {"idle", "release"}
  BY Zenon
<1>2. pc'[f] \in {"idle", "release"}
  BY <1>1 DEF Leave, Goto, TypeOK
<1>3. QED  BY <1>2 DEF Leave, Goto, TypeOK, Working

LEMMA NextBatchEffect ==
  ASSUME TypeOK, NEW f \in Flows, NextBatch(f)
  PROVE  /\ \A g \in Flows : g # f => pc'[g] = pc[g] /\ batch'[g] = batch[g]
                                      /\ claimed'[g] = claimed[g]
         /\ \/ ~Working(f)' /\ batch'[f] = 0
            \/ pc'[f] = "drain" /\ batch'[f] = batch[f] + 1 /\ batch[f] + 1 < MaxBatches
<1>1. CASE batch[f] + 1 < MaxBatches
  BY <1>1 DEF NextBatch, Goto, TypeOK
<1>2. CASE ~(batch[f] + 1 < MaxBatches)
  BY <1>2, LeaveEffect DEF NextBatch
<1>3. QED  BY <1>1, <1>2

\* A step of flush() is a step of its flow, whoever has the lease.
LEMMA FlushFrame ==
  ASSUME TypeOK, NEW f \in Flows, FlushStep(f) \/ FlushFault(f)
  PROVE  FlowFrame(f)
<1>1. process' = process /\ pc[f] # "idle"
  BY DEF FlushStep, FlushFault, AcquireLease, AcquireFails, Drain, DrainFails,
     InsertSucceeds, InsertFails, InsertTimesOut, Ack, AckFails
<1>2. CASE Leave(f)
  BY <1>1, <1>2, LeaveEffect DEF FlowFrame
<1>3. CASE NextBatch(f)
  BY <1>1, <1>3, NextBatchEffect DEF FlowFrame
<1>4. CASE ~Leave(f) /\ ~NextBatch(f)
  <2>1. /\ \E label : Goto(f, label)
        /\ batch' = batch
        /\ claimed' = claimed \/ claimed' = [claimed EXCEPT ![f] = Rows(Batch)]
    BY <1>4 DEF FlushStep, FlushFault, AcquireLease, AcquireFails, Drain, DrainFails,
       InsertSucceeds, InsertFails, InsertTimesOut, Ack, AckFails
  <2>2. QED  BY <1>1, <2>1 DEF FlowFrame, Goto, TypeOK
<1>5. QED  BY <1>2, <1>3, <1>4

\* The steps of flush() respect the lease.
LEMMA FlushExclusion ==
  ASSUME Exclusion, NEW f \in Flows, FlushStep(f) \/ FlushFault(f)
  PROVE  /\ FlowFrame(f)
         /\ Working(f)' => lease' = f[1] /\ batch'[f] < MaxBatches
         /\ ~Working(f)' => batch'[f] = 0
         /\ lease' # lease => lease \in {NoOwner, f[1]} /\ lease' = f[1]
<1> USE DEF Exclusion
<1>0. MaxBatches \in Nat /\ 0 < MaxBatches
  BY PipelineConstants
<1>1. CASE AcquireLease(f) \/ AcquireFails(f)
  <2>1. process' = process /\ pc[f] = "acquire" /\ batch[f] = 0
    BY <1>1 DEF AcquireLease, AcquireFails, Hold, Working
  <2>2. lease' # lease => lease \in {NoOwner, f[1]} /\ lease' = f[1]
    BY <1>1 DEF AcquireLease, AcquireFails, Grantable
  <2>3. CASE Leave(f)
    BY <2>1, <2>2, <2>3, LeaveEffect DEF FlowFrame
  <2>4. CASE ~Leave(f)
    <3>1. lease' = f[1] /\ Goto(f, "drain") /\ UNCHANGED <<batch, claimed>>
      BY <1>1, <2>4 DEF AcquireLease, AcquireFails
    <3>2. QED  BY <1>0, <2>1, <2>2, <3>1 DEF FlowFrame, Goto, TypeOK, Working
  <2>5. QED  BY <2>3, <2>4
<1>2. CASE Drain(f) \/ DrainFails(f)
  <2>1. process' = process /\ pc[f] = "drain" /\ lease' = lease /\ Working(f)
    BY <1>2 DEF Drain, DrainFails, Working
  <2>2. CASE Leave(f)
    BY <2>1, <2>2, LeaveEffect DEF FlowFrame
  <2>3. CASE ~Leave(f)
    <3>1. /\ batch' = batch
          /\ claimed' = [claimed EXCEPT ![f] = Rows(Batch)]
          /\ Goto(f, "ack") \/ Goto(f, "insert")
      BY <1>2, <2>3 DEF Drain, DrainFails
    <3>2. QED  BY <2>1, <3>1 DEF FlowFrame, Goto, TypeOK, Working, Hold
  <2>4. QED  BY <2>2, <2>3
<1>3. CASE InsertSucceeds(f)
  BY <1>3 DEF InsertSucceeds, redisVars, FlowFrame, Goto, TypeOK, Working, Hold
<1>4. CASE InsertFails(f) \/ InsertTimesOut(f)
  BY <1>4, LeaveEffect DEF InsertFails, InsertTimesOut, redisVars, FlowFrame, Working
<1>5. CASE Ack(f) \/ AckFails(f)
  <2>1. process' = process /\ pc[f] = "ack" /\ lease' = lease /\ Working(f)
    BY <1>5 DEF Ack, AckFails, Working
  <2>2. CASE Leave(f)
    BY <2>1, <2>2, LeaveEffect DEF FlowFrame
  <2>3. CASE NextBatch(f)
    BY <1>0, <2>1, <2>3, NextBatchEffect DEF FlowFrame, Working, Hold
  <2>4. QED  BY <1>5, <2>2, <2>3 DEF Ack, AckFails
<1>6. QED  BY <1>1, <1>2, <1>3, <1>4, <1>5 DEF FlushStep, FlushFault

LEMMA ExclusionInvariant ==
  /\ Init => Exclusion
  /\ Exclusion /\ [Next]_vars /\ [LapsesIdle]_vars /\ [StopsIdle]_vars => Exclusion'
<1>1. Init => Exclusion
  <2>1. Init => TypeOK
    BY InitTypes
  <2>2. Init => Life /\ Hold
    BY FlowCases DEF Init, Life, Hold, Working
  <2>3. QED  BY <2>1, <2>2 DEF Exclusion
<1>2. Exclusion /\ [Next]_vars /\ [LapsesIdle]_vars /\ [StopsIdle]_vars => Exclusion'
  <2> SUFFICES ASSUME Exclusion, [Next]_vars, [LapsesIdle]_vars, [StopsIdle]_vars
               PROVE  Life' /\ Hold'
    BY NextTypes DEF Exclusion
  <2> USE DEF Exclusion
  <2>0. OneFlusher /\ NoOwner \notin Flushers
    BY ExclusionGivesOneFlusher, ConstantTypes
  <2>1. ASSUME NEW c \in Clicks, IngestClick(c) \/ IngestFails(c)
        PROVE  Life' /\ Hold'
    BY <2>1 DEF IngestClick, IngestFails, flowVars, Life, Hold, Working
  <2>2. ASSUME NEW f \in Flows, FlushStep(f) \/ FlushFault(f)
        PROVE  Life' /\ Hold'
    <3>1. /\ FlowFrame(f)
          /\ Working(f)' => lease' = f[1] /\ batch'[f] < MaxBatches
          /\ ~Working(f)' => batch'[f] = 0
          /\ lease' # lease => lease \in {NoOwner, f[1]} /\ lease' = f[1]
      BY <2>2, FlushExclusion
    <3>2. Life'
      BY <3>1, FlowCases DEF FlowFrame, Life
    <3>3. ASSUME NEW g \in Flows
          PROVE  /\ Working(g)' => lease' = g[1] /\ batch'[g] < MaxBatches
                 /\ ~Working(g)' => batch'[g] = 0
      <4>1. CASE g = f
        BY <3>1, <4>1
      <4>2. CASE g # f
        <5>1. Working(g)' <=> Working(g)
          BY <3>1, <4>2 DEF FlowFrame, Working
        <5>2. Working(g) => lease = g[1] /\ g[1] # NoOwner
          BY <2>0, FlowCases DEF Hold
        <5>3. QED  BY <3>1, <4>2, <5>1, <5>2 DEF FlowFrame, Hold
      <4>3. QED  BY <4>1, <4>2
    <3>4. QED  BY <3>2, <3>3 DEF Hold
  <2>3. ASSUME NEW p \in Flushers,
               Start(p) \/ BeginTick(p) \/ BeginStop(p) \/ Release(p) \/ Exit(p) \/ Crash(p)
        PROVE  Life' /\ Hold'
    <3> USE FlowCases DEF storeVars, redisVars, Goto, TypeOK
    <3>1. CASE Start(p)
      <4>1. Life'
        BY <3>1 DEF Start, Life
      <4>2. Hold'
        BY <3>1 DEF Start, Hold, Working
      <4>3. QED  BY <4>1, <4>2
    <3>2. CASE BeginTick(p)
      <4>1. Life'
        <5>1. /\ process[p] = "running" /\ process' = process
              /\ pc' = [pc EXCEPT ![Tick(p)] = "acquire"]
          BY <3>2 DEF BeginTick, EnterFlush
        <5>2. ASSUME NEW q \in Flushers
              PROVE  /\ pc'[Stop(q)] = pc[Stop(q)]
                     /\ q # p => pc'[Tick(q)] = pc[Tick(q)]
          <6>1. Stop(q) # Tick(p)
            BY DEF Tick, Stop
          <6>2. q # p => Tick(q) # Tick(p)
            BY DEF Tick
          <6>3. QED  BY <5>1, <6>1, <6>2
        <5>3. ASSUME NEW q \in Flushers
              PROVE  /\ pc'[Tick(q)] # "idle" => process'[q] = "running"
                     /\ pc'[Stop(q)] # "idle" => process'[q] = "stopping"
          BY <5>1, <5>2 DEF Life
        <5>4. QED  BY <5>3 DEF Life, Tick, Stop
      <4>2. Hold'
        BY <3>2 DEF BeginTick, EnterFlush, Hold, Working
      <4>3. QED  BY <4>1, <4>2
    <3>3. CASE BeginStop(p)
      <4>0. pc[Tick(p)] = "idle" /\ pc[Stop(p)] = "idle"
        <5>1. process[p] = "running" /\ process' = [process EXCEPT ![p] = "stopping"]
          BY <3>3 DEF BeginStop
        <5>2. vars' # vars
          BY <5>1 DEF vars
        <5>3. QED  BY <3>3, <5>1, <5>2 DEF StopsIdle, Life
      <4>1. Life'
        <5>1. /\ process[p] = "running"
              /\ process' = [process EXCEPT ![p] = "stopping"]
              /\ pc' = [pc EXCEPT ![Stop(p)] = "acquire"]
          BY <3>3 DEF BeginStop, EnterFlush
        <5>2. ASSUME NEW q \in Flushers
              PROVE  /\ pc'[Tick(q)] # "idle" => process'[q] = "running"
                     /\ pc'[Stop(q)] # "idle" => process'[q] = "stopping"
          <6>1. CASE q = p
            BY <4>0, <5>1, <6>1
          <6>2. CASE q # p
            <7>1. Tick(q) # Stop(p) /\ Stop(q) # Stop(p)
              BY <6>2 DEF Tick, Stop
            <7>2. pc'[Tick(q)] = pc[Tick(q)] /\ pc'[Stop(q)] = pc[Stop(q)] /\ process'[q] = process[q]
              BY <5>1, <6>2, <7>1
            <7>3. QED  BY <7>2 DEF Life
          <6>3. QED  BY <6>1, <6>2
        <5>3. QED  BY <5>2 DEF Life, Tick, Stop
      <4>2. Hold'
        BY <3>3, <4>0 DEF BeginStop, EnterFlush, Hold, Working
      <4>3. QED  BY <4>1, <4>2
    <3>4. CASE Release(p)
      <4>0. pc[Tick(p)] = "idle" /\ pc[Stop(p)] = "release"
        BY <3>4 DEF Release, Life
      <4>1. Life'
        <5>1. /\ process' = process
              /\ pc' = [pc EXCEPT ![Stop(p)] = "exit"]
          BY <3>4 DEF Release
        <5>2. ASSUME NEW q \in Flushers
              PROVE  /\ pc'[Tick(q)] = pc[Tick(q)]
                     /\ pc'[Stop(q)] # "idle" => pc[Stop(q)] # "idle"
          <6>1. Tick(q) # Stop(p)
            BY DEF Tick, Stop
          <6>2. CASE q = p
            BY <4>0, <5>1, <6>1, <6>2
          <6>3. CASE q # p
            <7>1. Stop(q) # Stop(p)
              BY <6>3 DEF Stop
            <7>2. QED  BY <5>1, <6>1, <7>1
          <6>4. QED  BY <6>2, <6>3
        <5>3. ASSUME NEW q \in Flushers
              PROVE  /\ pc'[Tick(q)] # "idle" => process'[q] = "running"
                     /\ pc'[Stop(q)] # "idle" => process'[q] = "stopping"
          BY <5>1, <5>2 DEF Life
        <5>4. QED  BY <5>3 DEF Life, Tick, Stop
      <4>2. ASSUME NEW f \in Flows, f[1] = p
            PROVE  ~Working(f) /\ ~Working(f)'
        BY <3>4, <4>0, <4>2 DEF Release, Working
      <4>3. ASSUME NEW f \in Flows, f[1] # p
            PROVE  (Working(f)' <=> Working(f)) /\ (Working(f) => lease' = lease)
        <5>1. pc'[f] = pc[f]
          BY <3>4, <4>3 DEF Release
        <5>2. Working(f) => lease # p
          BY <4>3 DEF Hold
        <5>3. QED  BY <3>4, <5>1, <5>2 DEF Release, Working
      <4>4. Hold'
        BY <3>4, <4>2, <4>3 DEF Release, Hold
      <4>5. QED  BY <4>1, <4>4
    <3>5. CASE Exit(p) \/ Crash(p)
      <4>1. ProcessEnds(p)
        BY <3>5 DEF Exit, Crash
      <4>2. Life'
        BY <4>1 DEF ProcessEnds, Life
      <4>3. Hold'
        BY <4>1 DEF ProcessEnds, Hold, Working
      <4>4. QED  BY <4>2, <4>3
    <3>6. QED  BY <2>3, <3>1, <3>2, <3>3, <3>4, <3>5
  <2>4. CASE LeaseLapses
    <3>1. ASSUME NEW f \in Flows PROVE ~Working(f)
      <4>1. vars' # vars
        BY <2>4 DEF LeaseLapses, vars
      <4>2. QED  BY <2>4, <4>1 DEF LapsesIdle, Hold
    <3>2. QED  BY <2>4, <3>1 DEF LeaseLapses, flowVars, Life, Hold, Working
  <2>5. CASE LateInsert
    BY <2>5 DEF LateInsert, redisVars, flowVars, Life, Hold, Working
  <2>6. CASE UNCHANGED vars
    BY <2>6 DEF vars, Life, Hold, Working
  <2>7. QED  BY <2>1, <2>2, <2>3, <2>4, <2>5, <2>6 DEF Next
<1>3. QED  BY <1>1, <1>2

\* While every lease is kept as long as its holder works and no stop signal falls into a
\* tick, at most one flow of one process is between acquiring the lease and leaving
\* flush(), however short the lease is.
THEOREM OneFlusherWhileLeased == Spec /\ LeaseIsKept /\ StopsBetweenTicks => []OneFlusher
<1>1. Init => Exclusion
  BY ExclusionInvariant
<1>2. Exclusion /\ [Next]_vars /\ [LapsesIdle]_vars /\ [StopsIdle]_vars => Exclusion'
  BY ExclusionInvariant
<1>3. QED
  BY <1>1, <1>2, ExclusionGivesOneFlusher, PTL DEF Spec, LeaseIsKept, StopsBetweenTicks

\* A working flow holds the lease, unless its batches have outlasted the TTL or its
\* process has been told to stop; and stop() flushes only in a stopping process.
OutOfLease(f) == batch[f] >= LeaseBatches \/ process[f[1]] = "stopping"

Covered ==
  /\ \A p \in Flushers : pc[Stop(p)] # "idle" => process[p] = "stopping"
  /\ \A f \in Flows : Working(f) => lease = f[1] \/ OutOfLease(f)

\* Two flows working at once.
OverlapIsOutOfLease ==
  \A f, g \in Flows : Working(f) /\ Working(g) /\ f # g => OutOfLease(f) \/ OutOfLease(g)

LEMMA CoveredGivesOverlap == TypeOK /\ Covered => OverlapIsOutOfLease
<1> SUFFICES ASSUME TypeOK, Covered, NEW f \in Flows, NEW g \in Flows,
                    Working(f), Working(g), f # g, lease = f[1], lease = g[1]
             PROVE  OutOfLease(f)
  BY DEF OverlapIsOutOfLease, Covered
<1>0. f[1] = g[1]
  OBVIOUS
<1>1. f = Stop(f[1]) \/ g = Stop(f[1])
  <2>1. f = Tick(f[1]) \/ f = Stop(f[1])
    BY FlowCases
  <2>2. g = Tick(f[1]) \/ g = Stop(f[1])
    BY <1>0, FlowCases
  <2>3. QED  BY <2>1, <2>2
<1>2. pc[Stop(f[1])] # "idle"
  BY <1>1 DEF Working
<1>3. QED  BY <1>2, FlowCases DEF Covered, OutOfLease

\* What a step of flush() does to the lease and to its flow.
LEMMA FlushCovered ==
  ASSUME TypeOK, NEW f \in Flows, FlushStep(f) \/ FlushFault(f)
  PROVE  /\ FlowFrame(f)
         /\ lease' # lease => lease \in {NoOwner, f[1]}
         /\ Working(f)' => lease' = f[1] \/ (Working(f) /\ lease' = lease /\ batch'[f] >= batch[f])
<1>1. FlowFrame(f)
  BY FlushFrame
<1>2. CASE AcquireLease(f) \/ AcquireFails(f)
  <2>1. lease' # lease => lease \in {NoOwner, f[1]}
    BY <1>2 DEF AcquireLease, AcquireFails, Grantable
  <2>2. CASE Leave(f)
    BY <1>1, <2>1, <2>2, LeaveEffect
  <2>3. CASE ~Leave(f)
    BY <1>1, <1>2, <2>1, <2>3 DEF AcquireLease, AcquireFails
  <2>4. QED  BY <2>2, <2>3
<1>3. CASE ~AcquireLease(f) /\ ~AcquireFails(f)
  <2>1. lease' = lease /\ Working(f)
    BY <1>3 DEF FlushStep, FlushFault, Drain, DrainFails,
       InsertSucceeds, InsertFails, InsertTimesOut, Ack, AckFails, redisVars, Working
  <2>2. CASE Leave(f)
    BY <1>1, <2>1, <2>2, LeaveEffect
  <2>3. CASE NextBatch(f)
    <3>1. Working(f)' => batch'[f] = batch[f] + 1
      BY <2>3, NextBatchEffect
    <3>2. QED  BY <1>1, <2>1, <3>1 DEF TypeOK
  <2>4. CASE ~Leave(f) /\ ~NextBatch(f)
    <3>1. batch' = batch
      BY <1>3, <2>4 DEF FlushStep, FlushFault, Drain, DrainFails,
         InsertSucceeds, InsertFails, InsertTimesOut, Ack, AckFails
    <3>2. QED  BY <1>1, <2>1, <3>1 DEF TypeOK
  <2>5. QED  BY <2>2, <2>3, <2>4
<1>4. QED  BY <1>2, <1>3

LEMMA CoveredStep == TypeOK /\ Covered /\ [Next]_vars => Covered'
<1> SUFFICES ASSUME TypeOK, Covered, [Next]_vars
             PROVE  Covered'
  OBVIOUS
<1>0. /\ NoOwner \notin Flushers /\ LeaseBatches \in Nat
      /\ \A f \in Flows : f[1] \in Flushers
  BY ConstantTypes, FlowCases
<1>1. CASE UNCHANGED <<lease, process, pc, batch>>
  BY <1>1 DEF Covered, OutOfLease, Working
<1>2. ASSUME NEW f \in Flows, FlushStep(f) \/ FlushFault(f)
      PROVE  Covered'
  <2>1. /\ FlowFrame(f)
        /\ lease' # lease => lease \in {NoOwner, f[1]}
        /\ Working(f)' => lease' = f[1] \/ (Working(f) /\ lease' = lease /\ batch'[f] >= batch[f])
    BY <1>2, FlushCovered
  <2>2. \A p \in Flushers : pc'[Stop(p)] # "idle" => process'[p] = "stopping"
    BY <2>1, FlowCases DEF FlowFrame, Covered
  <2>3. ASSUME NEW g \in Flows, Working(g)'
        PROVE  lease' = g[1] \/ OutOfLease(g)'
    <3>1. CASE g = f
      <4>1. CASE Working(f) /\ lease' = lease /\ batch'[f] >= batch[f]
        <5>1. batch[f] \in Nat /\ batch'[f] \in Nat
          BY NextTypes DEF TypeOK
        <5>2. QED  BY <1>0, <2>1, <3>1, <4>1, <5>1 DEF FlowFrame, Covered, OutOfLease
      <4>2. QED  BY <2>1, <2>3, <3>1, <4>1
    <3>2. CASE g # f
      <4>1. Working(g) /\ batch'[g] = batch[g] /\ process' = process
        BY <2>1, <2>3, <3>2 DEF FlowFrame, Working
      <4>2. lease = g[1] \/ OutOfLease(g)
        BY <4>1 DEF Covered
      <4>3. CASE OutOfLease(g)
        BY <4>1, <4>3 DEF OutOfLease
      <4>4. CASE lease = g[1] /\ lease' # lease
        <5>1. f[1] = g[1] /\ f[1] \in Flushers
          BY <1>0, <2>1, <4>4
        <5>2. \E p \in Flushers : p = g[1] /\ (f = Stop(p) \/ g = Stop(p))
          BY <3>2, <5>1, FlowCases
        <5>3. pc[f] # "idle" /\ pc[g] # "idle"
          BY <2>1, <4>1 DEF FlowFrame, Working
        <5>4. process[g[1]] = "stopping"
          BY <5>2, <5>3 DEF Covered
        <5>5. QED  BY <4>1, <5>4 DEF OutOfLease
      <4>5. QED  BY <4>2, <4>3, <4>4
    <3>3. QED  BY <3>1, <3>2
  <2>4. QED  BY <2>2, <2>3 DEF Covered, Stop
<1>3. ASSUME NEW p \in Flushers,
             Start(p) \/ BeginTick(p) \/ BeginStop(p) \/ Release(p) \/ Exit(p) \/ Crash(p)
      PROVE  Covered'
  <2>1. CASE Start(p)
    <3>1. /\ process[p] = "down" /\ process' = [process EXCEPT ![p] = "running"]
          /\ UNCHANGED <<lease, pc, batch>>
      BY <2>1 DEF Start, redisVars
    <3>2. \A q \in Flushers : process[q] = "stopping" => process'[q] = "stopping"
      BY <3>1 DEF TypeOK
    <3>3. QED  BY <1>0, <3>1, <3>2, FlowCases DEF Covered, OutOfLease, Working, Stop
  <2>2. CASE BeginTick(p)
    <3>1. pc' = [pc EXCEPT ![Tick(p)] = "acquire"] /\ UNCHANGED <<lease, process, batch>>
      BY <2>2 DEF BeginTick, EnterFlush, Goto, redisVars
    <3>2. \A q \in Flushers : pc'[Stop(q)] = pc[Stop(q)]
      BY <3>1 DEF TypeOK, Tick, Stop
    <3>3. \A f \in Flows : Working(f)' => Working(f)
      BY <3>1 DEF TypeOK, Working
    <3>4. QED  BY <3>1, <3>2, <3>3 DEF Covered, OutOfLease, Stop
  <2>3. CASE BeginStop(p)
    <3>1. /\ pc' = [pc EXCEPT ![Stop(p)] = "acquire"]
          /\ process' = [process EXCEPT ![p] = "stopping"]
          /\ UNCHANGED <<lease, batch>>
      BY <2>3 DEF BeginStop, EnterFlush, Goto, redisVars
    <3>2. \A q \in Flushers : q # p => pc'[Stop(q)] = pc[Stop(q)] /\ process'[q] = process[q]
      BY <3>1 DEF TypeOK, Stop
    <3>3. process'[p] = "stopping"
      BY <3>1 DEF TypeOK
    <3>4. \A f \in Flows : Working(f)' => Working(f)
      BY <3>1 DEF TypeOK, Working
    <3>5. \A q \in Flushers : process[q] = "stopping" => process'[q] = "stopping"
      BY <3>2, <3>3
    <3>6. \A q \in Flushers : pc'[Stop(q)] # "idle" => process'[q] = "stopping"
      BY <3>2, <3>3 DEF Covered
    <3>7. QED  BY <1>0, <3>1, <3>4, <3>5, <3>6 DEF Covered, OutOfLease, Stop
  <2>4. CASE Release(p)
    <3>1. /\ pc[Stop(p)] = "release" /\ pc' = [pc EXCEPT ![Stop(p)] = "exit"]
          /\ lease' # lease => lease = p
          /\ UNCHANGED <<process, batch>>
      BY <2>4 DEF Release, Goto
    <3>2. process[p] = "stopping"
      BY <3>1 DEF Covered
    <3>3. \A q \in Flushers : pc'[Stop(q)] # "idle" => q = p \/ pc[Stop(q)] # "idle"
      BY <3>1 DEF TypeOK, Stop
    <3>4. \A f \in Flows : Working(f)' => Working(f)
      BY <3>1 DEF TypeOK, Working
    <3>5. QED  BY <3>1, <3>2, <3>3, <3>4 DEF Covered, OutOfLease, Stop
  <2>5. CASE Exit(p) \/ Crash(p)
    <3>1. ProcessEnds(p)
      BY <2>5 DEF Exit, Crash
    <3>2. /\ process' = [process EXCEPT ![p] = "down"] /\ lease' = lease
          /\ \A f \in Flows : f[1] = p => pc'[f] = "idle"
          /\ \A f \in Flows : f[1] # p => pc'[f] = pc[f] /\ batch'[f] = batch[f]
      BY <3>1 DEF ProcessEnds, redisVars
    <3>3. \A q \in Flushers : q # p => process'[q] = process[q]
      BY <3>2 DEF TypeOK
    <3>4. \A q \in Flushers : pc'[Stop(q)] # "idle" => q # p /\ pc[Stop(q)] # "idle"
      BY <3>2, FlowCases
    <3>5. \A f \in Flows : Working(f)' => f[1] # p /\ Working(f)
      BY <3>2 DEF Working
    <3>6. QED  BY <1>0, <3>2, <3>3, <3>4, <3>5 DEF Covered, OutOfLease, Stop
  <2>6. QED  BY <1>3, <2>1, <2>2, <2>3, <2>4, <2>5
<1>4. CASE LeaseLapses
  BY <1>4 DEF LeaseLapses, flowVars, Covered, OutOfLease, Working
<1>5. QED
  BY <1>1, <1>2, <1>3, <1>4 DEF Next, vars, redisVars, flowVars, IngestClick, IngestFails, LateInsert

\* Whatever the lease's TTL, the length of a cycle and the moment of a stop signal: when
\* two flows work at once, the batches of one of them have outlasted its lease, or its
\* process is stopping. So OneFlusher is lost in those two ways and in no other.
THEOREM OverlapsAreOutOfLease == Spec => []OverlapIsOutOfLease
<1>1. Init => Covered
  BY FlowCases DEF Init, Covered, Working
<1>2. QED
  BY <1>1, TypeCorrect, InitTypes, NextTypes, CoveredStep, CoveredGivesOverlap, PTL DEF Spec

-----------------------------------------------------------------------------
(***************************************************************************)
(* No acknowledged click is lost.                                          *)
(***************************************************************************)

\* A flow that inserts or acknowledges holds what the in-flight list holds.
Claim ==
  \A f \in Flows : pc[f] \in {"insert", "ack"} =>
    inflight # <<>> /\ claimed[f] = Rows(inflight)

\* A flow acknowledges only after every table counted its rows.
Confirmed ==
  \A f \in Flows : pc[f] = "ack" =>
    \A c \in claimed[f], t \in Tables : Counted(t, c)

Custody == Claim /\ Confirmed /\ NoLoss

\* No step takes a counted click out of a table.
LEMMA CountedForever ==
  ASSUME TypeOK, [Next]_vars
  PROVE  \A t \in Tables, c \in Clicks : Counted(t, c) => Counted(t, c)'
<1> USE DEF Counted
<1>1. CASE UNCHANGED stored
  BY <1>1
<1>2. ASSUME NEW f \in Flows, InsertSucceeds(f) \/ InsertFails(f)
      PROVE  \A t \in Tables, c \in Clicks : Counted(t, c) => Counted(t, c)'
  BY <1>2, StoreBlockKeeps DEF InsertSucceeds, InsertFails, TypeOK
<1>3. CASE LateInsert
  <2>1. PICK w \in late : \E T \in SUBSET Tables : StoreBlock(T, w.rows)
    BY <1>3 DEF LateInsert
  <2>2. w.rows \in Block
    BY DEF TypeOK, LateRequest
  <2>3. QED  BY <2>1, <2>2, StoreBlockKeeps DEF TypeOK
<1>4. CASE /\ ~LateInsert
           /\ \A f \in Flows : ~InsertSucceeds(f) /\ ~InsertFails(f)
  <2>1. UNCHANGED stored
    BY <1>4 DEF Next, vars, storeVars, IngestClick, IngestFails, FlushStep, FlushFault,
         AcquireLease, AcquireFails, Drain, DrainFails, InsertTimesOut, Ack, AckFails,
         Start, BeginTick, BeginStop, Release, Exit, Crash, ProcessEnds, LeaseLapses
  <2>2. QED  BY <1>1, <2>1
<1>5. QED  BY <1>2, <1>3, <1>4

\* A step that empties the in-flight list is an ack(), of rows every table counts.
LEMMA OnlyAckEmpties ==
  ASSUME TypeOK, Claim, Confirmed, [Next]_vars, inflight # <<>>, inflight' # inflight
  PROVE  /\ inflight' = <<>>
         /\ \A c \in Rows(inflight), t \in Tables : Counted(t, c)
<1>1. PICK f \in Flows : Ack(f) \/ AckFails(f)
  BY DEF Next, vars, redisVars, IngestClick, IngestFails, FlushStep, FlushFault,
         AcquireLease, AcquireFails, Drain, DrainFails, DrainScript, Batch,
         InsertSucceeds, InsertFails, InsertTimesOut, LateInsert,
         Start, BeginTick, BeginStop, Release, Exit, Crash, ProcessEnds, LeaseLapses
<1>2. pc[f] = "ack" /\ inflight' = <<>>
  BY <1>1 DEF Ack, AckFails
<1>3. QED  BY <1>2 DEF Claim, Confirmed

\* The buffer and the in-flight list together lose a click only to ack().
LEMMA ListsKeep ==
  ASSUME TypeOK, Claim, Confirmed, [Next]_vars,
         NEW c \in Clicks, c \in Range(buffer) \cup Range(inflight)
  PROVE  \/ c \in Range(buffer') \cup Range(inflight') \cup Corrupt
         \/ \A t \in Tables : Counted(t, c)
<1>1. CASE inflight # <<>> /\ inflight' # inflight
  <2>1. buffer' = buffer
    BY <1>1 DEF Next, vars, redisVars, IngestClick, IngestFails, FlushStep, FlushFault,
         AcquireLease, AcquireFails, Drain, DrainFails, DrainScript, Ack, AckFails,
         InsertSucceeds, InsertFails, InsertTimesOut, LateInsert,
         Start, BeginTick, BeginStop, Release, Exit, Crash, ProcessEnds, LeaseLapses
  <2>2. \A t \in Tables : c \in Rows(inflight) => Counted(t, c)
    BY <1>1, OnlyAckEmpties
  <2>3. QED  BY <2>1, <2>2 DEF Rows
<1>2. CASE DrainScript
  BY <1>2, DrainScriptLists DEF TypeOK
<1>3. ASSUME NEW d \in Clicks, PushScript(d), inflight' = inflight
      PROVE  c \in Range(buffer') \cup Range(inflight')
  <2>1. buffer \in Seq(Clicks)
    BY DEF TypeOK
  <2>2. Range(Append(buffer, d)) = Range(buffer) \cup {d}
    BY <2>1, AppendRange
  <2>3. Range(buffer) \subseteq Range(buffer')
    BY <1>3, <2>2 DEF PushScript
  <2>4. QED  BY <1>3, <2>3
<1>4. CASE buffer' = buffer /\ inflight' = inflight
  BY <1>4
<1>5. \/ inflight # <<>> /\ inflight' # inflight
      \/ DrainScript
      \/ \E d \in Clicks : PushScript(d) /\ inflight' = inflight
      \/ buffer' = buffer /\ inflight' = inflight
  <2>1. ASSUME NEW f \in Flows, FlushStep(f) \/ FlushFault(f)
        PROVE  \/ inflight # <<>> /\ inflight' # inflight
               \/ DrainScript
               \/ buffer' = buffer /\ inflight' = inflight
    BY <2>1 DEF redisVars, FlushStep, FlushFault, AcquireLease, AcquireFails, Drain,
         DrainFails, Ack, AckFails, InsertSucceeds, InsertFails, InsertTimesOut
  <2>2. ASSUME NEW d \in Clicks, IngestClick(d) \/ IngestFails(d)
        PROVE  inflight' = inflight /\ (PushScript(d) \/ buffer' = buffer)
    BY <2>2 DEF IngestClick, IngestFails
  <2>3. QED
    BY <2>1, <2>2 DEF Next, vars, redisVars, LateInsert,
         Start, BeginTick, BeginStop, Release, Exit, Crash, ProcessEnds, LeaseLapses
<1>6. QED  BY <1>1, <1>2, <1>3, <1>4, <1>5

\* A click is first answered "buffered" by the step that buffers it.
LEMMA BufferedOnAnswer ==
  ASSUME TypeOK, [Next]_vars, NEW c \in Clicks, answer'[c] = "buffered"
  PROVE  answer[c] = "buffered" \/ c \in Range(buffer')
<1>1. CASE answer' = answer
  BY <1>1
<1>2. ASSUME NEW d \in Clicks, IngestFails(d)
      PROVE  answer[c] = "buffered"
  BY <1>2 DEF IngestFails, TypeOK
<1>3. ASSUME NEW d \in Clicks, IngestClick(d)
      PROVE  answer[c] = "buffered" \/ c \in Range(buffer')
  <2>1. CASE d # c
    BY <1>3, <2>1 DEF IngestClick, TypeOK
  <2>2. CASE d = c
    <3>1. ~BufferFull
      BY <1>3, <2>2 DEF IngestClick, TypeOK
    <3>2. buffer' = Append(buffer, c)
      BY <1>3, <2>2, <3>1 DEF IngestClick, PushScript
    <3>3. QED  BY <3>2, AppendRange DEF TypeOK
  <2>3. QED  BY <2>1, <2>2
<1>4. QED
  BY <1>1, <1>2, <1>3
     DEF Next, vars, FlushStep, FlushFault,
         AcquireLease, AcquireFails, Drain, DrainFails, Ack, AckFails,
         InsertSucceeds, InsertFails, InsertTimesOut, LateInsert,
         Start, BeginTick, BeginStop, Release, Exit, Crash, ProcessEnds, LeaseLapses

LEMMA NoLossStep ==
  ASSUME TypeOK, Custody, [Next]_vars
  PROVE  NoLoss'
<1> SUFFICES ASSUME NEW c \in Clicks, answer'[c] = "buffered"
             PROVE  Kept(c)'
  BY DEF NoLoss
<1>1. CASE c \in Range(buffer')
  BY <1>1 DEF Kept
<1>2. CASE answer[c] = "buffered"
  <2>1. Kept(c)
    BY <1>2 DEF Custody, NoLoss
  <2>2. CASE c \in Range(buffer) \cup Range(inflight)
    BY <2>2, ListsKeep, CountedForever DEF Custody, Kept
  <2>3. CASE c \in Corrupt
    BY <2>3 DEF Kept
  <2>4. CASE \A t \in Tables : Counted(t, c)
    BY <2>4, CountedForever DEF Kept
  <2>5. QED  BY <2>1, <2>2, <2>3, <2>4 DEF Kept
<1>3. QED  BY <1>1, <1>2, BufferedOnAnswer

\* Another flow moves: what this flow claimed is still what is in flight, and the
\* tables it reached still count it.
LEMMA CustodyFrame ==
  ASSUME TypeOK, Claim, Confirmed, [Next]_vars, NEW g \in Flows,
         pc'[g] = pc[g], claimed'[g] = claimed[g], inflight' = inflight
  PROVE  /\ pc'[g] \in {"insert", "ack"} => inflight' # <<>> /\ claimed'[g] = Rows(inflight')
         /\ pc'[g] = "ack" => \A c \in claimed'[g], t \in Tables : Counted(t, c)'
<1>1. \A c \in claimed[g] : c \in Clicks
  BY DEF TypeOK, Block
<1>2. QED  BY <1>1, CountedForever DEF Claim, Confirmed

\* The steps of flush(): the flow that moves is the only one that works.
LEMMA FlushCustody ==
  ASSUME TypeOK, OneFlusher, Claim, Confirmed, [Next]_vars,
         NEW f \in Flows, FlushStep(f) \/ FlushFault(f)
  PROVE  Claim' /\ Confirmed'
<1> DEFINE Good(g) ==
      /\ pc'[g] \in {"insert", "ack"} => inflight' # <<>> /\ claimed'[g] = Rows(inflight')
      /\ pc'[g] = "ack" => \A c \in claimed'[g], t \in Tables : Counted(t, c)'
<1>1. TypeOK /\ OneFlusher /\ FlowFrame(f)
  BY FlushFrame
<1>2. ASSUME NEW g \in Flows, g # f
      PROVE  Good(g)
  <2>1. pc'[g] = pc[g] /\ claimed'[g] = claimed[g]
    BY <1>1, <1>2 DEF FlowFrame
  <2>2. CASE inflight' = inflight
    BY <1>1, <2>1, <2>2, CustodyFrame
  <2>3. CASE inflight' # inflight
    <3>1. Working(f)
      BY <2>3 DEF FlushStep, FlushFault, AcquireLease, AcquireFails, Drain, DrainFails,
           Ack, AckFails, InsertSucceeds, InsertFails, InsertTimesOut, redisVars, Working
    <3>2. pc'[g] \notin {"insert", "ack"}
      BY <1>1, <1>2, <2>1, <3>1 DEF OneFlusher, Working
    <3>3. QED  BY <3>2
  <2>4. QED  BY <2>2, <2>3
<1>3. Good(f)
  <2>1. CASE Drain(f) /\ Batch # <<>>
    <3>1. inflight' = Batch /\ claimed'[f] = Rows(Batch)
      BY <1>1, <2>1 DEF Drain, DrainScript, TypeOK
    <3>2. pc'[f] = "ack" => Rows(Batch) = {}
      BY <1>1, <2>1 DEF Drain, Goto, TypeOK
    <3>3. QED  BY <2>1, <3>1, <3>2
  <2>2. CASE InsertSucceeds(f)
    <3>1. /\ pc[f] = "insert" /\ inflight' = inflight /\ claimed' = claimed
          /\ claimed[f] \in Block /\ StoreBlock(Tables, claimed[f])
      BY <1>1, <2>2 DEF InsertSucceeds, redisVars, TypeOK
    <3>2. \A c \in claimed[f], t \in Tables : Counted(t, c)'
      BY <1>1, <3>1, StoreBlockCounts DEF TypeOK
    <3>3. QED  BY <3>1, <3>2 DEF Claim
  <2>3. CASE ~InsertSucceeds(f) /\ ~(Drain(f) /\ Batch # <<>>)
    <3>1. pc'[f] \notin {"insert", "ack"}
      <4>1. CASE Leave(f)
        BY <1>1, <4>1, LeaveEffect DEF Working
      <4>2. CASE NextBatch(f)
        BY <1>1, <4>2, NextBatchEffect DEF Working
      <4>3. CASE AcquireLease(f) /\ ~Leave(f)
        BY <1>1, <4>3 DEF AcquireLease, Goto, TypeOK
      <4>4. QED
        BY <2>3, <4>1, <4>2, <4>3 DEF FlushStep, FlushFault, AcquireFails, Drain,
             DrainFails, Ack, AckFails, InsertFails, InsertTimesOut
    <3>2. QED  BY <3>1
  <2>4. QED  BY <2>1, <2>2, <2>3
<1>4. ASSUME NEW g \in Flows PROVE Good(g)
  BY <1>2, <1>3
<1>5. QED  BY <1>4 DEF Claim, Confirmed, Rows

LEMMA CustodyInvariant ==
  /\ Init => Custody
  /\ TypeOK /\ OneFlusher /\ Custody /\ [Next]_vars => Custody'
<1>1. Init => Custody
  BY DEF Init, Custody, Claim, Confirmed, NoLoss
<1>2. TypeOK /\ OneFlusher /\ Custody /\ [Next]_vars => Custody'
  <2> SUFFICES ASSUME TypeOK, OneFlusher, Custody, [Next]_vars
               PROVE  Claim' /\ Confirmed'
    BY NoLossStep DEF Custody
  <2>1. ASSUME NEW f \in Flows, FlushStep(f) \/ FlushFault(f)
        PROVE  Claim' /\ Confirmed'
    BY <2>1, FlushCustody DEF Custody
  <2>2. CASE ~ \E f \in Flows : FlushStep(f) \/ FlushFault(f)
    <3>1. inflight' = inflight
      BY <2>2 DEF Next, vars, redisVars, IngestClick, IngestFails, LateInsert, LeaseLapses,
           Start, BeginTick, BeginStop, Release, Exit, Crash, ProcessEnds
    <3>2. ASSUME NEW g \in Flows
          PROVE  \/ pc'[g] \notin {"insert", "ack"}
                 \/ pc'[g] = pc[g] /\ claimed'[g] = claimed[g]
      <4> USE DEF TypeOK, Goto
      <4>1. ASSUME NEW p \in Flushers, BeginTick(p) \/ BeginStop(p) \/ Release(p)
            PROVE  \/ pc'[g] \notin {"insert", "ack"}
                   \/ pc'[g] = pc[g] /\ claimed'[g] = claimed[g]
        BY <4>1, FlowCases DEF BeginTick, BeginStop, Release, EnterFlush
      <4>2. ASSUME NEW p \in Flushers, ProcessEnds(p)
            PROVE  \/ pc'[g] \notin {"insert", "ack"}
                   \/ pc'[g] = pc[g] /\ claimed'[g] = claimed[g]
        BY <4>2 DEF ProcessEnds
      <4>3. QED
        BY <2>2, <4>1, <4>2 DEF Next, vars, flowVars, IngestClick, IngestFails, LateInsert,
             LeaseLapses, Start, Exit, Crash
    <3>3. ASSUME NEW g \in Flows
          PROVE  /\ pc'[g] \in {"insert", "ack"} =>
                      inflight' # <<>> /\ claimed'[g] = Rows(inflight')
                 /\ pc'[g] = "ack" => \A c \in claimed'[g], t \in Tables : Counted(t, c)'
      BY <3>1, <3>2, CustodyFrame DEF Custody
    <3>4. QED  BY <3>3 DEF Claim, Confirmed, Rows
  <2>3. QED  BY <2>1, <2>2
<1>3. QED  BY <1>1, <1>2

-----------------------------------------------------------------------------
(***************************************************************************)
(* The tables agree. What some table counts, or an abandoned insert may    *)
(* still write, is in flight until every table counts it.                  *)
(***************************************************************************)

Watched(c) == c \in Rows(inflight) \/ \A u \in Tables : Counted(u, c)

\* A partly written batch, and one an abandoned insert carries, is still in flight.
Agreed ==
  /\ \A t \in Tables, c \in Clicks : Counted(t, c) => Watched(c)
  /\ \A w \in late : \A c \in w.rows : Watched(c)

\* An insert makes a table count no click but its own rows.
LEMMA StoreBlockAdds ==
  ASSUME stored \in [Tables -> Seq(Block)],
         NEW T, NEW rows \in Block, StoreBlock(T, rows),
         NEW t \in Tables, NEW c \in Clicks, Counted(t, c)'
  PROVE  Counted(t, c) \/ c \in rows
<1>1. stored[t] \in Seq(Block) /\ stored'[t] \in {stored[t], Append(stored[t], rows)}
  BY DEF StoreBlock
<1>2. PICK k \in DOMAIN stored'[t] : c \in stored'[t][k]
  BY DEF Counted
<1>3. CASE stored'[t] = stored[t]
  BY <1>2, <1>3 DEF Counted
<1>4. CASE stored'[t] = Append(stored[t], rows)
  <2>1. k \in 1..(Len(stored[t]) + 1) /\ DOMAIN stored[t] = 1..Len(stored[t])
    BY <1>1, <1>2, <1>4, AppendProperties, LenProperties
  <2>2. /\ k \in 1..Len(stored[t]) => stored'[t][k] = stored[t][k]
        /\ stored'[t][Len(stored[t]) + 1] = rows
    BY <1>1, <1>4, AppendProperties
  <2>3. CASE k \in 1..Len(stored[t])
    BY <1>2, <2>1, <2>2, <2>3 DEF Counted
  <2>4. CASE k = Len(stored[t]) + 1
    BY <1>2, <2>2, <2>4
  <2>5. QED  BY <1>1, <2>1, <2>3, <2>4, LenProperties
<1>5. QED  BY <1>1, <1>3, <1>4

\* Only ack() takes rows out of flight, and every table counts them by then.
LEMMA WatchedForever ==
  ASSUME TypeOK, Claim, Confirmed, [Next]_vars, NEW c \in Clicks, Watched(c)
  PROVE  Watched(c)'
<1>1. CASE \A u \in Tables : Counted(u, c)
  BY <1>1, CountedForever DEF Watched
<1>2. CASE c \in Rows(inflight) /\ inflight' = inflight
  BY <1>2 DEF Watched, Rows
<1>3. CASE c \in Rows(inflight) /\ inflight' # inflight
  <2>1. inflight # <<>>
    BY <1>3 DEF Rows, Range
  <2>2. \A u \in Tables : Counted(u, c)
    BY <1>3, <2>1, OnlyAckEmpties
  <2>3. QED  BY <2>2, CountedForever DEF Watched
<1>4. QED  BY <1>1, <1>2, <1>3 DEF Watched

\* What a table newly counts was in flight, or came from an abandoned insert.
LEMMA NewlyCounted ==
  ASSUME TypeOK, Claim, Agreed, [Next]_vars,
         NEW t \in Tables, NEW c \in Clicks, Counted(t, c)'
  PROVE  Watched(c)
<1>1. CASE UNCHANGED stored
  BY <1>1 DEF Counted, Agreed
<1>2. ASSUME NEW f \in Flows, InsertSucceeds(f) \/ InsertFails(f)
      PROVE  Watched(c)
  <2>1. pc[f] = "insert" /\ \E T \in SUBSET Tables : StoreBlock(T, claimed[f])
    BY <1>2 DEF InsertSucceeds, InsertFails
  <2>2. claimed[f] = Rows(inflight) /\ claimed[f] \in Block
    BY <2>1 DEF Claim, TypeOK
  <2>3. Counted(t, c) \/ c \in Rows(inflight)
    BY <2>1, <2>2, StoreBlockAdds DEF TypeOK
  <2>4. QED  BY <2>3 DEF Agreed, Watched
<1>3. CASE LateInsert
  <2>1. PICK w \in late : \E T \in SUBSET Tables : StoreBlock(T, w.rows)
    BY <1>3 DEF LateInsert
  <2>2. w.rows \in Block
    BY DEF TypeOK, LateRequest
  <2>3. Counted(t, c) \/ c \in w.rows
    BY <2>1, <2>2, StoreBlockAdds DEF TypeOK
  <2>4. QED  BY <2>3 DEF Agreed
<1>4. CASE /\ ~LateInsert
           /\ \A f \in Flows : ~InsertSucceeds(f) /\ ~InsertFails(f)
  <2>1. UNCHANGED stored
    BY <1>4 DEF Next, vars, storeVars, IngestClick, IngestFails, FlushStep, FlushFault,
         AcquireLease, AcquireFails, Drain, DrainFails, InsertTimesOut, Ack, AckFails,
         Start, BeginTick, BeginStop, Release, Exit, Crash, ProcessEnds, LeaseLapses
  <2>2. QED  BY <1>1, <2>1
<1>5. QED  BY <1>2, <1>3, <1>4

\* A newly abandoned insert carries the rows in flight.
LEMMA NewlyAbandoned ==
  ASSUME TypeOK, Claim, Agreed, [Next]_vars, NEW w \in late', NEW c \in w.rows
  PROVE  Watched(c)
<1>1. CASE w \in late
  BY <1>1 DEF Agreed
<1>2. ASSUME NEW f \in Flows, InsertTimesOut(f), w \notin late
      PROVE  Watched(c)
  <2>1. pc[f] = "insert" /\ w.rows = claimed[f]
    BY <1>2 DEF InsertTimesOut
  <2>2. QED  BY <2>1 DEF Claim, Watched
<1>3. CASE \A f \in Flows : ~InsertTimesOut(f)
  <2>1. late' \subseteq late
    BY <1>3 DEF Next, vars, storeVars, IngestClick, IngestFails, FlushStep, FlushFault,
         AcquireLease, AcquireFails, Drain, DrainFails, InsertSucceeds, InsertFails,
         Ack, AckFails, LateInsert,
         Start, BeginTick, BeginStop, Release, Exit, Crash, ProcessEnds, LeaseLapses
  <2>2. QED  BY <1>1, <2>1
<1>4. QED  BY <1>1, <1>2, <1>3

LEMMA AgreedStep ==
  ASSUME TypeOK, TypeOK', Claim, Confirmed, Agreed, [Next]_vars
  PROVE  Agreed'
<1>1. ASSUME NEW t \in Tables, NEW c \in Clicks, Counted(t, c)'
      PROVE  Watched(c)'
  BY <1>1, NewlyCounted, WatchedForever
<1>2. ASSUME NEW w \in late', NEW c \in w.rows
      PROVE  Watched(c)'
  <2>1. c \in Clicks
    BY DEF TypeOK, LateRequest, Block
  <2>2. QED  BY <2>1, NewlyAbandoned, WatchedForever
<1>3. QED  BY <1>1, <1>2 DEF Agreed

LEMMA AgreedGivesRollups == Agreed => RollupsAgree
BY DEF Agreed, Watched, RollupsAgree, Rows, Range

-----------------------------------------------------------------------------
(***************************************************************************)
(* Counted once. A batch is written only while nothing was written after   *)
(* its own block, or while the deduplication window still reaches back to  *)
(* that block. That takes abandoned inserts that are executed within the   *)
(* window: nothing in the code bounds how late they are.                   *)
(***************************************************************************)

LateInWindow == LateBlocks <= DedupWindow

Fresh(c) ==
  /\ \A t \in Tables : ~Counted(t, c)
  /\ \A w \in late : c \notin w.rows

\* A click the edge has not posted yet is nowhere.
Unsent ==
  \A c \in Clicks : answer[c] = "none" => Fresh(c) /\ c \notin Range(buffer) \cup Range(inflight)

\* A buffered click is buffered once and was never sent to ClickHouse.
Waiting ==
  /\ \A i, j \in DOMAIN buffer : buffer[i] = buffer[j] => i = j
  /\ \A c \in Range(buffer) : Fresh(c) /\ c \notin Range(inflight)

\* A table that has written the batch in flight has written nothing since.
LastIfInFlight ==
  \A t \in Tables : \A k \in DOMAIN stored[t] :
    stored[t][k] \cap Rows(inflight) # {} => stored[t][k] = Rows(inflight) /\ k = Len(stored[t])

\* The block of an abandoned insert, wherever it is written, is not older than the
\* insert, and unless the batch is in flight every table has written it.
Abandoned ==
  \A w \in late :
    /\ w.rows # {}
    /\ \/ w.rows = Rows(inflight)
       \/ /\ w.rows \cap Range(inflight) = {}
          /\ \A t \in Tables : \E k \in DOMAIN stored[t] : stored[t][k] = w.rows
    /\ \A t \in Tables : w.sent[t] <= Len(stored[t])
    /\ \A t \in Tables : \A k \in DOMAIN stored[t] :
         stored[t][k] \cap w.rows # {} => stored[t][k] = w.rows /\ k >= w.sent[t]

Ledger == Unsent /\ Waiting /\ LastIfInFlight /\ Abandoned /\ CountedOnce

\* A flow inserts at least one row.
InsertsRows == \A f \in Flows : pc[f] = "insert" => claimed[f] # {}

LEMMA InsertsRowsInvariant ==
  /\ Init => InsertsRows
  /\ TypeOK /\ InsertsRows /\ [Next]_vars => InsertsRows'
<1>1. Init => InsertsRows
  BY DEF Init, InsertsRows
<1>2. ASSUME TypeOK, InsertsRows, [Next]_vars, NEW g \in Flows, pc'[g] = "insert"
      PROVE  claimed'[g] # {}
  <2>1. /\ pc \in [Flows -> {"idle", "acquire", "drain", "insert", "ack", "release", "exit"}]
        /\ claimed \in [Flows -> Block] /\ TypeOK
        /\ pc[g] = "insert" => claimed[g] # {}
    BY <1>2 DEF TypeOK, InsertsRows
  <2>2. ASSUME NEW f \in Flows, FlushStep(f) \/ FlushFault(f)
        PROVE  claimed'[g] # {}
    <3>1. FlowFrame(f)
      BY <1>2, <2>2, FlushFrame
    <3>2. CASE g # f
      BY <1>2, <2>1, <3>1, <3>2 DEF FlowFrame
    <3>3. CASE g = f
      <4>1. ~Leave(f)
        BY <1>2, <2>1, <3>3, LeaveEffect DEF Working
      <4>2. ~NextBatch(f)
        <5>1. SUFFICES ASSUME NextBatch(f)
                       PROVE  FALSE
          OBVIOUS
        <5>2. Goto(f, "drain")
          BY <4>1, <5>1 DEF NextBatch
        <5>3. QED  BY <1>2, <2>1, <3>3, <5>2 DEF Goto
      <4>3. Drain(f)
        BY <1>2, <2>1, <2>2, <3>3, <4>1, <4>2 DEF FlushStep, FlushFault, AcquireLease,
           AcquireFails, DrainFails, Ack, AckFails, InsertSucceeds, InsertFails,
           InsertTimesOut, Goto
      <4>4. /\ Goto(f, IF Rows(Batch) = {} THEN "ack" ELSE "insert")
            /\ claimed' = [claimed EXCEPT ![f] = Rows(Batch)]
        BY <4>1, <4>3 DEF Drain
      <4>5. claimed'[g] = Rows(Batch)
        BY <2>1, <3>3, <4>4
      <4>6. Rows(Batch) # {}
        <5>1. SUFFICES ASSUME Rows(Batch) = {}
                       PROVE  FALSE
          OBVIOUS
        <5>2. Goto(f, "ack")
          BY <4>4, <5>1
        <5>3. QED  BY <1>2, <2>1, <3>3, <5>2 DEF Goto
      <4>7. QED  BY <4>5, <4>6
    <3>4. QED  BY <3>2, <3>3
  <2>3. CASE ~ \E f \in Flows : FlushStep(f) \/ FlushFault(f)
    <3>1. ASSUME NEW p \in Flushers, BeginTick(p) \/ BeginStop(p) \/ Release(p)
          PROVE  pc[g] = "insert" /\ claimed' = claimed
      <4>1. \E f \in Flows, label \in {"acquire", "exit"} : Goto(f, label)
        BY <3>1, FlowCases DEF BeginTick, BeginStop, Release, EnterFlush
      <4>2. pc[g] = "insert"
        BY <1>2, <2>1, <4>1 DEF Goto
      <4>3. claimed' = claimed
        BY <3>1 DEF BeginTick, BeginStop, Release, EnterFlush
      <4>4. QED  BY <4>2, <4>3
    <3>2. ASSUME NEW p \in Flushers, ProcessEnds(p)
          PROVE  claimed'[g] # {}
      BY <1>2, <2>1, <3>2 DEF ProcessEnds
    <3>3. QED
      BY <1>2, <2>1, <2>3, <3>1, <3>2 DEF Next, vars, flowVars, IngestClick, IngestFails,
         LateInsert, LeaseLapses, Start, Exit, Crash
  <2>4. QED  BY <2>2, <2>3
<1>3. QED  BY <1>1, <1>2 DEF InsertsRows

\* What StoreBlock leaves of one table: the same blocks, or one more at the end.
LEMMA StoreBlockTables ==
  ASSUME stored \in [Tables -> Seq(Block)],
         NEW T, NEW rows \in Block, StoreBlock(T, rows), NEW t \in Tables
  PROVE  \/ stored'[t] = stored[t]
         \/ /\ ~Remembered(t, rows)
            /\ Len(stored'[t]) = Len(stored[t]) + 1
            /\ DOMAIN stored[t] = 1..Len(stored[t])
            /\ DOMAIN stored'[t] = 1..(Len(stored[t]) + 1)
            /\ \A k \in 1..Len(stored[t]) : stored'[t][k] = stored[t][k]
            /\ stored'[t][Len(stored[t]) + 1] = rows
<1>1. CASE stored'[t] = stored[t]
  BY <1>1
<1>2. CASE stored'[t] # stored[t]
  <2>1. ~Remembered(t, rows) /\ stored'[t] = Append(stored[t], rows)
    BY <1>2 DEF StoreBlock
  <2>2. stored[t] \in Seq(Block)
    OBVIOUS
  <2>3. QED  BY <2>1, <2>2, AppendProperties, LenProperties
<1>3. QED  BY <1>1, <1>2

\* The batch in flight is appended to a table that has no block with any of its
\* rows, or it is the last block there and ClickHouse remembers it.
LEMMA WriteInFlight ==
  ASSUME TypeOK, LastIfInFlight, Rows(inflight) \in Block,
         NEW T, StoreBlock(T, Rows(inflight)), NEW t \in Tables
  PROVE  /\ Len(stored[t]) \in Nat /\ DOMAIN stored[t] = 1..Len(stored[t])
         /\ \/ stored'[t] = stored[t]
            \/ /\ \A k \in DOMAIN stored[t] : stored[t][k] \cap Rows(inflight) = {}
               /\ Len(stored'[t]) = Len(stored[t]) + 1
               /\ DOMAIN stored'[t] = 1..(Len(stored[t]) + 1)
               /\ \A k \in DOMAIN stored[t] : stored'[t][k] = stored[t][k]
               /\ stored'[t][Len(stored[t]) + 1] = Rows(inflight)
<1> DEFINE R == Rows(inflight)
<1>1. Len(stored[t]) \in Nat /\ DOMAIN stored[t] = 1..Len(stored[t])
  BY LenProperties DEF TypeOK
<1>2. ASSUME NEW k \in DOMAIN stored[t], stored[t][k] \cap R # {}
      PROVE  Remembered(t, R)
  <2>1. stored[t][k] = R /\ k = Len(stored[t])
    BY <1>2 DEF LastIfInFlight
  <2>2. k > Len(stored[t]) - DedupWindow
    BY <1>1, <2>1, PipelineConstants
  <2>3. QED  BY <2>1, <2>2 DEF Remembered
<1>3. QED  BY <1>1, <1>2, StoreBlockTables DEF TypeOK

LEMMA LedgerAfterWrite ==
  ASSUME TypeOK, Ledger, Rows(inflight) # {}, Rows(inflight) \in Block,
         NEW T, StoreBlock(T, Rows(inflight)),
         UNCHANGED <<answer, buffer, inflight>>, late' \subseteq late
  PROVE  Ledger'
<1> DEFINE R == Rows(inflight)
<1>1. R' = R
  BY DEF Rows
<1>2. ASSUME NEW t \in Tables
      PROVE  /\ Len(stored[t]) \in Nat /\ DOMAIN stored[t] = 1..Len(stored[t])
             /\ \/ stored'[t] = stored[t]
                \/ /\ \A k \in DOMAIN stored[t] : stored[t][k] \cap R = {}
                   /\ Len(stored'[t]) = Len(stored[t]) + 1
                   /\ DOMAIN stored'[t] = 1..(Len(stored[t]) + 1)
                   /\ \A k \in DOMAIN stored[t] : stored'[t][k] = stored[t][k]
                   /\ stored'[t][Len(stored[t]) + 1] = R
  BY WriteInFlight DEF Ledger
<1>3. ASSUME NEW c \in Clicks, Fresh(c), c \notin R
      PROVE  Fresh(c)'
  <2>1. \A t \in Tables : ~Counted(t, c)'
    BY <1>3, StoreBlockAdds DEF TypeOK, Fresh
  <2>2. QED  BY <1>3, <2>1 DEF Fresh
<1>4. \A c \in R : c \in Range(inflight)
  BY DEF Rows
<1>5. Unsent'
  BY <1>3, <1>4 DEF Ledger, Unsent
<1>6. Waiting'
  <2>1. Range(buffer) \subseteq Clicks
    BY LenProperties DEF TypeOK, Range
  <2>2. QED  BY <2>1, <1>3, <1>4 DEF Ledger, Waiting
<1>7. LastIfInFlight'
  <2>1. SUFFICES ASSUME NEW t \in Tables, NEW k \in DOMAIN stored'[t], stored'[t][k] \cap R # {}
                 PROVE  stored'[t][k] = R /\ k = Len(stored'[t])
    BY <1>1 DEF LastIfInFlight
  <2>2. CASE stored'[t] = stored[t]
    BY <2>1, <2>2 DEF Ledger, LastIfInFlight
  <2>3. CASE stored'[t] # stored[t]
    BY <1>2, <2>1, <2>3
  <2>4. QED  BY <2>2, <2>3
<1>8. Abandoned'
  <2>1. SUFFICES ASSUME NEW w \in late
        PROVE  /\ \/ w.rows = R
                  \/ /\ w.rows \cap Range(inflight) = {}
                     /\ \A t \in Tables : \E k \in DOMAIN stored'[t] : stored'[t][k] = w.rows
               /\ \A t \in Tables : w.sent[t] <= Len(stored'[t])
               /\ \A t \in Tables : \A k \in DOMAIN stored'[t] :
                    stored'[t][k] \cap w.rows # {} => stored'[t][k] = w.rows /\ k >= w.sent[t]
    BY <1>1 DEF Ledger, Abandoned
  <2>2. w.sent \in [Tables -> Nat]
    BY DEF TypeOK, LateRequest
  <2>3. ASSUME NEW t \in Tables
        PROVE  w.sent[t] <= Len(stored'[t])
    BY <1>2, <2>2 DEF Ledger, Abandoned
  <2>4. ASSUME NEW t \in Tables, NEW k \in DOMAIN stored[t]
        PROVE  k \in DOMAIN stored'[t] /\ stored'[t][k] = stored[t][k]
    BY <1>2
  <2>5. \/ w.rows = R
        \/ /\ w.rows \cap Range(inflight) = {}
           /\ \A t \in Tables : \E k \in DOMAIN stored'[t] : stored'[t][k] = w.rows
    BY <2>4 DEF Ledger, Abandoned
  <2>6. ASSUME NEW t \in Tables, NEW k \in DOMAIN stored'[t], stored'[t][k] \cap w.rows # {}
        PROVE  stored'[t][k] = w.rows /\ k >= w.sent[t]
    <3>1. CASE k \in DOMAIN stored[t]
      BY <2>4, <2>6, <3>1 DEF Ledger, Abandoned
    <3>2. CASE k \notin DOMAIN stored[t]
      <4>1. stored'[t][k] = R /\ k = Len(stored[t]) + 1
        BY <1>2, <3>2
      <4>2. w.rows = R
        BY <1>4, <2>6, <4>1 DEF Ledger, Abandoned
      <4>3. w.sent[t] <= Len(stored[t])
        BY DEF Ledger, Abandoned
      <4>4. QED  BY <1>2, <2>2, <4>1, <4>2, <4>3
    <3>3. QED  BY <3>1, <3>2
  <2>7. QED  BY <2>3, <2>5, <2>6
<1>9. CountedOnce'
  <2>1. SUFFICES ASSUME NEW t \in Tables, NEW j \in DOMAIN stored'[t], NEW k \in DOMAIN stored'[t],
                        stored'[t][j] \cap stored'[t][k] # {}
                 PROVE  j = k
    BY DEF CountedOnce
  <2>2. CASE stored'[t] = stored[t]
    BY <2>1, <2>2 DEF Ledger, CountedOnce
  <2>3. CASE stored'[t] # stored[t]
    <3>1. CASE j \in DOMAIN stored[t] /\ k \in DOMAIN stored[t]
      BY <1>2, <2>1, <2>3, <3>1 DEF Ledger, CountedOnce
    <3>2. CASE ~(j \in DOMAIN stored[t] /\ k \in DOMAIN stored[t])
      BY <1>2, <2>1, <2>3, <3>2
    <3>3. QED  BY <3>1, <3>2
  <2>4. QED  BY <2>2, <2>3
<1>10. QED  BY <1>5, <1>6, <1>7, <1>8, <1>9 DEF Ledger

\* An abandoned insert carries the batch in flight, or one that was acknowledged:
\* then every table remembers its block and nothing is written.
LEMMA LateInsertEffect ==
  ASSUME LateInWindow, TypeOK, Ledger, LateInsert
  PROVE  /\ UNCHANGED <<answer, buffer, inflight>> /\ late' \subseteq late
         /\ \/ stored' = stored
            \/ /\ Rows(inflight) # {} /\ Rows(inflight) \in Block
               /\ \E T \in SUBSET Tables : StoreBlock(T, Rows(inflight))
<1>1. PICK w \in late :
        /\ \A t \in Tables : Len(stored[t]) < w.sent[t] + LateBlocks
        /\ \E T \in SUBSET Tables : StoreBlock(T, w.rows)
        /\ late' = late \ {w}
        /\ UNCHANGED <<answer, redisVars, flowVars>>
  BY DEF LateInsert
<1>2. /\ w.rows \in Block /\ w.rows # {} /\ w.sent \in [Tables -> Nat]
      /\ UNCHANGED <<answer, buffer, inflight>> /\ late' \subseteq late
  BY <1>1 DEF TypeOK, LateRequest, Ledger, Abandoned, redisVars
<1>3. CASE w.rows = Rows(inflight)
  BY <1>1, <1>2, <1>3
<1>4. CASE w.rows # Rows(inflight)
  <2>1. ASSUME NEW t \in Tables
        PROVE  Remembered(t, w.rows)
    <3>1. PICK k \in DOMAIN stored[t] : stored[t][k] = w.rows
      BY <1>4 DEF Ledger, Abandoned
    <3>2. stored[t][k] \cap w.rows # {}
      BY <1>2, <3>1
    <3>3. k >= w.sent[t]
      BY <3>2 DEF Ledger, Abandoned
    <3>4. Len(stored[t]) \in Nat /\ k \in Nat /\ w.sent[t] \in Nat
      BY <1>2, LenProperties DEF TypeOK
    <3>5. k > Len(stored[t]) - DedupWindow
      BY <1>1, <3>3, <3>4, PipelineConstants DEF LateInWindow
    <3>6. QED  BY <3>1, <3>5 DEF Remembered
  <2>2. stored' = stored
    <3>1. PICK T \in SUBSET Tables : StoreBlock(T, w.rows)
      BY <1>1
    <3>2. stored' = [t \in Tables |-> stored[t]]
      BY <2>1, <3>1 DEF StoreBlock
    <3>3. QED  BY <3>2 DEF TypeOK
  <2>3. QED  BY <1>2, <2>2
<1>5. QED  BY <1>3, <1>4

LEMMA LedgerAfterLate ==
  ASSUME LateInWindow, TypeOK, Ledger, LateInsert
  PROVE  Ledger'
<1>1. CASE stored' = stored
  BY <1>1, LateInsertEffect
     DEF Ledger, Unsent, Waiting, LastIfInFlight, Abandoned, CountedOnce, Fresh, Counted, Rows
<1>2. CASE stored' # stored
  BY <1>2, LateInsertEffect, LedgerAfterWrite
<1>3. QED  BY <1>1, <1>2

\* Giving up on an insert: the tables are as they were when it was sent.
LEMMA LedgerAfterTimeout ==
  ASSUME TypeOK, Ledger, Rows(inflight) # {},
         late' = late \cup {[rows |-> Rows(inflight),
                             sent |-> [t \in Tables |-> Len(stored[t])]]},
         UNCHANGED <<answer, buffer, inflight, stored>>
  PROVE  Ledger'
<1>1. \A c : c \in Rows(inflight) => c \in Range(inflight)
  BY DEF Rows
<1>2. \A t \in Tables : Len(stored[t]) \in Nat
  BY LenProperties DEF TypeOK
<1>3. ASSUME NEW c, Fresh(c), c \notin Range(inflight)
      PROVE  Fresh(c)'
  BY <1>1, <1>3 DEF Fresh, Counted
<1>4. Unsent' /\ Waiting'
  BY <1>3 DEF Ledger, Unsent, Waiting
<1>5. LastIfInFlight' /\ CountedOnce'
  BY DEF Ledger, LastIfInFlight, CountedOnce, Rows
<1>6. Abandoned'
  <2> DEFINE fresh == [rows |-> Rows(inflight), sent |-> [t \in Tables |-> Len(stored[t])]]
  <2>1. ASSUME NEW w \in late', w # fresh
        PROVE  w \in late
    BY <2>1
  <2>2. \A t \in Tables : fresh.sent[t] <= Len(stored[t])
    BY <1>2
  <2>3. ASSUME NEW t \in Tables, NEW k \in DOMAIN stored[t],
               stored[t][k] \cap fresh.rows # {}
        PROVE  stored[t][k] = fresh.rows /\ k >= fresh.sent[t]
    <3>1. stored[t][k] = Rows(inflight) /\ k = Len(stored[t])
      BY <2>3 DEF Ledger, LastIfInFlight
    <3>2. QED  BY <1>2, <3>1
  <2>4. fresh.rows = Rows(inflight)
    OBVIOUS
  <2> HIDE DEF fresh
  <2> DEFINE Good(w) ==
        /\ w.rows # {}
        /\ \/ w.rows = Rows(inflight)
           \/ /\ w.rows \cap Range(inflight) = {}
              /\ \A t \in Tables : \E k \in DOMAIN stored[t] : stored[t][k] = w.rows
        /\ \A t \in Tables : w.sent[t] <= Len(stored[t])
        /\ \A t \in Tables : \A k \in DOMAIN stored[t] :
             stored[t][k] \cap w.rows # {} => stored[t][k] = w.rows /\ k >= w.sent[t]
  <2>5. ASSUME NEW w \in late
        PROVE  Good(w)
    BY DEF Ledger, Abandoned
  <2>6. Good(fresh)
    BY <2>2, <2>3, <2>4
  <2>7. \A w \in late' : Good(w)
    BY <2>1, <2>5, <2>6
  <2>8. QED  BY <2>7 DEF Abandoned, Rows
<1>7. QED  BY <1>4, <1>5, <1>6 DEF Ledger

\* ack() takes a batch out of flight that every table has written as one block.
LEMMA LedgerAfterAck ==
  ASSUME TypeOK, Ledger, inflight' = <<>>,
         \A c \in Rows(inflight), t \in Tables : Counted(t, c),
         UNCHANGED <<answer, buffer, stored, late>>
  PROVE  Ledger'
<1>1. Range(inflight') = {} /\ Rows(inflight') = {}
  BY DEF Range, Rows
<1>2. Unsent' /\ Waiting' /\ LastIfInFlight' /\ CountedOnce'
  BY <1>1 DEF Ledger, Unsent, Waiting, LastIfInFlight, CountedOnce, Fresh, Counted
<1>3. ASSUME NEW w \in late, w.rows = Rows(inflight), NEW t \in Tables
      PROVE  \E k \in DOMAIN stored[t] : stored[t][k] = w.rows
  <2>1. PICK c : c \in w.rows
    BY DEF Ledger, Abandoned
  <2>2. PICK k \in DOMAIN stored[t] : c \in stored[t][k]
    BY <1>3, <2>1 DEF Counted
  <2>3. stored[t][k] = w.rows
    BY <1>3, <2>1, <2>2 DEF Ledger, LastIfInFlight
  <2>4. QED  BY <2>3
<1>4. Abandoned'
  BY <1>1, <1>3 DEF Ledger, Abandoned
<1>5. QED  BY <1>2, <1>4 DEF Ledger

\* DRAIN_SCRIPT on an empty in-flight list splits the buffer in two.
LEMMA DrainSplits ==
  ASSUME buffer \in Seq(Clicks), inflight = <<>>, DrainScript
  PROVE  /\ \A c \in Range(buffer') \cup Range(inflight') : c \in Range(buffer)
         /\ (\A i, j \in DOMAIN buffer : buffer[i] = buffer[j] => i = j) =>
              /\ \A i, j \in DOMAIN buffer' : buffer'[i] = buffer'[j] => i = j
              /\ \A c \in Range(buffer') : c \notin Range(inflight')
<1> DEFINE n == IF Len(buffer) < BatchSize THEN Len(buffer) ELSE BatchSize
<1>1. n \in Nat /\ n <= Len(buffer) /\ Len(buffer) \in Nat /\ DOMAIN buffer = 1..Len(buffer)
  BY PipelineConstants, LenProperties
<1>2. /\ inflight' = SubSeq(buffer, 1, n) /\ Len(inflight') = n
      /\ DOMAIN inflight' = 1..n
      /\ \A i \in 1..n : inflight'[i] = buffer[i]
  <2>1. inflight' = SubSeq(buffer, 1, n)
    BY DEF DrainScript, Batch
  <2>2. QED  BY <1>1, <2>1, SubSeqProperties, LenProperties
<1>3. /\ DOMAIN buffer' = 1..(Len(buffer) - n)
      /\ \A i \in 1..(Len(buffer) - n) : buffer'[i] = buffer[n + i]
  <2>1. buffer' = SubSeq(buffer, n + 1, Len(buffer))
    BY <1>2 DEF DrainScript, Batch
  <2>2. QED  BY <1>1, <2>1, SubSeqProperties, LenProperties
<1> HIDE DEF n
<1>4. \A i \in DOMAIN buffer' : n + i \in DOMAIN buffer /\ buffer'[i] = buffer[n + i]
  BY <1>1, <1>3
<1>5. \A i \in DOMAIN inflight' : i \in DOMAIN buffer /\ i <= n /\ inflight'[i] = buffer[i]
  BY <1>1, <1>2
<1>6. \A c \in Range(buffer') \cup Range(inflight') : c \in Range(buffer)
  BY <1>4, <1>5 DEF Range
<1>7. ASSUME \A i, j \in DOMAIN buffer : buffer[i] = buffer[j] => i = j
      PROVE  /\ \A i, j \in DOMAIN buffer' : buffer'[i] = buffer'[j] => i = j
             /\ \A c \in Range(buffer') : c \notin Range(inflight')
  <2>1. ASSUME NEW i \in DOMAIN buffer', NEW j \in DOMAIN buffer', buffer'[i] = buffer'[j]
        PROVE  i = j
    <3>1. n + i = n + j
      BY <1>4, <1>7, <2>1
    <3>2. QED  BY <1>1, <1>3, <3>1
  <2>2. ASSUME NEW i \in DOMAIN buffer', NEW j \in DOMAIN inflight', buffer'[i] = inflight'[j]
        PROVE  FALSE
    <3>1. n + i = j
      BY <1>4, <1>5, <1>7, <2>2
    <3>2. QED  BY <1>1, <1>2, <1>3, <3>1
  <2>3. QED  BY <2>1, <2>2 DEF Range
<1>8. QED  BY <1>6, <1>7

LEMMA LedgerAfterDrain ==
  ASSUME TypeOK, Ledger, DrainScript, UNCHANGED <<answer, stored, late>>
  PROVE  Ledger'
<1>1. CASE inflight # <<>>
  <2>1. buffer' = buffer /\ inflight' = inflight
    BY <1>1 DEF DrainScript, Batch
  <2>2. QED
    BY <2>1 DEF Ledger, Unsent, Waiting, LastIfInFlight, Abandoned, CountedOnce,
       Fresh, Counted, Rows
<1>2. CASE inflight = <<>>
  <2>1. /\ \A c \in Range(buffer') \cup Range(inflight') : c \in Range(buffer) /\ Fresh(c)
        /\ \A i, j \in DOMAIN buffer' : buffer'[i] = buffer'[j] => i = j
        /\ \A c \in Range(buffer') : c \notin Range(inflight')
    BY <1>2, DrainSplits DEF TypeOK, Ledger, Waiting
  <2>2. \A c : Fresh(c) => Fresh(c)'
    BY DEF Fresh, Counted
  <2>3. Unsent' /\ Waiting'
    BY <2>1, <2>2 DEF Ledger, Unsent, Waiting
  <2>4. LastIfInFlight'
    BY <2>1 DEF LastIfInFlight, Fresh, Counted, Rows
  <2>5. Rows(inflight) = {}
    BY <1>2 DEF Rows, Range
  <2>6. \A w \in late : w.rows \cap Range(inflight') = {}
    BY <2>1 DEF Fresh
  <2>7. Abandoned'
    BY <2>5, <2>6 DEF Ledger, Abandoned
  <2>8. QED  BY <2>3, <2>4, <2>7 DEF Ledger, CountedOnce
<1>3. QED  BY <1>1, <1>2

\* A click is pushed once, by the only request that carries it.
LEMMA LedgerAfterIngest ==
  ASSUME TypeOK, Ledger, NEW c \in Clicks, IngestClick(c) \/ IngestFails(c)
  PROVE  Ledger'
<1>1. /\ answer[c] = "none" /\ UNCHANGED <<inflight, stored, late>>
      /\ \A d \in Clicks : answer'[d] = "none" => d # c /\ answer[d] = "none"
      /\ buffer' = buffer \/ buffer' = Append(buffer, c)
  <2>1. answer[c] = "none" /\ UNCHANGED <<inflight, stored, late>>
    BY DEF IngestClick, IngestFails, storeVars
  <2>2. \E reply \in {"dropped", "buffered", "unavailable"} :
          answer' = [answer EXCEPT ![c] = reply]
    <3>1. (IF BufferFull THEN "dropped" ELSE "buffered") \in {"dropped", "buffered"}
      BY Zenon
    <3>2. QED  BY <3>1 DEF IngestClick, IngestFails
  <2>3. buffer' = buffer \/ buffer' = Append(buffer, c)
    BY DEF IngestClick, IngestFails, PushScript
  <2>4. QED  BY <2>1, <2>2, <2>3 DEF TypeOK
<1>2. Fresh(c) /\ c \notin Range(buffer) \cup Range(inflight)
  BY <1>1 DEF Ledger, Unsent
<1>3. \A d : Fresh(d) => Fresh(d)'
  BY <1>1 DEF Fresh, Counted
<1>4. /\ \A d \in Range(buffer') : d \in Range(buffer) \/ d = c
      /\ \A i, j \in DOMAIN buffer' : buffer'[i] = buffer'[j] => i = j
  <2>1. CASE buffer' = buffer
    BY <2>1 DEF Ledger, Waiting
  <2>2. CASE buffer' = Append(buffer, c)
    <3>1. /\ DOMAIN buffer = 1..Len(buffer) /\ Len(buffer) \in Nat
          /\ DOMAIN buffer' = 1..(Len(buffer) + 1)
          /\ \A i \in 1..Len(buffer) : buffer'[i] = buffer[i]
          /\ buffer'[Len(buffer) + 1] = c
      BY <2>2, AppendProperties, LenProperties DEF TypeOK
    <3>2. \A i \in DOMAIN buffer : buffer[i] # c
      BY <1>2 DEF Range
    <3>3. \A i, j \in DOMAIN buffer' : buffer'[i] = buffer'[j] => i = j
      BY <3>1, <3>2 DEF Ledger, Waiting
    <3>4. QED  BY <2>2, <3>3, AppendRange DEF TypeOK
  <2>3. QED  BY <1>1, <2>1, <2>2
<1>5. Unsent'
  BY <1>1, <1>3, <1>4 DEF Ledger, Unsent
<1>6. Waiting'
  BY <1>1, <1>2, <1>3, <1>4 DEF Ledger, Waiting
<1>7. LastIfInFlight' /\ Abandoned' /\ CountedOnce'
  BY <1>1 DEF Ledger, LastIfInFlight, Abandoned, CountedOnce, Rows
<1>8. QED  BY <1>5, <1>6, <1>7 DEF Ledger

LEMMA LedgerUnmoved ==
  ASSUME Ledger, UNCHANGED <<answer, buffer, inflight, stored, late>>
  PROVE  Ledger'
BY DEF Ledger, Unsent, Waiting, LastIfInFlight, Abandoned, CountedOnce, Fresh, Counted, Rows

LEMMA LedgerStep ==
  ASSUME LateInWindow, TypeOK, Claim, Confirmed, InsertsRows, Ledger, [Next]_vars
  PROVE  Ledger'
<1>1. ASSUME NEW c \in Clicks, IngestClick(c) \/ IngestFails(c)
      PROVE  Ledger'
  BY <1>1, LedgerAfterIngest
<1>2. ASSUME NEW f \in Flows, FlushStep(f) \/ FlushFault(f)
      PROVE  Ledger'
  <2>1. CASE pc[f] = "insert"
    <3>1. claimed[f] = Rows(inflight) /\ claimed[f] # {} /\ claimed[f] \in Block
      BY <2>1 DEF Claim, InsertsRows, TypeOK
    <3>2. CASE InsertTimesOut(f)
      BY <3>1, <3>2, LedgerAfterTimeout DEF InsertTimesOut, redisVars
    <3>3. CASE InsertSucceeds(f) \/ InsertFails(f)
      <4>1. PICK T \in SUBSET Tables : StoreBlock(T, claimed[f])
        BY <3>3 DEF InsertSucceeds, InsertFails
      <4>2. UNCHANGED <<answer, buffer, inflight>> /\ late' \subseteq late
        BY <3>3 DEF InsertSucceeds, InsertFails, redisVars
      <4>3. QED  BY <3>1, <4>1, <4>2, LedgerAfterWrite
    <3>4. QED
      BY <1>2, <2>1, <3>2, <3>3 DEF FlushStep, FlushFault, AcquireLease, AcquireFails,
         Drain, DrainFails, Ack, AckFails
  <2>2. CASE Ack(f) \/ AckFails(f)
    <3>1. UNCHANGED <<answer, buffer, stored, late>> /\ inflight' \in {inflight, <<>>}
      BY <2>2 DEF Ack, AckFails, storeVars
    <3>2. \A c \in Rows(inflight), t \in Tables : Counted(t, c)
      BY <2>2 DEF Ack, AckFails, Claim, Confirmed
    <3>3. QED  BY <3>1, <3>2, LedgerAfterAck, LedgerUnmoved
  <2>3. CASE DrainScript /\ UNCHANGED <<answer, stored, late>>
    BY <2>3, LedgerAfterDrain
  <2>4. CASE UNCHANGED <<answer, buffer, inflight, stored, late>>
    BY <2>4, LedgerUnmoved
  <2>5. QED
    BY <1>2, <2>1, <2>2, <2>3, <2>4 DEF FlushStep, FlushFault, AcquireLease, AcquireFails,
       Drain, DrainFails, InsertSucceeds, InsertFails, InsertTimesOut, storeVars
<1>3. CASE LateInsert
  BY <1>3, LedgerAfterLate
<1>4. CASE UNCHANGED <<answer, buffer, inflight, stored, late>>
  BY <1>4, LedgerUnmoved
<1>5. QED
  BY <1>1, <1>2, <1>3, <1>4 DEF Next, vars, redisVars, storeVars, LeaseLapses,
     Start, BeginTick, BeginStop, Release, Exit, Crash, ProcessEnds

-----------------------------------------------------------------------------
(***************************************************************************)
(* The pipeline delivers what ClickDelivery promises.                      *)
(***************************************************************************)

Safe == TypeOK /\ Custody /\ Agreed
IInv == Safe /\ InsertsRows /\ Ledger

LEMMA SafeInvariant ==
  /\ Init => Safe
  /\ OneFlusher /\ Safe /\ [Next]_vars => Safe'
<1>1. Init => Agreed
  BY DEF Init, Agreed, Counted
<1>2. Safe /\ [Next]_vars => Agreed'
  BY AgreedStep, NextTypes DEF Safe, Custody
<1>3. QED
  BY <1>1, <1>2, InitTypes, NextTypes, CustodyInvariant DEF Safe

LEMMA IInvInvariant ==
  ASSUME LateInWindow
  PROVE  /\ Init => IInv
         /\ OneFlusher /\ IInv /\ [Next]_vars => IInv'
<1>1. Init => Ledger
  BY DEF Init, Ledger, Unsent, Waiting, LastIfInFlight, Abandoned, CountedOnce,
     Fresh, Counted, Range
<1>2. IInv /\ [Next]_vars => Ledger'
  BY LedgerStep DEF IInv, Safe, Custody
<1>3. QED
  BY <1>1, <1>2, SafeInvariant, InsertsRowsInvariant DEF IInv, Safe

Held == Range(buffer) \cup Range(inflight)
Count == [t \in Tables |-> [c \in Clicks |-> Cardinality(BlocksWith(t, c))]]

\* A click is in at most one block of a table, so its count there is 0 or 1.
LEMMA CountIsZeroOrOne ==
  TypeOK /\ CountedOnce =>
    Count = [t \in Tables |-> [c \in Clicks |-> IF Counted(t, c) THEN 1 ELSE 0]]
<1> SUFFICES ASSUME TypeOK, CountedOnce, NEW t \in Tables, NEW c \in Clicks
             PROVE  Cardinality(BlocksWith(t, c)) = IF Counted(t, c) THEN 1 ELSE 0
  BY DEF Count
<1>1. CASE Counted(t, c)
  <2>1. PICK k \in DOMAIN stored[t] : c \in stored[t][k]
    BY <1>1 DEF Counted
  <2>2. ASSUME NEW j \in BlocksWith(t, c)
        PROVE  j = k
    BY <2>1, <2>2 DEF BlocksWith, CountedOnce
  <2>3. BlocksWith(t, c) = {k}
    BY <2>1, <2>2 DEF BlocksWith
  <2>4. QED  BY <1>1, <2>3, FS_Singleton
<1>2. CASE ~Counted(t, c)
  <2>1. BlocksWith(t, c) = {}
    BY <1>2 DEF BlocksWith, Counted
  <2>2. QED  BY <1>2, <2>1, FS_EmptySet
<1>3. QED  BY <1>1, <1>2

Counts == [t \in Tables |-> [c \in Clicks |-> IF Counted(t, c) THEN 1 ELSE 0]]

LEMMA CountsUnmoved ==
  ASSUME UNCHANGED stored
  PROVE  Counts' = Counts
BY DEF Counts, Counted

\* What the promise sees of each step. Pushing a click takes it into custody.
LEMMA TakeStep ==
  ASSUME TypeOK, Ledger, Count = Counts, NEW c \in Clicks, IngestClick(c) \/ IngestFails(c),
         Count' = Counts'
  PROVE  [Delivery!Next]_<<Held, Count>>
<1>1. /\ answer[c] = "none" /\ UNCHANGED <<inflight, stored>>
      /\ buffer' = buffer \/ buffer' = Append(buffer, c)
  BY DEF IngestClick, IngestFails, PushScript, storeVars
<1>2. Count' = Count
  BY <1>1, CountsUnmoved
<1>3. CASE buffer' = buffer
  BY <1>1, <1>2, <1>3 DEF Held
<1>4. CASE buffer' = Append(buffer, c)
  <2>1. Held' = Held \cup {c}
    BY <1>1, <1>4, AppendRange DEF Held, TypeOK
  <2>2. c \notin Held /\ \A t \in Tables : ~Counted(t, c)
    BY <1>1 DEF Held, Ledger, Unsent, Fresh
  <2>3. \A t \in Tables : Count[t][c] = 0
    BY <2>2 DEF Counts
  <2>4. Delivery!Take(c)
    BY <1>2, <2>1, <2>2, <2>3 DEF Delivery!Take, Held, Count
  <2>5. QED  BY <2>4 DEF Delivery!Next
<1>5. QED  BY <1>1, <1>3, <1>4

\* Writing the batch in flight counts its rows in the tables that had none of them.
LEMMA CountStep ==
  ASSUME TypeOK, Ledger, Count = Counts, Count' = Counts',
         Rows(inflight) \in Block, UNCHANGED <<buffer, inflight>>,
         NEW T, StoreBlock(T, Rows(inflight))
  PROVE  [Delivery!Next]_<<Held, Count>>
<1> DEFINE R == Rows(inflight)
           W == {t \in Tables : stored'[t] # stored[t]}
<1>1. Held' = Held /\ R \in SUBSET Held /\ R \subseteq Clicks
  BY DEF Held, Rows, Block
<1>2. ASSUME NEW t \in W, NEW c \in R
      PROVE  ~Counted(t, c) /\ Counted(t, c)'
  <2>1. /\ Len(stored[t]) \in Nat /\ DOMAIN stored[t] = 1..Len(stored[t])
        /\ \A k \in DOMAIN stored[t] : stored[t][k] \cap R = {}
        /\ DOMAIN stored'[t] = 1..(Len(stored[t]) + 1)
        /\ stored'[t][Len(stored[t]) + 1] = R
    BY WriteInFlight DEF Ledger
  <2>2. ~Counted(t, c)
    BY <2>1 DEF Counted
  <2>3. Len(stored[t]) + 1 \in DOMAIN stored'[t]
    BY <2>1
  <2>4. Counted(t, c)'
    BY <2>1, <2>3 DEF Counted
  <2>5. QED  BY <2>2, <2>4
<1>3. ASSUME NEW t \in Tables, NEW c \in Clicks, ~(t \in W /\ c \in R)
      PROVE  Counted(t, c)' <=> Counted(t, c)
  <2>1. CASE t \notin W
    BY <2>1 DEF Counted
  <2>2. CASE c \notin R
    BY <2>2, StoreBlockKeeps, StoreBlockAdds DEF TypeOK
  <2>3. QED  BY <1>3, <2>1, <2>2
<1>4. \A t \in W, c \in R : Count[t][c] = 0
  BY <1>1, <1>2 DEF Counts
<1>5. Count' = [t \in Tables |->
                 [c \in Clicks |-> IF t \in W /\ c \in R THEN 1 ELSE Count[t][c]]]
  <2> SUFFICES ASSUME NEW t \in Tables, NEW c \in Clicks
               PROVE  (IF Counted(t, c)' THEN 1 ELSE 0) =
                        IF t \in W /\ c \in R THEN 1 ELSE IF Counted(t, c) THEN 1 ELSE 0
    BY DEF Counts
  <2> QED  BY <1>2, <1>3
<1>6. W \in SUBSET Tables
  OBVIOUS
<1> HIDE DEF R, W
<1>7. Delivery!Count(R, W)
  BY <1>1, <1>4, <1>5 DEF Delivery!Count, Held, Count
<1>8. QED  BY <1>1, <1>6, <1>7 DEF Delivery!Next, Held

\* ack() ends the custody of the batch in flight.
LEMMA SettleStep ==
  ASSUME TypeOK, Ledger, Count = Counts, Count' = Counts', inflight' = <<>>,
         \A c \in Rows(inflight), t \in Tables : Counted(t, c),
         UNCHANGED <<buffer, stored>>
  PROVE  [Delivery!Next]_<<Held, Count>>
<1> DEFINE C == Range(inflight)
<1>1. C \in SUBSET Held /\ C \subseteq Clicks
  BY LenProperties DEF Held, TypeOK, Range
<1>2. Held' = Held \ C
  BY DEF Held, Ledger, Waiting, Range
<1>3. Count' = Count
  BY CountsUnmoved
<1>4. \A c \in C \ Corrupt, t \in Tables : Count[t][c] = 1
  BY <1>1 DEF Counts, Rows
<1> HIDE DEF C
<1>5. Delivery!Settle(C)
  BY <1>2, <1>3, <1>4 DEF Delivery!Settle, Held, Count
<1>6. QED  BY <1>1, <1>5 DEF Delivery!Next, Held

LEMMA DeliveryStep ==
  ASSUME LateInWindow, IInv, Count = Counts, Count' = Counts', [Next]_vars
  PROVE  [Delivery!Next]_<<Held, Count>>
<1>0. TypeOK /\ Ledger /\ Claim /\ Confirmed /\ InsertsRows
  BY DEF IInv, Safe, Custody
<1>1. ASSUME NEW c \in Clicks, IngestClick(c) \/ IngestFails(c)
      PROVE  [Delivery!Next]_<<Held, Count>>
  BY <1>0, <1>1, TakeStep
<1>2. CASE Held' = Held /\ UNCHANGED stored
  BY <1>2, CountsUnmoved
<1>3. ASSUME NEW f \in Flows, FlushStep(f) \/ FlushFault(f)
      PROVE  [Delivery!Next]_<<Held, Count>>
  <2>1. CASE InsertSucceeds(f) \/ InsertFails(f)
    <3>1. claimed[f] = Rows(inflight) /\ claimed[f] \in Block
      BY <1>0, <2>1 DEF InsertSucceeds, InsertFails, Claim, TypeOK
    <3>2. PICK T \in SUBSET Tables : StoreBlock(T, claimed[f])
      BY <2>1 DEF InsertSucceeds, InsertFails
    <3>3. UNCHANGED <<buffer, inflight>>
      BY <2>1 DEF InsertSucceeds, InsertFails, redisVars
    <3>4. QED  BY <1>0, <3>1, <3>2, <3>3, CountStep
  <2>2. CASE Ack(f) \/ AckFails(f)
    <3>1. UNCHANGED <<buffer, stored>> /\ inflight' \in {inflight, <<>>}
      BY <2>2 DEF Ack, AckFails, storeVars
    <3>2. \A c \in Rows(inflight), t \in Tables : Counted(t, c)
      BY <1>0, <2>2 DEF Ack, AckFails, Claim, Confirmed
    <3>3. CASE inflight' = inflight
      BY <1>2, <3>1, <3>3 DEF Held
    <3>4. CASE inflight' = <<>>
      BY <1>0, <3>1, <3>2, <3>4, SettleStep
    <3>5. QED  BY <3>1, <3>3, <3>4
  <2>3. CASE DrainScript /\ UNCHANGED stored
    BY <1>0, <1>2, <2>3, DrainScriptLists DEF Held, TypeOK
  <2>4. CASE UNCHANGED <<buffer, inflight, stored>>
    BY <1>2, <2>4 DEF Held
  <2>5. QED
    BY <1>3, <2>1, <2>2, <2>3, <2>4 DEF FlushStep, FlushFault, AcquireLease, AcquireFails,
       Drain, DrainFails, InsertTimesOut, redisVars, storeVars
<1>4. CASE LateInsert
  <2>1. CASE stored' = stored
    BY <1>0, <1>2, <1>4, <2>1, LateInsertEffect DEF Held
  <2>2. CASE stored' # stored
    BY <1>0, <1>4, <2>2, LateInsertEffect, CountStep
  <2>3. QED  BY <2>1, <2>2
<1>5. CASE UNCHANGED <<buffer, inflight, stored>>
  BY <1>2, <1>5 DEF Held
<1>6. QED
  BY <1>1, <1>3, <1>4, <1>5 DEF Next, vars, redisVars, storeVars, LeaseLapses,
     Start, BeginTick, BeginStop, Release, Exit, Crash, ProcessEnds

\* Whatever keeps two flows from working at a time: no click the API answered "buffered"
\* for is lost, flush() deletes no batch in flight that some table does not count yet, and
\* the raw table and the rollups agree whenever nothing is in flight.
THEOREM OneFlusherSuffices ==
  Spec /\ []OneFlusher => []NoLoss /\ AckOnlyConfirmed /\ []RollupsAgree
<1>1. Init => Safe
  BY SafeInvariant
<1>2. OneFlusher /\ Safe /\ [Next]_vars => Safe'
  BY SafeInvariant
<1>3. Safe => NoLoss /\ RollupsAgree
  BY AgreedGivesRollups DEF Safe, Custody
<1>4. Safe /\ [Next]_vars
        => [inflight # <<>> /\ inflight' = <<>> =>
              \A c \in Rows(inflight), t \in Tables : Counted(t, c)]_vars
  BY OnlyAckEmpties DEF Safe, Custody
<1>5. QED  BY <1>1, <1>2, <1>3, <1>4, PTL DEF Spec, AckOnlyConfirmed

\* And where an abandoned insert is executed, if it is, within the deduplication window:
\* no table counts a click twice, and the pipeline, with its lists, leases, retries and
\* lost replies, does nothing ClickDelivery does not allow.
THEOREM OneFlusherCountsOnce ==
  ASSUME LateInWindow
  PROVE  Spec /\ []OneFlusher => []CountedOnce /\ ImplementsDelivery
<1>1. Init => Delivery!Init
  <2>1. Init => Held = {}
    BY DEF Init, Held, Range
  <2>2. Init => TypeOK /\ CountedOnce
    BY InitTypes DEF Init, CountedOnce
  <2>3. Init => Counts = [t \in Tables |-> [c \in Clicks |-> 0]]
    BY DEF Init, Counts, Counted
  <2>4. QED  BY <2>1, <2>2, <2>3, CountIsZeroOrOne DEF Delivery!Init, Held, Count, Counts
<1>2. IInv => Count = Counts
  BY CountIsZeroOrOne DEF IInv, Safe, Ledger, Counts
<1>3. OneFlusher /\ IInv /\ [Next]_vars => IInv'
  BY IInvInvariant
<1>4. IInv /\ Count = Counts /\ (Count = Counts)' /\ [Next]_vars
        => [Delivery!Next]_<<Range(buffer) \cup Range(inflight),
                            [t \in Tables |-> [c \in Clicks |-> Cardinality(BlocksWith(t, c))]]>>
  BY DeliveryStep DEF Held, Count
<1>5. Init => IInv
  BY IInvInvariant
<1>6. IInv => CountedOnce
  BY DEF IInv, Ledger
<1>7. QED
  BY <1>1, <1>2, <1>3, <1>4, <1>5, <1>6, PTL DEF Spec, ImplementsDelivery, Delivery!Spec

\* So no click the API answered "buffered" for is lost while every lease is kept and no
\* stop signal falls into a tick, however short the lease is.
THEOREM NoClickLost == Spec /\ LeaseIsKept /\ StopsBetweenTicks => []NoLoss
BY OneFlusherWhileLeased, OneFlusherSuffices, PTL

\* On the same two conditions flush() keeps its promise: it never deletes an in-flight
\* batch that some table does not count yet.
THEOREM AckedIsConfirmed == Spec /\ LeaseIsKept /\ StopsBetweenTicks => AckOnlyConfirmed
BY OneFlusherWhileLeased, OneFlusherSuffices, PTL

\* On the same two conditions the raw table and the rollups agree on which clicks happened
\* whenever nothing is in flight, whatever inserts failed part way.
THEOREM TablesAgree == Spec /\ LeaseIsKept /\ StopsBetweenTicks => []RollupsAgree
BY OneFlusherWhileLeased, OneFlusherSuffices, PTL

\* On the same two conditions, and with abandoned inserts executed within the window, no
\* table counts a click twice: whatever a batch goes through, it is one block, and
\* ClickHouse remembers that block whenever an insert of it arrives again.
THEOREM ClicksCountedOnce ==
  ASSUME LateInWindow
  PROVE  Spec /\ LeaseIsKept /\ StopsBetweenTicks => []CountedOnce
BY OneFlusherWhileLeased, OneFlusherCountsOnce, PTL

\* On the same three conditions a click is counted at most once per table, only while it
\* is in custody, and custody ends only when every table has counted it or its row is
\* unusable.
THEOREM PipelineImplementsDelivery ==
  ASSUME LateInWindow
  PROVE  Spec /\ LeaseIsKept /\ StopsBetweenTicks => ImplementsDelivery
BY OneFlusherWhileLeased, OneFlusherCountsOnce, PTL

=============================================================================
