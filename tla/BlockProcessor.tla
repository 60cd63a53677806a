--------------------------- MODULE BlockProcessor ---------------------------
(***************************************************************************)
(* BlockProcessor::run and process_and_dispatch.  `ppc` is where the task  *)
(* is suspended:                                                           *)
(*   "recv"       in the biased select! on cancelled() and recv()          *)
(*   "correlate"  awaiting the spawn_blocking of process_blocks_batch      *)
(*   "dispatch"   awaiting correlated_blocks_tx.send(Head(batch))          *)
(*   "persist"    awaiting set_last_processed_block(lastHanded)            *)
(*   "done"       the task has returned                                    *)
(***************************************************************************)
EXTENDS PipelineState

VARIABLES
    ppc,
    buffer,     \* block_buffer
    batch,      \* blocks of the current batch not dispatched yet
    lastHanded  \* last block sent to the filtering engine in this process

processor == <<ppc, buffer, batch, lastHanded>>

(* Mutant: the batch starts one block late.                                *)
FullLate(blocks) == Len(blocks) > ChunkSize

Full(blocks) == Len(blocks) >= ChunkSize

(* Cancellation wins over a ready block.  A full buffer becomes the batch. *)
ReceiveBlock ==
    /\ ppc = "recv"
    /\ up = "running"
    /\ raw # <<>>
    /\ raw' = Tail(raw)
    /\ LET filled == Append(buffer, Head(raw)) IN
         IF Full(filled)
         THEN buffer' = <<>> /\ batch' = filled /\ ppc' = "correlate"
         ELSE buffer' = filled /\ UNCHANGED <<batch, ppc>>
    /\ UNCHANGED <<lastHanded, head, up, durable, correlated, matches, history>>

(* Leaving the loop: what is buffered is dispatched as a last batch.       *)
ProcessorCancelled ==
    /\ ppc = "recv"
    /\ up = "cancelled"
    /\ IF buffer = <<>>
       THEN ppc' = "done" /\ UNCHANGED <<buffer, batch>>
       ELSE buffer' = <<>> /\ batch' = buffer /\ ppc' = "correlate"
    /\ UNCHANGED <<lastHanded, shared>>

(* Mutant: progress is persisted before the blocks are dispatched.         *)
CorrelatePersistsFirst ==
    /\ ppc = "correlate"
    /\ ppc' = "dispatch"
    /\ lastProcessed' = batch[Len(batch)]
    /\ UNCHANGED <<buffer, batch, lastHanded, head, up, outbox, channels, history>>

Correlate ==
    /\ ppc = "correlate"
    /\ ppc' = "dispatch"
    /\ UNCHANGED <<buffer, batch, lastHanded, shared>>

(* The blocking task fails (JoinError): a warning is logged and the batch  *)
(* goes out of scope.                                                      *)
BatchFails ==
    /\ "batch" \in Faults
    /\ ppc = "correlate"
    /\ ppc' = "recv"
    /\ batch' = <<>>
    /\ lost' = lost \cup Elems(batch)
    /\ UNCHANGED <<buffer, lastHanded, head, up, durable, channels, startBlock, handed>>

Dispatch ==
    /\ ppc = "dispatch"
    /\ Len(correlated) < BlockChannelCap
    /\ correlated' = Append(correlated, Head(batch))
    /\ handed' = handed \cup {Head(batch)}
    /\ lastHanded' = Head(batch)
    /\ batch' = Tail(batch)
    /\ ppc' = IF Len(batch) = 1 THEN "persist" ELSE "dispatch"
    /\ UNCHANGED <<buffer, head, up, durable, raw, matches, startBlock, lost>>

Persist ==
    /\ ppc = "persist"
    /\ lastProcessed' = lastHanded
    /\ ppc' = "recv"
    /\ UNCHANGED <<buffer, batch, lastHanded, head, up, outbox, channels, history>>

(* A failed write is logged; the next batch writes a higher number.        *)
PersistFails ==
    /\ "persist" \in Faults
    /\ ppc = "persist"
    /\ ppc' = "recv"
    /\ UNCHANGED <<buffer, batch, lastHanded, shared>>
=============================================================================
