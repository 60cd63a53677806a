---------------------------- MODULE BlockIngestor ----------------------------
(***************************************************************************)
(* BlockIngestor::run and ingest_blocks.  Each value of `ipc` is a place   *)
(* where the task is suspended:                                            *)
(*   "sleep"  in the select! between cycles                                *)
(*   "head"   awaiting get_current_block_number, lastProcessed already read*)
(*   "fetch"  awaiting fetch_blocks_concurrent(from, ..)                   *)
(*   "send"   awaiting raw_blocks_tx.send(Head(chunk))                     *)
(*   "done"   the task has returned                                        *)
(* The cancellation token is looked at between two awaits, so an await     *)
(* that was under way when the token was cancelled still completes.        *)
(***************************************************************************)
EXTENDS PipelineState

VARIABLES
    ipc,
    readLast,   \* last_processed_block as read at the start of the cycle
    from,       \* from_block
    safe,       \* safe_to_block
    chunk,      \* blocks of block_data_batch not sent yet
    nextBlock   \* the next_block high-water mark, 0 in a new process

ingestor == <<ipc, readLast, from, safe, chunk, nextBlock>>

DefaultBackfill == 100

(* A cycle starts when the polling delay ends, unless cancelled (biased).  *)
ReadState ==
    /\ ipc = "sleep"
    /\ up = "running"
    /\ readLast' = lastProcessed
    /\ ipc' = "head"
    /\ UNCHANGED <<from, safe, chunk, nextBlock, shared>>

IngestorCancelled ==
    /\ ipc = "sleep"
    /\ up = "cancelled"
    /\ ipc' = "done"
    /\ UNCHANGED <<readLast, from, safe, chunk, nextBlock, shared>>

(* The place of the loop `while from_block <= safe_to_block`, at its top:  *)
(* leave it when drained or cancelled, or start fetching the next chunk.   *)
LoopTop(f, s) ==
    IF f > s THEN "sleep" ELSE IF up = "cancelled" THEN "done" ELSE "fetch"

StateNext(last, h) ==
    IF last = NoBlock THEN SatSub(h, DefaultBackfill) ELSE last + 1

(* Mutants: resume from the database row alone; forget the confirmations.  *)
FromBlockIgnoringHighWaterMark(h) == StateNext(readLast, h)
SafeToBlockUnconfirmed(h) == h

FromBlock(h) == MaxOf(StateNext(readLast, h), nextBlock)

SafeToBlock(h) == h - Confirmations

(* The RPC node answers with its own height, which may lag the chain.      *)
ReadHead ==
    /\ ipc = "head"
    /\ \E h \in SatSub(head, MaxLag)..head :
         IF h < Confirmations
         THEN ipc' = "sleep" /\ UNCHANGED <<from, safe>>
         ELSE /\ from' = FromBlock(h)
              /\ safe' = SafeToBlock(h)
              /\ ipc' = LoopTop(from', safe')
    /\ UNCHANGED <<readLast, chunk, nextBlock, shared>>

(* A failed database read, RPC call or block fetch ends the cycle with Err; *)
(* run() logs it and backs off.                                            *)
IngestError ==
    /\ "fetch" \in Faults
    /\ ipc \in {"head", "fetch"}
    /\ ipc' = "sleep"
    /\ UNCHANGED <<readLast, from, safe, chunk, nextBlock, shared>>

(* fetch_blocks_concurrent returns every block of the range, in ascending  *)
(* order, or an error.  The range is from..min(from + ChunkSize, safe).    *)
FetchChunk ==
    /\ ipc = "fetch"
    /\ IF up = "cancelled"
       THEN ipc' = "done" /\ UNCHANGED chunk
       ELSE /\ chunk' = Run(from, MinOf(from + ChunkSize, safe))
            /\ ipc' = "send"
    /\ UNCHANGED <<readLast, from, safe, nextBlock, shared>>

(* The send completes, the high-water mark moves past the block, and the   *)
(* loops go on to the next block, the next chunk or the end of the cycle.  *)
SendBlock(receiverGone) ==
    /\ ipc = "send"
    /\ ~receiverGone
    /\ Len(raw) < BlockChannelCap
    /\ raw' = Append(raw, Head(chunk))
    /\ nextBlock' = Head(chunk) + 1
    /\ IF Len(chunk) > 1
       THEN /\ UNCHANGED from
            /\ IF up = "cancelled"
               THEN ipc' = "done" /\ chunk' = <<>>
               ELSE ipc' = "send" /\ chunk' = Tail(chunk)
       ELSE /\ from' = Head(chunk) + 1
            /\ chunk' = <<>>
            /\ ipc' = LoopTop(from', safe)
    /\ UNCHANGED <<readLast, safe, head, up, durable, correlated, matches, history>>

(* The processor has returned and dropped its receiver: send() fails and   *)
(* the cycle ends with DataSourceError::ChannelClosed.                     *)
SendClosed(receiverGone) ==
    /\ ipc = "send"
    /\ receiverGone
    /\ ipc' = "sleep"
    /\ chunk' = <<>>
    /\ UNCHANGED <<readLast, from, safe, nextBlock, shared>>
=============================================================================
