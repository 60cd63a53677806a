------------------------------ MODULE Pipeline ------------------------------
(***************************************************************************)
(* The live pipeline of `argus run`: the supervisor's block tasks composed *)
(* over the shared channels and database, with boot, graceful stop, crash  *)
(* and restart.                                                            *)
(***************************************************************************)
EXTENDS BlockIngestor, BlockProcessor, MatchFlow

vars == <<shared, ingestor, processor, flow>>

(* A fresh process: empty channels, high-water mark 0, tasks at their top. *)
FreshTasks(at, recv) ==
    /\ ipc' = at /\ readLast' = NoBlock /\ from' = 0 /\ safe' = 0
    /\ chunk' = <<>> /\ nextBlock' = 0
    /\ ppc' = recv /\ buffer' = <<>> /\ batch' = <<>> /\ lastHanded' = NoBlock
    /\ evaluating' = NoBlock /\ alerting' = NoBlock
    /\ raw' = <<>> /\ correlated' = <<>> /\ matches' = <<>>

Init ==
    /\ head \in 0..MaxHead
    /\ up = "stopped"
    /\ lastProcessed = NoBlock /\ outbox = {}
    /\ raw = <<>> /\ correlated = <<>> /\ matches = <<>>
    /\ startBlock = 0 /\ handed = {} /\ lost = {}
    /\ ipc = "done" /\ readLast = NoBlock /\ from = 0 /\ safe = 0
    /\ chunk = <<>> /\ nextBlock = 0
    /\ ppc = "done" /\ buffer = <<>> /\ batch = <<>> /\ lastHanded = NoBlock
    /\ evaluating = NoBlock /\ alerting = NoBlock

(* InitialStartBlock::default                                              *)
DefaultOffset == -100

(* InitialStartBlock::deserialize: a number in the file is a block or an   *)
(* offset, and 0 is the default.  parse_start_block_arg: in the flag, 0 is *)
(* block 0.                                                                *)
Deserialized(n) ==
    CASE n > 0 -> [kind |-> "absolute", n |-> n]
      [] n = 0 -> [kind |-> "offset", n |-> DefaultOffset]
      [] n < 0 -> [kind |-> "offset", n |-> n]

ParsedStartBlockArg(n) == [kind |-> IF n >= 0 THEN "absolute" ELSE "offset", n |-> n]

InitialStartBlock ==
    CASE StartKind = "latest" -> [kind |-> "latest", n |-> 0]
      [] StartKind = "file" -> Deserialized(StartArg)
      [] StartKind = "flag" -> ParsedStartBlockArg(StartArg)

(* initialize_block_state: where a fresh database starts.                  *)
TargetBlock(h) ==
    CASE InitialStartBlock.kind = "latest" -> h
      [] InitialStartBlock.kind = "absolute" -> InitialStartBlock.n
      [] InitialStartBlock.kind = "offset" -> MaxOf(h + InitialStartBlock.n, 0)

InitialLastProcessed(h) ==
    SatSub(MinOf(TargetBlock(h), SatSub(h, Confirmations)), 1)

(* AppContextBuilder::build, then Supervisor::run spawns the tasks.  The   *)
(* RPC node asked for the height may lag the chain.                        *)
Boot ==
    /\ up = "stopped"
    /\ up' = "running"
    /\ IF lastProcessed = NoBlock
       THEN /\ \E h \in SatSub(head, MaxLag)..head : lastProcessed' = InitialLastProcessed(h)
            /\ startBlock' = lastProcessed' + 1
       ELSE UNCHANGED <<lastProcessed, startBlock>>
    /\ FreshTasks("sleep", "recv")
    /\ UNCHANGED <<head, outbox, handed, lost>>

(* SIGINT, SIGTERM or the panic of a supervised task cancels the token.    *)
Cancel ==
    /\ "stop" \in Faults
    /\ up = "running"
    /\ up' = "cancelled"
    /\ UNCHANGED <<head, durable, channels, history, ingestor, processor, flow>>

(* Blocks whose matches are still held by the match tasks or channels.     *)
InFlight ==
    (Elems(correlated) \cup Elems(matches) \cup {evaluating, alerting}) \ {NoBlock}

(* All tasks and channels are gone.  What was in flight is lost for good   *)
(* where the persisted row already covers it.                              *)
Vanish ==
    /\ up' = "stopped"
    /\ lost' = lost \cup {b \in InFlight : b <= lastProcessed}
    /\ FreshTasks("done", "done")
    /\ UNCHANGED <<head, durable, startBlock, handed>>

(* The main loop sees the cancelled token and join_set.shutdown() aborts   *)
(* every task at its current await, whatever it was doing.                 *)
Abort == up = "cancelled" /\ Vanish

Crash == "crash" \in Faults /\ up # "stopped" /\ Vanish

IngestorStep ==
    /\ \/ ReadState \/ IngestorCancelled \/ ReadHead \/ IngestError
       \/ FetchChunk \/ SendBlock(ppc = "done") \/ SendClosed(ppc = "done")
    /\ UNCHANGED <<processor, flow>>

ProcessorStep ==
    /\ \/ ReceiveBlock \/ ProcessorCancelled \/ Correlate \/ BatchFails
       \/ Dispatch \/ Persist \/ PersistFails
    /\ UNCHANGED <<ingestor, flow>>

MatchStep ==
    /\ \/ FilterReceive \/ FilterSend \/ FilterPanics
       \/ AlertReceive \/ EnqueueFails
    /\ UNCHANGED <<ingestor, processor>>

CommitStep == Enqueue /\ UNCHANGED <<ingestor, processor>>

FlowStep == MatchStep \/ CommitStep

ChainStep == NewBlock /\ UNCHANGED <<ingestor, processor, flow>>

SupervisorStep == Boot \/ Cancel \/ Abort \/ Crash

Next == ChainStep \/ SupervisorStep \/ IngestorStep \/ ProcessorStep \/ FlowStep

Spec == Init /\ [][Next]_vars

(***************************************************************************)
(* Fairness: tokio polls every ready task again, so a step that stays      *)
(* enabled is taken.  A head read, a fetch and a database write that can   *)
(* fail are attempted again and again (run() never gives up), and are      *)
(* assumed not to fail every time: strong fairness.                        *)
(***************************************************************************)
Fairness ==
    /\ WF_vars(Boot)
    /\ WF_vars(ReadState /\ UNCHANGED <<processor, flow>>)
    /\ SF_vars(ReadHead /\ UNCHANGED <<processor, flow>>)
    /\ SF_vars(FetchChunk /\ UNCHANGED <<processor, flow>>)
    /\ WF_vars(SendBlock(ppc = "done") /\ UNCHANGED <<processor, flow>>)
    /\ WF_vars(ReceiveBlock /\ UNCHANGED <<ingestor, flow>>)
    /\ WF_vars((Correlate \/ BatchFails) /\ UNCHANGED <<ingestor, flow>>)
    /\ WF_vars(Dispatch /\ UNCHANGED <<ingestor, flow>>)
    /\ WF_vars((Persist \/ PersistFails) /\ UNCHANGED <<ingestor, flow>>)
    /\ WF_vars(FilterReceive /\ UNCHANGED <<ingestor, processor>>)
    /\ WF_vars(FilterSend /\ UNCHANGED <<ingestor, processor>>)
    /\ WF_vars(AlertReceive /\ UNCHANGED <<ingestor, processor>>)
    /\ WF_vars(Enqueue /\ UNCHANGED <<ingestor, processor>>)

-----------------------------------------------------------------------------
(* The variables hold what the Rust types allow, and no channel ever holds *)
(* more than the capacity it was created with.                             *)
TypeOK ==
    /\ head \in Nat
    /\ up \in {"running", "cancelled", "stopped"}
    /\ lastProcessed \in Nat \cup {NoBlock}
    /\ outbox \subseteq Nat /\ handed \subseteq Nat /\ lost \subseteq Nat
    /\ startBlock \in Nat
    /\ raw \in Seq(Nat) /\ Len(raw) <= BlockChannelCap
    /\ correlated \in Seq(Nat) /\ Len(correlated) <= BlockChannelCap
    /\ matches \in Seq(Nat) /\ Len(matches) <= MatchesCap
    /\ ipc \in {"sleep", "head", "fetch", "send", "done"}
    /\ readLast \in Nat \cup {NoBlock}
    /\ from \in Nat /\ safe \in Nat /\ nextBlock \in Nat
    /\ chunk \in Seq(Nat) /\ (ipc = "send" <=> chunk # <<>>)
    /\ ppc \in {"recv", "correlate", "dispatch", "persist", "done"}
    /\ buffer \in Seq(Nat) /\ Len(buffer) < ChunkSize
    /\ batch \in Seq(Nat) /\ Len(batch) <= ChunkSize
    /\ (ppc \in {"correlate", "dispatch"} <=> batch # <<>>)
    /\ lastHanded \in Nat \cup {NoBlock}
    /\ evaluating \in Nat \cup {NoBlock} /\ alerting \in Nat \cup {NoBlock}

(* Only blocks behind the confirmation depth enter the pipeline, however   *)
(* the head moves or the RPC node lags between the read and the send       *)
(* (ingest_blocks, safe_to_block).                                         *)
ConfirmedOnly ==
    Elems(chunk) \cup Elems(raw) \cup Elems(buffer) \cup Elems(batch) \cup handed
        \subseteq 0..(head - Confirmations)

(* Across crashes, aborted shutdowns, failed writes and restarts, the      *)
(* persisted row never claims a block that was neither handed to the       *)
(* filtering engine nor in a batch whose correlation failed.               *)
ProgressCovered ==
    lastProcessed # NoBlock => startBlock..lastProcessed \subseteq handed \cup lost

(* Every matching block the persisted row claims has its matches in the    *)
(* outbox, in a live task or channel, or in `lost`: only a failed batch, a *)
(* filter panic, a failed enqueue, an abort or a crash loses a match.      *)
MatchesAccountedFor ==
    lastProcessed # NoBlock =>
        MatchBlocks \cap startBlock..lastProcessed
            \subseteq outbox \cup InFlight \cup lost

(* The filtering engine sees blocks in ascending order, none twice in one  *)
(* process, the first one right after the persisted row, and every skipped *)
(* block was in a failed batch (next_block against last_processed_block).  *)
Previous == IF lastHanded = NoBlock THEN lastProcessed ELSE lastHanded

InOrder ==
    lastHanded' \notin {NoBlock, lastHanded} =>
        /\ lastHanded' > Previous
        /\ (Previous + 1)..(lastHanded' - 1) \subseteq lost

HandOffInOrder == [][InOrder]_vars

(* The persisted row implements a monotone checkpoint over settled blocks. *)
Abstract ==
    INSTANCE Checkpoint WITH checkpoint <- lastProcessed,
                             origin <- startBlock,
                             settled <- handed \cup lost

ImplementsCheckpoint == Abstract!Spec

-----------------------------------------------------------------------------
(***************************************************************************)
(* The inductive invariant.  Everything between the ingestor and the       *)
(* dispatch loop is one run of consecutive blocks that ends just below the *)
(* high-water mark; RawLo, BufLo and BatLo are where raw, buffer and batch *)
(* begin in it.                                                            *)
(***************************************************************************)
Consec(s, lo) == \A i \in 1..Len(s) : s[i] = lo + i - 1

RawLo == nextBlock - Len(raw)
BufLo == RawLo - Len(buffer)
BatLo == BufLo - Len(batch)

(* The block the ingestor must fetch next in this process.                 *)
Resume == IF nextBlock = 0 THEN lastProcessed + 1 ELSE nextBlock

ProcessInv ==
    /\ up = "stopped" => /\ ipc = "done" /\ ppc = "done" /\ nextBlock = 0
                         /\ correlated = <<>> /\ matches = <<>>
                         /\ evaluating = NoBlock /\ alerting = NoBlock
    /\ up # "stopped" => lastProcessed # NoBlock

IngestorInv ==
    /\ ipc = "head" => /\ readLast # NoBlock
                       /\ readLast <= lastProcessed
                       /\ nextBlock = 0 => readLast = lastProcessed
    /\ ipc = "fetch" => from = Resume /\ from <= safe
    /\ ipc = "send" => Consec(chunk, Resume)
    /\ ipc \in {"fetch", "send"} => safe <= head - Confirmations
    /\ Elems(chunk) \subseteq 0..safe

QueueInv ==
    /\ nextBlock = 0 => /\ raw = <<>> /\ buffer = <<>> /\ batch = <<>>
                        /\ lastHanded = NoBlock /\ ppc # "persist"
    /\ Consec(raw, RawLo) /\ Consec(buffer, BufLo) /\ Consec(batch, BatLo)

CoverInv ==
    /\ nextBlock # 0 =>
         /\ lastProcessed < BatLo
         /\ lastHanded < BatLo
         /\ startBlock..(BatLo - 1) \subseteq handed \cup lost
         /\ (Previous + 1)..(BatLo - 1) \subseteq lost
    /\ ppc = "persist" => lastHanded = BatLo - 1 /\ lastProcessed < lastHanded
    /\ lastProcessed # NoBlock => startBlock <= lastProcessed + 1
    /\ ProgressCovered

AccountInv ==
    /\ nextBlock # 0 =>
         MatchBlocks \cap startBlock..(BatLo - 1) \subseteq outbox \cup InFlight \cup lost
    /\ MatchesAccountedFor

IInv ==
    /\ TypeOK
    /\ ProcessInv
    /\ IngestorInv
    /\ QueueInv
    /\ CoverInv
    /\ ConfirmedOnly
    /\ AccountInv

-----------------------------------------------------------------------------
(* README: "stop and resume from where it left off without missing any     *)
(* blocks".                                                                *)
NoBlockMissed ==
    lastProcessed # NoBlock =>
        MatchBlocks \cap startBlock..lastProcessed \subseteq outbox \cup InFlight
=============================================================================
