---------------------------- MODULE PipelineState ----------------------------
(***************************************************************************)
(* What the tasks of the live pipeline share: the chain they observe, the  *)
(* database rows that survive a restart, the three bounded mpsc channels   *)
(* the supervisor creates, and the cancellation token.  A block is its     *)
(* number; the matches of a block are the block's number again (the        *)
(* filtering engine sends one Vec<MonitorMatch> per block).                *)
(***************************************************************************)
EXTENDS Integers, Sequences

CONSTANTS
    ChunkSize,      \* config.block_chunk_size: fetch chunk and processor batch
    Confirmations,  \* config.confirmation_blocks
    MatchesCap,     \* config.notification_channel_capacity
    StartKind,      \* where the start block comes from: "latest", or a number
                    \* in the "file" (initial_start_block) or the "flag" (--from)
    StartArg,       \* ... and that number
    MatchBlocks,    \* blocks on which some monitor matches
    MaxHead,        \* bound: the chain stops growing at this height
    MaxLag,         \* bound: how far an RPC node may be behind the chain
    Faults          \* which faults the environment may inject

FaultKinds ==
    {"fetch", "batch", "persist", "filter", "enqueue", "stop", "crash"}

ASSUME PipelineAssumption ==
    /\ ChunkSize \in Nat \ {0}
    /\ Confirmations \in Nat
    /\ MatchesCap \in Nat \ {0}
    /\ StartKind \in {"latest", "file", "flag"}
    /\ StartArg \in Int
    /\ MatchBlocks \subseteq Nat
    /\ MaxHead \in Nat
    /\ MaxLag \in Nat
    /\ Faults \subseteq FaultKinds

VARIABLES
    head,           \* height of the chain
    up,             \* "running", "cancelled" (token cancelled), "stopped"
    lastProcessed,  \* durable: processed_blocks row of the network, or NoBlock
    outbox,         \* durable: blocks whose matches were enqueued
    raw,            \* raw_blocks channel: ingestor -> processor
    correlated,     \* correlated_blocks channel: processor -> filtering
    matches,        \* monitor_matches channel: filtering -> alert manager
    \* History, read by no action:
    startBlock,     \* first block the first boot made the service responsible for
    handed,         \* blocks the processor has handed to the filtering engine
    lost            \* blocks below lastProcessed whose matches no task holds any more

durable == <<lastProcessed, outbox>>
channels == <<raw, correlated, matches>>
history == <<startBlock, handed, lost>>
shared == <<head, up, durable, channels, history>>

NoBlock == -1

(* u64::saturating_sub and std::cmp::min / max on block numbers.           *)
SatSub(a, b) == IF a >= b THEN a - b ELSE 0
MinOf(a, b) == IF a <= b THEN a ELSE b
MaxOf(a, b) == IF a >= b THEN a ELSE b

(* mpsc::channel(block_chunk_size * 2) for raw and correlated blocks.      *)
BlockChannelCap == 2 * ChunkSize

(* The elements of a sequence.                                             *)
Elems(s) == {s[i] : i \in 1..Len(s)}

(* What fetch_blocks_concurrent(lo, hi) returns when nothing fails: every  *)
(* block of the range, sorted by number.                                   *)
Run(lo, hi) == [i \in 1..(hi - lo + 1) |-> lo + i - 1]

(* The chain grows; blocks behind `Confirmations` are final.  Reorgs are   *)
(* outside the model: the code has no reorg handling.                      *)
NewBlock ==
    /\ head < MaxHead
    /\ head' = head + 1
    /\ UNCHANGED <<up, durable, channels, history>>
=============================================================================
