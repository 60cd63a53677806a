------------------------------- MODULE DryRun -------------------------------
(***************************************************************************)
(* argus dry-run: a range of blocks, batch by batch, through the fetcher,  *)
(* the filters and the alert manager, then a flush, a drain of the outbox  *)
(* and a report.  Everything is in memory: an error anywhere ends the run  *)
(* without report.                                                         *)
(*                                                                         *)
(* A block is quiet or has one match, of a monitor that reads logs or of   *)
(* one that reads transactions; both use one action.                       *)
(***************************************************************************)
EXTENDS BlockFetch, SequencePlaces

CONSTANTS
    BatchSize,      \* BATCH_SIZE
    ChunkSizes,     \* values of log_chunk_size
    Concurrencies,  \* values of concurrency
    Ranges,         \* pairs <<from, to>> of the command line
    LastBlock,      \* bound on the chain
    Policies,       \* of the action: "none", "throttle", "aggregation"
    ThrottleMax     \* max_count of the throttle policy

ASSUME DryRunAssumption ==
    /\ BatchSize \in Nat \ {0}
    /\ LastBlock \in Nat
    /\ ThrottleMax \in Nat \ {0}
    /\ Ranges \subseteq Nat \X Nat
    /\ ChunkSizes \subseteq Nat

VARIABLES
    phase,      \* "start", "fetching", "evaluating", "next", "draining", "done", "failed"
    args,       \* [range, chunk, policy]: the command line and the configuration
    chain,      \* block |-> "quiet", "log" or "tx"
    broken,     \* whether the action's receiver refuses everything
    current,    \* current_block
    processed,  \* the block data that went through the filters
    matches,    \* the matches found: [block, monitor]
    throttled,  \* matches the throttle policy dropped
    count,      \* ThrottleState.count
    window,     \* AggregationState.matches
    rows,       \* the outbox, each row the matches of its payload
    alerts,     \* generated_alerts
    delivered   \* rows that were delivered

runVars == <<phase, args, chain, broken, current, processed, matches, throttled, count, window,
             rows, alerts, delivered>>
vars == <<runVars, fetchVars>>

Blocks == 1..LastBlock

TypeOfArgs == [range : Ranges, chunk : ChunkSizes, policy : Policies]

Init ==
    /\ NotFetching
    /\ slots \in Concurrencies
    /\ logs = [b \in {} |-> 0]
    /\ phase = "start"
    /\ args \in TypeOfArgs
    /\ chain \in [Blocks -> {"quiet", "log", "tx"}]
    /\ broken \in BOOLEAN
    /\ current = args.range[1]
    /\ processed = <<>> /\ matches = <<>> /\ throttled = {} /\ count = 0
    /\ window = <<>> /\ rows = <<>> /\ alerts = 0 /\ delivered = <<>>

Abort ==
    /\ phase' = "failed"
    /\ UNCHANGED <<args, chain, broken, current, processed, matches, throttled, count, window,
                   rows, alerts, delivered, fetchVars>>

\* validate_block_range
InvalidRange ==
    /\ phase = "start"
    /\ args.range[1] > args.range[2]
    /\ Abort

\* calculate_batch_end_block
BatchEnd == Lesser(current + BatchSize - 1, args.range[2])

StartBatch ==
    /\ \/ phase = "start" /\ args.range[1] <= args.range[2]
       \/ phase = "next" /\ current <= args.range[2]
    /\ StartFetch(current, BatchEnd, args.chunk)
    /\ phase' = "fetching"
    /\ UNCHANGED <<args, chain, broken, current, processed, matches, throttled, count, window,
                   rows, alerts, delivered>>

Fetching ==
    /\ phase = "fetching"
    /\ \/ AskLogs
       \/ \E c \in asked, h \in Heights : LogsAnswered(c, h)
       \/ LogsFail
       \/ AskBlock
       \/ \E b \in Blocks, h \in Heights : BlockAnswered(b, h)
    /\ UNCHANGED runVars

\* A side of the fetch gave up, or the receipts cannot be had.
FetchFails ==
    /\ phase = "fetching"
    /\ Joined
    /\ Abort

FetchDone ==
    /\ phase = "fetching"
    /\ Joined /\ failed = {}
    /\ phase' = "evaluating"
    /\ UNCHANGED <<args, chain, broken, current, processed, matches, throttled, count, window,
                   rows, alerts, delivered, fetchVars>>

----------------------------------------------------------------------------
\* The matches of a block: a log match for every copy of its log.
MatchesIn(data) ==
    [k \in 1 .. (CASE chain[data.number] = "log" -> data.copies
                   [] chain[data.number] = "tx" -> 1
                   [] OTHER -> 0) |->
        [block |-> data.number, monitor |-> chain[data.number]]]

\* The order in which Rayon's folds are put together is that of the items.
BatchMatches == FlattenSeq([k \in DOMAIN BlockData |-> MatchesIn(BlockData[k])])

\* handle_aggregation, one match after the other: a match that the window
\* holds already is skipped.
HandleAggregation(found) ==
    LET collected[n \in 0..Len(found)] ==
            IF n = 0 THEN window
            ELSE IF Contains(collected[n - 1], found[n]) THEN collected[n - 1]
            ELSE Append(collected[n - 1], found[n])
    IN  collected[Len(found)]

\* The batch goes through evaluate_item and process_matches_batch.  Time may
\* pass, so that the throttle window starts anew.
Evaluate ==
    /\ phase = "evaluating"
    /\ processed' = processed \o BlockData
    /\ matches' = matches \o BatchMatches
    /\ LET found == BatchMatches
           single(s) == [k \in DOMAIN s |-> <<s[k]>>]
       IN  \/ /\ args.policy = "none"
              /\ rows' = rows \o single(found)
              /\ alerts' = alerts + Len(found)
              /\ UNCHANGED <<window, throttled, count>>
           \/ /\ args.policy = "throttle"
              /\ \E c \in {count, 0} :
                    LET n == Lesser(Len(found), ThrottleMax - c)
                    IN  /\ rows' = rows \o single(SubSeq(found, 1, n))
                        /\ alerts' = alerts + n
                        /\ count' = c + n
                        /\ throttled' = throttled \cup {found[k] : k \in n + 1 .. Len(found)}
              /\ UNCHANGED window
           \/ /\ args.policy = "aggregation"
              /\ window' = HandleAggregation(found)
              /\ UNCHANGED <<rows, alerts, throttled, count>>
    /\ current' = wanted[2] + 1
    /\ phase' = "next"
    /\ UNCHANGED <<args, chain, broken, delivered, fetchVars>>

\* A script, a join of a task or the enqueue fails.
EvaluateFails ==
    /\ phase = "evaluating"
    /\ Abort

\* Mutant: the windows that are still open are left alone.
FlushNothing == UNCHANGED <<window, rows, alerts>>

\* AlertManager::flush
Flush ==
    /\ window' = <<>>
    /\ rows' = IF window = <<>> THEN rows ELSE Append(rows, window)
    /\ alerts' = IF window = <<>> THEN alerts ELSE alerts + 1

\* The loop is over: flush at its end, and once more in execute.
FinishLoop ==
    /\ phase = "next"
    /\ current > args.range[2]
    /\ Flush
    /\ phase' = "draining"
    /\ UNCHANGED <<args, chain, broken, current, processed, matches, throttled, count, delivered,
                   fetchVars>>

\* OutboxProcessor::drain_queue, until the outbox is empty.
Deliver(k) ==
    /\ phase = "draining"
    /\ ~broken
    /\ k \in DOMAIN rows
    /\ rows' = RemoveAt(rows, k)
    /\ delivered' = Append(delivered, rows[k])
    /\ UNCHANGED <<phase, args, chain, broken, current, processed, matches, throttled, count,
                   window, alerts, fetchVars>>

\* An error of the database in the flush or the drain.
FinishFails ==
    /\ phase = "draining" \/ (phase = "next" /\ current > args.range[2])
    /\ Abort

\* print_summary_report
Report ==
    /\ phase = "draining"
    /\ rows = <<>>
    /\ phase' = "done"
    /\ UNCHANGED <<args, chain, broken, current, processed, matches, throttled, count, window,
                   rows, alerts, delivered, fetchVars>>

Next ==
    \/ InvalidRange
    \/ StartBatch
    \/ Fetching
    \/ FetchFails
    \/ FetchDone
    \/ Evaluate
    \/ EvaluateFails
    \/ FinishLoop
    \/ \E k \in DOMAIN rows : Deliver(k)
    \/ FinishFails
    \/ Report

\* Every request is answered or fails, and the tasks get to run.
Spec == Init /\ [][Next]_vars /\ WF_vars(Next)

----------------------------------------------------------------------------
\* The blocks of the range go through the filters once each and in order,
\* whatever the batches, the chunks and the order of the answers, and each with
\* its logs exactly once; logs are missing only where a node that did not have
\* the block answered the request for them.
BlocksOnceInOrder ==
    \A k \in DOMAIN processed :
        /\ processed[k].number = args.range[1] + k - 1
        /\ processed[k].copies # 1 => processed[k].copies = 0 /\ processed[k].number \in short

\* The inductive invariant behind it: the processed blocks are the ones below
\* current_block, and a fetch under way is one of the batch at current_block.
RunInv ==
    /\ args \in TypeOfArgs
    /\ current \in Nat /\ args.range[1] <= current
    /\ processed \in Seq([number : Nat, copies : {0, 1}])
    /\ Len(processed) = current - args.range[1]
    /\ phase = "start" => current = args.range[1]
    /\ phase \in {"fetching", "evaluating"} =>
          current <= args.range[2] /\ FetchInv(current, BatchEnd, args.chunk)
    /\ phase = "evaluating" => todo = {} /\ asked = {} /\ failed = {}
    /\ BlocksOnceInOrder

Count(s, m) == Cardinality({k \in DOMAIN s : s[k] = m})

\* The report of a run that ends: all blocks of the range were processed, and
\* every match is in exactly one delivered notification unless it was
\* throttled; the numbers of notifications generated and delivered agree.
ReportConsistent ==
    phase = "done" =>
        /\ Len(processed) = args.range[2] - args.range[1] + 1
        /\ alerts = Len(delivered)
        /\ LET sentMatches == FlattenSeq(delivered)
           IN  \A k \in DOMAIN matches :
                  /\ Count(matches, matches[k]) = 1
                  /\ Count(sentMatches, matches[k]) = IF matches[k] \in throttled THEN 0 ELSE 1

\* The inductive invariant behind it: every match found so far is in exactly
\* one place, namely dropped by the throttle, in the window, in a row of the
\* outbox or delivered; all are of blocks before current_block, so that a
\* batch brings new ones only.
Found == {m \in [block : Nat, monitor : {"log", "tx"}] : m.monitor = chain[m.block]}

PlacesInv ==
    /\ matches \in Seq(Found) /\ window \in Seq(Found) /\ throttled \subseteq Found
    /\ rows \in Seq(Seq(Found)) /\ delivered \in Seq(Seq(Found))
    /\ ToSet(matches) = throttled \cup ToSet(window) \cup AllOf(rows) \cup AllOf(delivered)
    /\ throttled \cap (ToSet(window) \cup AllOf(rows) \cup AllOf(delivered)) = {}
    /\ ToSet(window) \cap (AllOf(rows) \cup AllOf(delivered)) = {}
    /\ AllOf(rows) \cap AllOf(delivered) = {}
    /\ IsInjective(matches) /\ IsInjective(window) /\ OnceEach(rows) /\ OnceEach(delivered)
    /\ \A m \in ToSet(matches) : m.block < current

LoopInv ==
    /\ count \in 0..ThrottleMax
    /\ alerts \in Nat /\ alerts = Len(rows) + Len(delivered)
    /\ phase \notin {"start", "failed"} => current <= args.range[2] + 1
    /\ phase \in {"draining", "done"} => current > args.range[2] /\ window = <<>>
    /\ phase = "done" => rows = <<>>

ReportInv == PlacesInv /\ LoopInv

\* The run comes to an end, with or without error, unless the configuration
\* allows no request at all, or a notification that is never accepted keeps
\* the drain going.
RunEnds == <>(\/ phase \in {"done", "failed"}
              \/ slots = 0
              \/ broken /\ phase = "draining" /\ rows # <<>>)

============================================================================
