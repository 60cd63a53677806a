------------------------------ MODULE MatchFlow ------------------------------
(***************************************************************************)
(* The two tasks behind the processor: FilteringEngine::run and the        *)
(* supervisor's AlertManager loop.  Each takes one element from its        *)
(* channel, works on it and puts the result into the next stage.           *)
(***************************************************************************)
EXTENDS PipelineState

VARIABLES
    evaluating,  \* block the filtering engine works on, or NoBlock
    alerting     \* block whose matches process_matches_batch works on, or NoBlock

flow == <<evaluating, alerting>>

FilterReceive ==
    /\ evaluating = NoBlock
    /\ correlated # <<>>
    /\ evaluating' = Head(correlated)
    /\ correlated' = Tail(correlated)
    /\ UNCHANGED <<alerting, head, up, durable, raw, matches, history>>

(* Mutant: the matches are dropped when the channel is full (try_send).    *)
FilterTrySend ==
    /\ evaluating # NoBlock
    /\ IF evaluating \in MatchBlocks /\ Len(matches) < MatchesCap
       THEN matches' = Append(matches, evaluating)
       ELSE UNCHANGED matches
    /\ evaluating' = NoBlock
    /\ UNCHANGED <<alerting, head, up, durable, raw, correlated, history>>

(* The block's matches are sent when there are any.  A panic inside the    *)
(* blocking evaluation is logged and the block's matches are dropped, as   *)
(* are the matches of an item whose evaluation returns an error.           *)
FilterSend ==
    /\ evaluating # NoBlock
    /\ IF evaluating \in MatchBlocks
       THEN /\ Len(matches) < MatchesCap
            /\ matches' = Append(matches, evaluating)
       ELSE UNCHANGED matches
    /\ evaluating' = NoBlock
    /\ UNCHANGED <<alerting, head, up, durable, raw, correlated, history>>

FilterPanics ==
    /\ "filter" \in Faults
    /\ evaluating # NoBlock
    /\ evaluating' = NoBlock
    /\ lost' = lost \cup {evaluating}
    /\ UNCHANGED <<alerting, head, up, durable, channels, startBlock, handed>>

AlertReceive ==
    /\ alerting = NoBlock
    /\ matches # <<>>
    /\ alerting' = Head(matches)
    /\ matches' = Tail(matches)
    /\ UNCHANGED <<evaluating, head, up, durable, raw, correlated, history>>

(* process_matches_batch commits the matches to the outbox table, or its   *)
(* error is logged and the matches are dropped (actions without a policy;  *)
(* module AlertManager has the policies).                                  *)
Enqueue ==
    /\ alerting # NoBlock
    /\ outbox' = outbox \cup {alerting}
    /\ alerting' = NoBlock
    /\ UNCHANGED <<evaluating, head, up, lastProcessed, channels, history>>

EnqueueFails ==
    /\ "enqueue" \in Faults
    /\ alerting # NoBlock
    /\ lost' = lost \cup {alerting}
    /\ alerting' = NoBlock
    /\ UNCHANGED <<evaluating, head, up, durable, channels, startBlock, handed>>
=============================================================================
