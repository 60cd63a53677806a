----------------------------- MODULE Redelivery -----------------------------
(***************************************************************************)
(* The pipeline and the outbox table together: which payloads get a second *)
(* row after their first one was delivered.  The matches of a block are    *)
(* one payload, whose idempotency key is the block.  A row is deleted once *)
(* it was delivered, and its key is remembered only until then, while the  *)
(* blocks above the progress row go through the pipeline again in the next *)
(* process.  How the deliveries of one row repeat (a lost answer, a failed *)
(* deletion) is the matter of Outbox.                                      *)
(***************************************************************************)
EXTENDS Pipeline

VARIABLES
    rows,       \* durable: the keys in the outbox table
    \* History, read by no action:
    delivered,  \* keys with a row that was delivered and deleted
    twice,      \* keys with more than one such row
    again       \* blocks a process that ended had handed to the filtering
                \* engine and not covered by the progress row

delivery == <<rows, delivered, twice, again>>
allVars == <<vars, delivery>>

DeliveryInit == Init /\ rows = {} /\ delivered = {} /\ twice = {} /\ again = {}

(* enqueue_outbox_batch: INSERT OR IGNORE under a unique key.              *)
Commit ==
    /\ CommitStep
    /\ rows' = rows \cup {alerting}
    /\ UNCHANGED <<delivered, twice, again>>

(* process_batch, or the drain of a shutdown: a row is delivered to the    *)
(* end, and deleted.                                                       *)
Deliver(key) ==
    /\ key \in rows
    /\ rows' = rows \ {key}
    /\ delivered' = delivered \cup {key}
    /\ twice' = twice \cup (delivered \cap {key})
    /\ UNCHANGED <<again, vars>>

(* A process ends.                                                         *)
End ==
    /\ Abort \/ Crash
    /\ again' = again \cup {b \in handed : b > lastProcessed}
    /\ UNCHANGED <<rows, delivered, twice>>

Undelivering ==
    /\ ChainStep \/ Boot \/ Cancel \/ IngestorStep \/ ProcessorStep \/ MatchStep
    /\ UNCHANGED delivery

DeliveryNext == Commit \/ (\E key \in rows : Deliver(key)) \/ End \/ Undelivering

DeliverySpec == DeliveryInit /\ [][DeliveryNext]_allVars

(* A row in the table is delivered in the end (EveryRowLeaves of Outbox).  *)
FairSpec ==
    DeliverySpec /\ Fairness /\ \A key \in MatchBlocks : WF_allVars(Deliver(key))

-----------------------------------------------------------------------------
(* A delivered payload gets a second row only through a restart: its block *)
(* was handed on by a process that ended before the progress row covered   *)
(* it.  Polls that overlap, failed writes of the row and failed fetches    *)
(* repeat nothing (next_block against last_processed_block).               *)
RepeatsExplained == twice \subseteq again

(* A match on a confirmed block is delivered once enough further blocks    *)
(* are confirmed to fill the processor's batch, however full the channels  *)
(* get and however often a fetch or the write of the row fails.            *)
MatchesDelivered ==
    \A b \in MatchBlocks :
        /\ up = "running"
        /\ startBlock <= b
        /\ b + (ChunkSize - 1) + MaxLag <= head - Confirmations
        ~> b \in delivered

-----------------------------------------------------------------------------
(***************************************************************************)
(* The inductive invariant, on top of Pipeline's: outside `again`, a block *)
(* that was handed over lies below everything that is still to be          *)
(* dispatched, and its payload is in one place only.                       *)
(***************************************************************************)

(* The first block a later dispatch may hand over.                         *)
Ahead == IF nextBlock = 0 THEN lastProcessed + 1 ELSE BatLo

HandedInv == \A b \in handed : b < Ahead \/ b \in again

(* A block has one place in a channel, and one channel, task or table.     *)
OnceIn(s, except) == \A i, j \in 1..Len(s) : s[i] = s[j] => i = j \/ s[i] \in except

Apart(S, T, except) == S \cap T \subseteq except

Held(b) == {b} \ {NoBlock}

Exclusive(C, E, M, A, R, D, except) ==
    /\ Apart(C, E \cup M \cup A \cup R \cup D, except)
    /\ Apart(E, M \cup A \cup R \cup D, except)
    /\ Apart(M, A \cup R \cup D, except)
    /\ Apart(A, R \cup D, except)
    /\ Apart(R, D, except)

PlacesInv ==
    /\ InFlight \cup rows \cup delivered \subseteq handed
    /\ OnceIn(correlated, again) /\ OnceIn(matches, again)
    /\ Exclusive(Elems(correlated), Held(evaluating), Elems(matches), Held(alerting),
                 rows, delivered, again)

RepeatInv == HandedInv /\ PlacesInv /\ RepeatsExplained
=============================================================================
