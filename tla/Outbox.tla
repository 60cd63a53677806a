------------------------------- MODULE Outbox -------------------------------
(***************************************************************************)
(* The outbox table (enqueue_outbox_batch, get_pending_outbox,             *)
(* delete_outbox_items_batch, increment_outbox_retries) and its only       *)
(* reader, OutboxProcessor, under the supervisor's shutdown sequence.      *)
(* `opc` is where the processor is suspended:                              *)
(*   "fetch"    between two batches, in run() or in drain_queue()          *)
(*   "execute"  awaiting the next result of buffer_unordered               *)
(*   "delete"   awaiting the batch delete of the successful ids            *)
(*   "each"     awaiting a fallback delete of one successful id            *)
(*   "done"     not running                                                *)
(* `up` is the supervisor's phase: "running", "cancelled" (token           *)
(* cancelled, tasks alive), "flushing" (tasks aborted, the alert manager's *)
(* final flush may enqueue), "draining" (drain_queue), "stopped".          *)
(***************************************************************************)
EXTENDS Integers, Sequences, FiniteSets

CONSTANTS
    Keys,         \* idempotency keys
    Broken,       \* keys of payloads whose action the dispatcher does not hold
    Batches,      \* payload batches (sequences of keys) the alert manager enqueues
    BatchSize,    \* config.outbox.batch_size
    Concurrency,  \* config.outbox.concurrency
    MaxId,        \* bound: ids the AUTOINCREMENT column hands out
    MaxRetries,   \* bound: the retries column is counted up to here
    Faults        \* which faults the environment may inject

FaultKinds == {"exec", "ambiguous", "query", "db", "stop", "timeout", "crash"}

ASSUME OutboxAssumption ==
    /\ Keys # {} /\ Broken \subseteq Keys
    /\ Batches \subseteq Seq(Keys)
    /\ BatchSize \in Nat \ {0}
    /\ Concurrency \in Nat
    /\ MaxId \in Nat
    /\ MaxRetries \in Nat
    /\ Faults \subseteq FaultKinds

VARIABLES
    up,
    rows,       \* durable: ids in the table
    keyOf,      \* durable: their idempotency keys
    retries,    \* durable: their retries column
    nextId,     \* durable: AUTOINCREMENT
    opc,
    todo,       \* items of the batch whose result has not arrived
    succeeded,  \* successful_ids
    \* History, read by no action:
    accepted,   \* per id, how often the receiver accepted it (0, 1, or 2 and more)
    attempted,  \* ids dispatched at least once
    suspect     \* ids whose deletion or answer was hit by a fault

table == <<rows, keyOf, retries, nextId>>
processor == <<opc, todo, succeeded>>
history == <<accepted, attempted, suspect>>
vars == <<up, table, processor, history>>

Ids == 1..MaxId
Elems(s) == {s[i] : i \in 1..Len(s)}
PendingKeys == {keyOf[id] : id \in rows}

Init ==
    /\ up = "stopped"
    /\ rows = {} /\ keyOf = [id \in Ids |-> CHOOSE k \in Keys : TRUE]
    /\ retries = [id \in Ids |-> 0] /\ nextId = 1
    /\ opc = "done" /\ todo = {} /\ succeeded = <<>>
    /\ accepted = [id \in Ids |-> 0] /\ attempted = {} /\ suspect = {}

(* INSERT OR IGNORE of a batch in one transaction: a payload whose key is  *)
(* in the table, or came earlier in the batch, is dropped.  Only the order *)
(* of ids is ever used, so ignored payloads may consume an id here.        *)
Inserted(b) ==
    {i \in 1..Len(b) : b[i] \notin PendingKeys /\ \A j \in 1..(i - 1) : b[j] # b[i]}

Enqueue(b) ==
    /\ up \in {"running", "cancelled", "flushing"}
    /\ nextId + Len(b) - 1 <= MaxId
    /\ rows' = rows \cup {nextId + i - 1 : i \in Inserted(b)}
    /\ keyOf' = [id \in Ids |-> IF id \in nextId..(nextId + Len(b) - 1)
                                THEN b[id - nextId + 1] ELSE keyOf[id]]
    /\ nextId' = nextId + Len(b)
    /\ UNCHANGED <<up, retries, processor, history>>

(* Mutants: the newest rows first; a limit that is off by one.             *)
PendingNewest == {id \in rows : Cardinality({j \in rows : j > id}) < BatchSize}
PendingShort == {id \in rows : Cardinality({j \in rows : j < id}) < BatchSize - 1}

(* get_pending_outbox: ORDER BY id ASC LIMIT batch_size.                   *)
Pending == {id \in rows : Cardinality({j \in rows : j < id}) < BatchSize}

(* The next batch: process_batch, or one turn of the drain_queue loop,     *)
(* which ends when the table is empty.  Shutdown then closes the           *)
(* dispatcher and the database.                                            *)
Fetch ==
    /\ opc = "fetch"
    /\ up \in {"running", "cancelled", "draining"}
    /\ IF rows = {}
       THEN up = "draining" /\ up' = "stopped" /\ opc' = "done" /\ UNCHANGED todo
       ELSE opc' = "execute" /\ todo' = Pending /\ UNCHANGED up
    /\ UNCHANGED <<succeeded, table, history>>

(* A failed query ends the drain (run() only logs it and polls again).     *)
DrainFetchFails ==
    /\ "query" \in Faults
    /\ opc = "fetch" /\ up = "draining"
    /\ up' = "stopped" /\ opc' = "done"
    /\ UNCHANGED <<todo, succeeded, table, history>>

LoopCancelled ==
    /\ opc = "fetch" /\ up = "cancelled"
    /\ opc' = "done"
    /\ UNCHANGED <<up, todo, succeeded, table, history>>

(* buffer_unordered(concurrency.max(1)) runs the oldest unfinished items.  *)
Limit == IF Concurrency = 0 THEN 1 ELSE Concurrency
Running(id) == id \in todo /\ Cardinality({j \in todo : j < id}) < Limit

(* Mutant: the delete is attempted even with no successful id.             *)
AfterResultAlwaysDelete(left, ok) == IF left # {} THEN "execute" ELSE "delete"

(* Where process_batch_items goes when a result has been handled.          *)
AfterResult(left, ok) ==
    IF left # {} THEN "execute" ELSE IF ok = <<>> THEN "fetch" ELSE "delete"

Accept(id) == accepted' = [accepted EXCEPT ![id] = IF @ = 2 THEN 2 ELSE @ + 1]

Finish(id, ok) ==
    /\ Running(id)
    /\ todo' = todo \ {id}
    /\ succeeded' = ok
    /\ opc' = AfterResult(todo \ {id}, ok)
    /\ attempted' = attempted \cup {id}

ExecuteOk(id) ==
    /\ opc = "execute"
    /\ keyOf[id] \notin Broken
    /\ Accept(id)
    /\ Finish(id, Append(succeeded, id))
    /\ UNCHANGED <<up, table, suspect>>

(* Mutant: the id is collected for deletion whatever the result was.       *)
ExecuteErrCollected(id) ==
    /\ opc = "execute"
    /\ "exec" \in Faults \/ keyOf[id] \in Broken
    /\ Finish(id, Append(succeeded, id))
    /\ UNCHANGED <<up, rows, keyOf, nextId, retries, accepted, suspect>>

(* The action is unknown or the delivery fails; the increment of retries   *)
(* may fail as well (`let _ =`).                                           *)
ExecuteErr(id) ==
    /\ opc = "execute"
    /\ "exec" \in Faults \/ keyOf[id] \in Broken
    /\ Finish(id, succeeded)
    /\ \/ retries' = [retries EXCEPT ![id] = IF @ = MaxRetries THEN @ ELSE @ + 1]
       \/ "db" \in Faults /\ UNCHANGED retries
    /\ UNCHANGED <<up, rows, keyOf, nextId, accepted, suspect>>

(* The receiver accepted the request but its answer was lost.              *)
ExecuteAmbiguous(id) ==
    /\ "ambiguous" \in Faults
    /\ opc = "execute"
    /\ keyOf[id] \notin Broken
    /\ Accept(id)
    /\ Finish(id, succeeded)
    /\ retries' = [retries EXCEPT ![id] = IF @ = MaxRetries THEN @ ELSE @ + 1]
    /\ suspect' = suspect \cup {id}
    /\ UNCHANGED <<up, rows, keyOf, nextId>>

(* Mutant: the batch delete misses the last successful id.                 *)
DeleteBatchShort ==
    /\ opc = "delete"
    /\ rows' = rows \ {succeeded[i] : i \in 1..(Len(succeeded) - 1)}
    /\ opc' = "fetch" /\ succeeded' = <<>>
    /\ UNCHANGED <<up, keyOf, retries, nextId, todo, history>>

DeleteBatch ==
    /\ opc = "delete"
    /\ rows' = rows \ Elems(succeeded)
    /\ opc' = "fetch" /\ succeeded' = <<>>
    /\ UNCHANGED <<up, keyOf, retries, nextId, todo, history>>

DeleteBatchFails ==
    /\ "db" \in Faults
    /\ opc = "delete"
    /\ opc' = "each"
    /\ UNCHANGED <<up, todo, succeeded, table, history>>

(* One turn of the fallback loop: the delete of this id works or not.      *)
DeleteEach ==
    /\ opc = "each"
    /\ \/ rows' = rows \ {Head(succeeded)} /\ UNCHANGED suspect
       \/ UNCHANGED rows /\ suspect' = suspect \cup {Head(succeeded)}
    /\ succeeded' = Tail(succeeded)
    /\ opc' = IF Len(succeeded) = 1 THEN "fetch" ELSE "each"
    /\ UNCHANGED <<up, keyOf, retries, nextId, todo, accepted, attempted>>

(* The processor's future is dropped at its await: a delivery it knows of  *)
(* but has not recorded will be made again.                                *)
Drop(place) ==
    /\ opc' = place /\ todo' = {} /\ succeeded' = <<>>
    /\ suspect' = suspect \cup Elems(succeeded)
    /\ UNCHANGED <<table, accepted, attempted>>

Boot == up = "stopped" /\ up' = "running" /\ Drop("fetch")

Cancel ==
    /\ "stop" \in Faults
    /\ up = "running" /\ up' = "cancelled"
    /\ UNCHANGED <<table, processor, history>>

(* join_set.shutdown(), then alert_manager.shutdown() ...                  *)
Abort == up = "cancelled" /\ up' = "flushing" /\ Drop("done")

(* ... then drain_queue(), all of it under shutdown_timeout.               *)
StartDrain ==
    /\ up = "flushing" /\ up' = "draining"
    /\ opc' = "fetch"
    /\ UNCHANGED <<todo, succeeded, table, history>>

CleanupTimeout ==
    /\ "timeout" \in Faults
    /\ up \in {"flushing", "draining"} /\ up' = "stopped"
    /\ Drop("done")

Crash ==
    /\ "crash" \in Faults
    /\ up # "stopped" /\ up' = "stopped"
    /\ Drop("done")

Execute(id) == ExecuteOk(id) \/ ExecuteErr(id) \/ ExecuteAmbiguous(id)

SupervisorStep == Boot \/ Cancel \/ Abort \/ StartDrain \/ CleanupTimeout \/ Crash

ProcessorStep ==
    \/ Fetch \/ DrainFetchFails \/ LoopCancelled
    \/ \E id \in Ids : Execute(id)
    \/ DeleteBatch \/ DeleteBatchFails \/ DeleteEach

Next == (\E b \in Batches : Enqueue(b)) \/ SupervisorStep \/ ProcessorStep

Spec == Init /\ [][Next]_vars

(***************************************************************************)
(* Fairness: the runtime polls every ready task, the supervisor finishes   *)
(* its shutdown and is started again, and a delivery or a delete that is   *)
(* tried again and again does not fail every time.                         *)
(***************************************************************************)
Fairness ==
    /\ WF_vars(Boot) /\ WF_vars(Abort) /\ WF_vars(StartDrain)
    /\ WF_vars(Fetch)
    /\ WF_vars(\E id \in Ids : Execute(id))
    /\ \A id \in Ids : SF_vars(ExecuteOk(id))
    /\ SF_vars(DeleteBatch)
    /\ WF_vars(DeleteBatch \/ DeleteBatchFails) /\ WF_vars(DeleteEach)

FairSpec == Spec /\ Fairness

-----------------------------------------------------------------------------
(* The table and the batch in hand stay what their Rust types and the      *)
(* control flow say: a delete is only under way for a nonempty, duplicate- *)
(* free list of rows that are still in the table.                          *)
TypeOK ==
    /\ up \in {"running", "cancelled", "flushing", "draining", "stopped"}
    /\ rows \subseteq Ids /\ nextId \in Nat \ {0} /\ \A id \in rows : id < nextId
    /\ keyOf \in [Ids -> Keys] /\ retries \in [Ids -> 0..MaxRetries]
    /\ opc \in {"fetch", "execute", "delete", "each", "done"}
    /\ todo \subseteq rows /\ (opc = "execute" <=> todo # {})
    /\ succeeded \in Seq(Ids) /\ Elems(succeeded) \subseteq rows
    /\ opc \in {"delete", "each"} => succeeded # <<>>
    /\ opc \in {"fetch", "done"} => succeeded = <<>>
    /\ \A i, j \in 1..Len(succeeded) : succeeded[i] = succeeded[j] => i = j
    /\ accepted \in [Ids -> 0..2]
    /\ attempted \subseteq Ids /\ suspect \subseteq Ids

(* A row is delivered twice only if a fault hit its answer or its deletion: *)
(* neither the batch loop, the fallback deletes nor the shutdown drain     *)
(* sends on its own what was already sent.                                 *)
OnceUnlessFault ==
    \A id \in Ids : accepted[id] <= 1 \/ id \in suspect

(* A delivery overtakes fewer than `concurrency` older rows that were      *)
(* never attempted (ORDER BY id, buffer_unordered).                        *)
FewOvertaken(id) ==
    Cardinality({j \in rows : j < id /\ j \notin attempted}) < Limit

OldestFirst == [][\A id \in Ids : accepted'[id] > accepted[id] => FewOvertaken(id)]_vars

(* The outbox is an at-least-once queue without duplicate keys.            *)
Abstract ==
    INSTANCE DeliveryQueue WITH
        pending <- {<<id, keyOf[id]>> : id \in rows},
        delivered <- {id \in Ids : accepted[id] > 0}

ImplementsDeliveryQueue == Abstract!Spec

(* With fewer undeliverable rows than the batch holds, every other row is  *)
(* delivered and removed, through failures, failed deletes and shutdowns.  *)
EveryRowLeaves ==
    \A id \in Ids : id \in rows /\ keyOf[id] \notin Broken ~> id \notin rows

(* The shutdown drain comes to an end when no undeliverable row is left.   *)
DrainEnds ==
    up = "draining" /\ PendingKeys \cap Broken = {} ~> up = "stopped"

(* drain_queue: "to ensure all pending actions are attempted before        *)
(* exiting".                                                               *)
DrainAttemptsAll ==
    \A id \in Ids : up = "draining" /\ id \in rows ~> id \in attempted
(***************************************************************************)
(* The inductive invariant behind the proofs in Outbox_proofs.             *)
(***************************************************************************)

(* No task runs between two lives of the process, nor during the flush.    *)
IdleInv == up \in {"stopped", "flushing"} => opc = "done"

(* Two rows of the table never hold the same idempotency key.              *)
UniqueInv == \A i, j \in rows : keyOf[i] = keyOf[j] => i = j

(* What the receiver knows of a row follows from where its delivery got    *)
(* stuck: an id not handed out yet, or a row that is neither collected for *)
(* deletion nor suspect, was never accepted; a collected one was.          *)
DeliveryInv ==
    /\ \A id \in Ids : id >= nextId => accepted[id] = 0
    /\ \A id \in rows : accepted[id] = 0 \/ id \in suspect \/ id \in Elems(succeeded)
    /\ \A id \in Elems(succeeded) : accepted[id] > 0 /\ id \notin todo
    /\ OnceUnlessFault

(* A row older than one in the batch is in the batch or was attempted.     *)
BatchInv ==
    \A id \in todo : \A j \in rows : j < id => j \in todo \/ j \in attempted

IInv == TypeOK /\ IdleInv /\ UniqueInv /\ DeliveryInv /\ BatchInv
=============================================================================
