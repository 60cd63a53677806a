# TLA+ models of argus-rs

Argus watches an EVM chain: it reads confirmed blocks over RPC, evaluates user
monitors (Rhai scripts) on their transactions and logs, applies notification
policies to the matches, and delivers the results through an outbox table.
This directory models the parts of it that run concurrently and survive
restarts, the way from a block to its matches and from a match to the receiver,
the configuration tables behind the REST API, and the dry run. TLC checks them
on small instances, and TLAPS proves all their safety properties for
every value of the constants: every chain length, chunk size and channel
capacity, every set of monitors, ABIs and blocks, every menu of API requests,
every template and script, every range of a dry run.

Paths below are relative to the repository root.

## The system

| Component | State | Operations | Talks to |
|---|---|---|---|
| Block ingestor (`crates/argus-engine/src/block_ingestor.rs`) | `next_block` high-water mark | poll cycle: read row, read head, fetch chunks, send blocks | RPC, `processed_blocks`, `raw_blocks` channel |
| Block processor (`block_processor.rs`) | `block_buffer` | receive, correlate a batch, dispatch, persist the row | `raw_blocks`, `correlated_blocks`, `processed_blocks` |
| Filtering engine (`filtering.rs`) | none of its own | evaluate a block, send its matches | `correlated_blocks`, `monitor_matches`, monitor snapshot |
| Alert manager (`alert_manager.rs`) | throttle and aggregation maps, saved copies in the key-value table | handle matches, dispatch expired windows, sync, flush | `monitor_matches`, outbox, database |
| Outbox (`outbox_processor.rs`, `argus-store/src/app_repository.rs`) | outbox rows | enqueue, fetch a batch, execute, delete, count retries, drain | dispatcher, database |
| Supervisor (`src/supervisor/mod.rs`) | cancellation token, task set | start, cancel, abort, clean up, reload monitors | all tasks |
| Application context (`src/context/mod.rs`) | none | first-boot initialisation of the row, loading of monitors, actions, ABIs | database, RPC |
| Monitor manager, interest registry (`argus-monitor`) | one snapshot | rebuild from the database | filtering, RPC log filter |
| REST API (`argus-api`) | none | create, update, delete monitors, actions, ABIs; signal a change | database, supervisor |
| Action dispatcher, publishers, templates, HTTP client pool (`argus-dispatch`) | clients | execute a payload | external services |
| Fetcher and RPC provider (`argus-providers`) | none | fetch a range of blocks and logs | RPC |
| ABI service, Rhai engine, validators | caches | decode, analyse, evaluate | context, API, filtering |
| Dry run (`src/cmd/dry_run.rs`) | everything in memory | range, batches, flush, drain, report | fetcher, filtering, alert manager, outbox |
| Configuration, polling | none | settings, a delay | |

What is hard here: five tokio tasks connected by bounded channels, each of
which can be dropped at any await by `join_set.shutdown()`; a progress row that
is written by one task and trusted after a restart by another; failures that
are logged and passed over; two tasks sharing the alert maps while one of them
copies them to the database; deliveries that are repeated until a delete
succeeds; a snapshot of the monitors that is read again at each stage of a
block's way, with optimisations at each stage that drop what no monitor wants;
API handlers that check one statement and write in the next, against lists that
were read when the process started; and templates and scripts that are accepted
on the strength of one dummy match and then run on every real one.
`PROJECT.json` lists each hazard at its line with the properties that cover it.

## Modules

| Module | Role |
|---|---|
| `PipelineState` | constants, shared variables (chain, row, outbox, channels, token) and helpers of the pipeline |
| `BlockIngestor`, `BlockProcessor`, `MatchFlow` | one task (or, for `MatchFlow`, the filtering and alert tasks) each: control place, local variables, one action per stretch between two awaits |
| `Pipeline` | the tasks composed, with boot, cancel, abort, crash; properties; the inductive invariant |
| `Checkpoint` | what the row promises: it only moves forward, over settled blocks |
| `Redelivery` | `Pipeline` with the outbox table: which delivered payloads get a second row; its inductive invariant |
| `Pipeline_proofs` | theorems about `Pipeline` and `Redelivery` |
| `Outbox` | outbox table, processor and drain, under the supervisor's shutdown |
| `DeliveryQueue` | what the outbox promises: an at-least-once queue without doubled keys |
| `Outbox_proofs` | theorems about `Outbox` |
| `AlertManager` | policies, dispatcher, state sync, flush, restart with another configuration |
| `AlertManager_proofs` | theorems about `AlertManager` |
| `MonitorAssets` | ABI links, classification, interest registry, log filters, correlation and the two evaluation passes, as operators |
| `Matching` | one block from the RPC source to its matches while the supervisor replaces the monitors |
| `Matching_proofs` | theorems about `Matching` |
| `ConfigStore` | the configuration tables and their statements, as operators |
| `ConfigApi` | REST handlers, start from files, change signal and reload, over `ConfigStore` |
| `ConfigApi_proofs` | theorems about `ConfigApi` |
| `ScriptView` | what a script reads, what the validator accepts of it and what it gives, as operators |
| `Templates` | the JSON of a match, filters, templates and their check, as operators, over `ScriptView` |
| `Delivery` | from evaluated items over the outbox to the receivers, through stops and restarts, over `Templates` |
| `Delivery_proofs` | theorems about `Delivery`, lemmas about `Templates` and `ScriptView` |
| `BlockFetch` | the concurrent fetch of a range |
| `DryRun` | a dry run, over `BlockFetch`; its inductive invariant |
| `DryRun_proofs` | theorems about `DryRun`, lemmas about `BlockFetch` |
| `SequencePlaces` | which elements a sequence of sequences holds, and whether each once |
| `SequenceLemmas` | lemmas about sequences, flattening, removal and recursive passes that the proofs share |
| `MCPipeline`, `MCOutbox`, `MCAlertManager`, `MCMatching`, `MCConfig`, `MCDelivery`, `MCDryRun` | constants for TLC |

Modelling conventions. An action is the code between two awaits of one task, so
every interleaving the runtime can produce is a behaviour, and an abort can hit
at every await. A failing call is an action of its own, enabled when its kind
is in `Faults`. Each module ends a process with one action for a crash (which
can happen anywhere) and one for the orderly path. Definitions before which a
comment says "Mutant" are deliberate bugs used to show that a property can
fail; no specification uses them. Variables under "History" are read by no
action; they record what the properties speak about.

### Pipeline

A block is its number, and a block's matches are the block's number again: the
filtering engine sends one vector per block. `ipc` and `ppc` name the await at
which the ingestor and the processor are suspended. The row is read in
`ReadState`, one step before the head (`ReadHead`), as in `ingest_blocks`; the
head an RPC node answers may lag the chain by `MaxLag`, at boot as well.
`FetchChunk` keeps the code's range `from..min(from + block_chunk_size, safe)`,
which is one block longer than the processor's batch. `handed` collects the
blocks sent to the filtering engine. `lost` collects the blocks that a failed
batch, a panicking evaluation, a failed enqueue, an abort or a crash took out
of the pipeline while the row covers them or will cover them; nothing else
adds to it, so the properties that mention `lost` say that nothing else loses
a block.

`InitialStartBlock` follows the start block from its source: a file gives text
that `Deserialized` turns into a number or "latest", where 0 and an absent key
become the default offset, and the command line gives text that
`ParsedStartBlockArg` reads; `TargetBlock` turns the result and the head into
the first row. The file and the flag disagree about "0": block 0 on the command
line, the default offset in the file.

Left out: reorganisations (the code has no handling), the contents of blocks,
metrics, the calibrator. The closing of `correlated_blocks` is left out too:
its receiver lives in a task that only ends after the processor does.
In this module the alert manager's part is "enqueue or fail"; `AlertManager`
has the policies.

`Redelivery` adds the rows of the outbox table to the pipeline. `Commit` is the
pipeline's enqueue with its `INSERT OR IGNORE`: a key is only compared with the
rows that are there. `Deliver` takes a row to its end; the failures on the way,
which repeat the delivery of one row, are the matter of `Outbox`, and here a repeat
means a second row after the first one was delivered and deleted. `End` is the
pipeline's abort or crash and records in `again` what the process had handed over
above the row.

### Outbox

Rows are ids with an idempotency key; `INSERT OR IGNORE` drops a payload whose
key is in the table or came earlier in the batch (ids of ignored payloads may
be consumed, since only the order of ids is ever used). `Broken` keys belong
to actions the dispatcher does not hold (removed from the configuration, or
their publisher could not be created), so `execute` always fails for them.
`accepted[id]` counts how often the receiver took the row (up to "two or
more"), and `suspect` holds the ids whose answer or delete was hit by a fault:
an ambiguous answer, a failed delete, or a drop of the processor between
delivery and delete. The `retries` column is counted up to `MaxRetries`;
nothing reads it. A failed fetch in `run()` only logs, so it is a stuttering
step; in `drain_queue` it ends the drain.

### AlertManager

Time is the age of a window, counted to one past its length, because the code
only asks whether `now > start + window`. An absent throttle entry behaves as
one whose window has expired. The per-action lock is left out: the alert loop
is its only holder. One check of the windows and one snapshot of the maps are
each one action although the code locks entry by entry: entries of different
actions are independent. `fate[m]` records what became of a match. A restart
may load another configuration (policy or action removed).

### MonitorAssets and Matching

A monitor is what the code derives from it: its address and ABI, the roots its
script reads (which `classify_monitor` turns into capabilities), the event names
it compares `log.name` with, and its script as one condition per root, joined by
"or" or by "and". An event is named by its signature. That the names are the
ones the script accepts is Rhai's analyzer's business and taken as given.

`Matching` keeps the ABI service (filled at startup, untouched by a reload), the
snapshot, and one block in flight. Its steps are the moments at which the code
reads the snapshot: `StartCycle` (`requires_receipt_data`), `Fetch`
(`fetch_logs_for_range`, receipts), `Correlate` (`process_blocks_batch`) and one
`Evaluate` per item, in any order, because rayon evaluates them in parallel.
`Reload` replaces the snapshot between any two of them; `Restart` also links the
ABIs again. Faults are a missing receipt and a script that fails. `steady` holds
the monitors that were in every snapshot since the cycle started, `hidden` the
logs whose signature some monitor of all addresses asks for and that the fetch
left out all the same, because their address has an entry of its own.

`SteadyMonitorsServed` compares the outcome with the block's way if the monitor
were alone. It holds for every monitor with an address, whoever its neighbours
are. For a monitor of all addresses it does not: `is_log_interesting` asks an
address's own entry and nothing else, so the monitor loses the logs of a contract
that a neighbour watches for other events. The property says that this is the
only loss (`Shadowed`: without the hidden logs it would not match).

`WrittenForIsMatched` compares the outcome with what the user guide says a monitor
is for (`WantedLogs`, `WantsCall`, `WantsTx`), a definition that knows nothing of
registries, links or dropped transactions, and names each way in which the code
falls short of it: a log hidden as above; a log the ABI service does not decode
while it holds another ABI for the address, or none (`ForeignAbi`: a second ABI on
one address, or a monitor created after the start); a transaction without fetched
logs, for a monitor that reads more than the transaction. Calls are never lost.
TLC reaches each of them, and Observations has what the documents say.

Left out: a script that does not compile, log data that does not fit its event's
signature, and monitors without actions, for which a match produces no message.
The chunks of a log range can read two snapshots in one fetch; for a single
block there is one read.

### ConfigStore and ConfigApi

An operator of `ConfigStore` is one SQL statement with the constraints of the
schema: unique names, the foreign key from a monitor to its ABI, ids that are
never used again. Monitors name their actions inside a JSON column, so nothing
in the database protects that reference; `GetMonitorsByActionName` is the LIKE
query of the code. `Alike` gives for each name the names whose JSON text its
pattern matches: those that differ only in the case of ASCII letters, and not
even itself for a name that JSON spells with an escape (`Opaque`). `make` is what
the dispatcher can make of an action's settings.

`ConfigApi` has one action per await of a handler: `Begin` (authentication,
syntax, the checks without database), the checks, the write, `Notify`. A request
is a record of the few things the code looks at. Two clients' handlers, the
reload (`SeeChange`, `ReadTable`, `Apply`), a stop and a crash interleave freely;
a connection may close at any await, which drops the handler there, and any
statement may fail. `Start` to `GoUp` is `AppContextBuilder::build`, whose
statements are steps of their own, since a crash between two of them leaves a
half-filled table for the next start; a statement that fails there ends the
process, as the crash does. `known` and `loaded` are the lists the process keeps
from its start. `dispatcher` is what `ActionDispatcher::new` made of the stored
actions: a publisher whose `from_config` fails is skipped (`GoUp(failing)`), and a
webhook without a client, or a type that is not compiled in, ends the start
(`BuildFails`), although the API has accepted it.

The history variables say which known weakness a state is owed to: `excused`
collects references to actions that the code lets dangle (a rename, a monitor
checked against the old list, a write between check and deletion, an escaped
name), `edits` what may make a later start fail, `missed` a change without a
signal or with a failed reload. The invariants say that there are no others. A
500 is explained by its request: `MissedAbi` holds of a monitor whose ABI is not
stored and whose script reads no logs, or whose ABI was deleted since the start.

### ScriptView, Templates and Delivery

A script is a chain of comparisons joined by `&&` or `||`, where a comparison may
also compute with what it reads, or loop as often as the value it reads says; a
template is one placeholder, at the top, under an `if`, in a loop or in a sum, or
an `if` on a path around plain text ("test"), which has no `{{` and which the
validator therefore takes for no template. That is enough to
tell apart what the validator sees (names, and one run on empty maps or on a
dummy match) from what a real item holds: which maps, proxies and JSON objects
have which key (`TxMap`, `TxDetails`, `ReadLog`, `CallDetails`), which integers
become JSON numbers and which text, and what the filters make of them. `I64Max`
and `MaxDecimal` stand for 2^63-1 and 2^96-1. `log.log_index` is a `u64` (`U64`),
which Rhai does not compare with its own integers: the comparison is an error in
a real run, and in the trial run on empty maps, where the field is missing, it is
false. `MaxOperations` is the engine's limit on operations, which a loop
driven by the data can reach; the limits on call levels and on the size of
strings and arrays concern functions and values the modelled scripts do not make.

`Delivery` puts them to work: `Evaluate` is `evaluate_item` with its two caches
for decoded logs and calls, matches become rows directly or through an
aggregation window, `Execute` attempts a row and deletes it. A row whose
rendering panics ends the outbox task, and the shutdown's drain meets it again.
NATS, RabbitMQ and a Kafka producer with `acks` 0 (`kafka_acks0`) take a message
without waiting for the broker (`buffer`), so what they hold is lost (`killed`)
when the process goes down first. An action
that cannot be built at a start is missing from `actions` until the next one.

### BlockFetch and DryRun

`BlockFetch` follows `fetch_blocks_concurrent`: log chunks (`buffer_unordered`)
and blocks (`buffered`, which yields in order) are requested with at most
`slots` requests of each kind, answered in any order by nodes of different
heights. A node that does not have a block yet fails a block request, and answers
a log request without error and without the logs: `short` remembers those
blocks. `DryRun` drives it batch by batch and applies the action's policy, then
flushes, drains and reports. Its outbox is the in-memory one, with one receiver
that accepts or refuses everything.

## Runs

| Run | States | Shows |
|---|---|---|
| `pipeline_safety` | 2.43 M | pipeline and outbox table, all faults on: types and capacities, confirmed blocks only, the row never ahead of the hand-over, matches accounted for, hand-over in order, a delivered payload gets a second row only through a restart behind the row, `Checkpoint` implemented |
| `pipeline_liveness` | 5 k | with transient faults a match is delivered once its batch can fill |
| `outbox_safety` | 104 k | all faults on: a duplicate needs a fault, oldest first, `DeliveryQueue` implemented |
| `outbox_liveness` | 12 k | deliverable rows leave, a drain without undeliverable rows ends |
| `alerts_safety` | 2.5 M | all faults and three configurations: no match vanishes unnoticed, throttle limit, clean stop |
| `alerts_liveness` | 71 k | windows are dispatched |
| `matching_safety` | 161 k | pairs of monitors, a reload or restart at any moment: a monitor with an address loses no match to its neighbours, one of all addresses only the logs their entries hide, and what a monitor is written for is lost in three named ways only; one kind of match, failures have a cause, log filters exact |
| `config_safety` | 405 k | two clients, all faults: tables consistent, no change forgotten; dangling references, running monitors without route, refused starts and internal errors have a named cause; changes reach the engine |
| `delivery_safety` | 90 k | every setup of the catalogue: no row leaves undelivered but in the named ways, accepted templates and scripts fail only in the named ways, monitors do not see each other's data |
| `dry_run` | 730 k | blocks once and in order with their logs, the report adds up, the run ends |
| `pipeline_stop_resume` | violated | a stop loses blocks the row already claims |
| `outbox_drain` | violated | undeliverable rows keep the drain from the others |

The violated runs each state what a document or comment of the repository
says; `findings` in `PROJECT.json` quotes the lines. The stop/resume result and
the batch that is skipped when its correlation fails are two sides of one design
decision: the row is advanced when blocks are handed to the filtering engine, not
when their matches are in the outbox. `MatchesAccountedFor` states what does
hold: a match below the row is only lost to one of the named faults. A stop between
the hand-over and the write of the row errs to the other side: the same blocks go
through again (`RepeatsExplained` states that nothing else repeats a delivered
payload; see the observations below).

Bounds. Pipeline: a chain of at most five blocks (six for liveness) with chunk
size 2, where blocks 2 and 3 match, so that there are two batches, a fetch is longer
than a batch, a cycle needs a second chunk, the channel of matches (capacity 1,
the block channels have 4) fills, and several processes follow each other on one
database; one confirmation and a lag of one block make the head move backwards
between two reads; the start is three blocks behind the head, which is cut to
the safe head or to zero for short chains. Outbox: three keys, one of them
undeliverable, batches with a repeated key, four ids, batch size and
concurrency 2; the drain run uses batch size 1, where one undeliverable row is
enough. Alerts: one throttled and one aggregating action, two batches with
both in either order, windows of one tick, limit 1. Matching: two contracts, two
ABIs that share an event, tables of at most two of ten monitors (a linked ABI, a
second ABI on the same address, all addresses, hybrid, transaction-only, with
receipt, paused, and two the validator refuses), one reload per cycle, and two
blocks of two transactions with logs of both contracts, an anonymous log, a
contract creation and a call without logs. The effects of three or more monitors
and of several reloads are covered by the proofs. Configuration: two requests
out of 25 that touch the same few rows, two faults and two starts: a race
needs two handlers, and what it leaves behind shows at the second start.
Delivery: those of 197 combinations of scripts, templates and actions that the
validators accept, two of four items
that differ in type, recipient, receipt, logs, call and amounts (with `I64Max` 3
and `MaxDecimal` 5, so that amounts lie on both sides of either, as they do of
`MaxOperations` 3), two stops. Dry
run: four blocks, batches of three, chunks of none, one and two, zero to two
slots, and a node one block behind; the proof covers the rest. No symmetry is
used: ids and blocks are ordered, and contracts are told apart by the monitors.

Fairness. Every task gets weak fairness for the steps that tokio polls once
they are ready. Reading the head, fetching, executing a delivery and deleting
have strong fairness, since the code repeats a failed attempt for ever and an
RPC node or receiver is assumed not to fail every time (in `Outbox` only for
keys outside `Broken`). That a row in the table is delivered, which
`outbox_liveness` shows, is weak fairness of `Deliver` in `Redelivery`. The environment's faults have none. Time passes in
`AlertManager` (`WF(Tick)`). A stopped supervisor is started again. In
`ConfigApi` every await of a handler and of the reload ends, for each client by
itself; nothing obliges a client to send or a process to start. A dry run makes
progress as long as it can (`WF(Next)`): each request is answered or fails.

## Proofs

`Pipeline_proofs` proves, from `PipelineAssumption` alone (chunk size and
capacity positive, confirmations and the bounds natural numbers, the number
the start block is given by an integer):

* `Inductive`: `Spec => []IInv`;
* `TypeCorrect`, `OnlyConfirmedBlocks`, `ProgressIsCovered`,
  `MatchesAreAccountedFor`: the invariants of `pipeline_safety`;
* `HandsOffInOrder`: the action property `HandOffInOrder`;
* `RefinesCheckpoint`: `Spec => Checkpoint!Spec` under the refinement mapping;
* `DeliveryIsPipeline`: `DeliverySpec => Spec`, so all of these also hold with the
  outbox table;
* `RepeatsAreExplained`: `DeliverySpec => []RepeatsExplained`.

None of the properties is inductive. `IInv` adds that `raw`, the buffer and the
batch are one run of consecutive blocks that ends just below the high-water
mark (`QueueInv`), that the ingestor's cycle continues exactly there, using
that a row read before the head is at most the row now and equal to it in a
process that has sent nothing yet (`IngestorInv`), that everything below the
batch was handed over or lost (`CoverInv`), and that matching blocks below the
batch are held somewhere (`AccountInv`). The lemmas at the start of the module
say what `Append`, `Tail` and `Run` do to consecutive runs and to element sets;
then there is one lemma per action. The chain's growth is bounded by `MaxHead`
only as a constant of the specification, for which the proof assumes nothing
but `MaxHead \in Nat`.

`RepeatsExplained` rests on `IInv` and on `RepeatInv`: except for the blocks in
`again`, every block handed over lies below the next one a dispatch can hand over
(`HandedInv`, where `Ahead` follows the high-water mark within a process and falls
back to the row at its end), and its payload is in one place only of channels, tasks,
table and delivered keys (`PlacesInv`). A dispatch then brings a payload that is
nowhere yet, and every other step moves one on or drops it.

`Matching_proofs` proves, from `AbiAssumption`, `CatalogueAssumption` and
`BlockAssumption` (events and addresses differ from the special values, monitors
name registered ABIs, a hash names one transaction of a block):

* `LogFilterExactHolds`: both log filters together return the interesting logs,
  and a bloom filter with false positives never makes the single-block fetch
  skip one. It follows from the types of the registry alone (`RegistryTyped`).
* `SteadyMonitorsAreServed`. The invariant `ServiceInv` says how far the block
  has come for every steady monitor: what it would fetch on its own is fetched or
  hidden from it (`LogsKept`), and each item it would match on the logs that are
  not hidden is waiting with at least those logs, has failed or has matched
  (`ItemsKept`). `InterestGrows` says that another monitor never makes a log of
  the address of this one uninteresting, and a log of a global signature only by
  an entry for its address; `CorrelationGrows` and `EvaluationGrows`, that the
  later stages only give a monitor more when others join it.
* `WrittenForIsMatchedHolds`. `WrittenForMatchesAlone` shows that a monitor on
  its own matches the logs and calls it is written for, given that they are
  decoded and not hidden, and `UndecodedIsForeign` that a log of a monitor's
  contract and ABI fails to decode only if the ABI service holds another ABI. For
  transactions `TxsKept` says that one with a fetched log, of whatever monitor,
  goes through the correlation (`CorrelateKeepsTxs`) and is offered to every
  monitor that reads transactions (`EvaluateServesTx`).
* `OneKindOfMatchHolds`. Within one evaluation the second pass skips what the
  first one matched; across evaluations `KindInv` adds that a transaction is
  evaluated once, so a reload between items cannot mix two evaluations.

* `TypeCorrect`, which no run repeats. Of the monitors with ABI on one address the last one is linked;
  that there is a last one rests on a finite catalogue (`LastMonitorExists`).
* `FailuresExplainedHolds`. `ReceiptsInv` says that without a reload the flag read
  at the start of a cycle is the one of the snapshot, and that a cycle which
  fetches receipts misses only those the node does not have.

`Outbox_proofs` proves, from `OutboxAssumption` (batch size positive, batches over
the keys; the keys may be infinitely many):

* `Inductive`, `TypeCorrect`, `DeliveredOnceUnlessFault`;
* `DeliversOldestFirst`: the action property, for every concurrency;
* `RefinesDeliveryQueue`: `Spec => DeliveryQueue!Spec`.

`OnceUnlessFault` counts what the receiver took; that needs to know what it took
of the rows that are still there (`DeliveryInv`: a row that is neither collected
for deletion nor suspect was never accepted). `UniqueInv` carries the refinement,
`BatchInv` (no older row is missing from a batch unless it was attempted) the
order, and `IdleInv` says that no processor runs between two lives.

`AlertManager_proofs` proves, from `AlertAssumption`: `Inductive`, `TypeCorrect`,
`NoAlertDropped` (`AlertsAccountedFor`), `ThrottleLimitKept` and the action
property `StopsClean`. `CountInv` says that the throttle state that counts, in
memory or, with no process, in the row a boot will load, has the age of the real
window and counts everything sent or being sent in it, unless it was rolled back.
`FlushInv` follows the final flush: its forced check empties every window, nothing
fills one afterwards, and a row that is no longer to be written holds what memory
holds.

`ConfigApi_proofs` proves, from `MenuAssumption`, `FileAssumption` and
`BoundAssumption` (requests are well-formed, and the files as deployed name
everything once and fit each other; the numbers of clients, requests and rows are
arbitrary): `Inductive`, `TypeCorrect`,
`TablesStayConsistent`, `ChangeRemembered`, `DanglingHasReason`,
`RunningMonitorsRouted`, `RefusalHasReason`, and the action property
`InternalErrorHasReason`. The heart of `IInv` is `HandlerInv`: a handler is on its
path, and what its checks found is still true (`StillTrue`) unless another client
wrote meanwhile; a monitor that reads logs names a loaded ABI once it is validated,
which leaves `MissedAbi` as the only unprovoked 500 of a write. `StartInv` says how far a start has come, `RoutedInv` that the
table, a reload under way and the engine name known actions, and the dispatcher has
a route for each known action but the publishers it was given, and `ReloadInv` that a
reload which read an old table will be followed by another. There is one lemma per
action, over shared lemmas for steps that change no table (`QuietStep`), for writes
(`WroteStep`), for the start (`StartingStep`) and for the reload (`ReloadStep`).
`BuildFailsStep` shows that a start which comes as far as the dispatcher fails only
over an action the dispatcher cannot make, never over the links.

`DryRun_proofs` proves, from `DryRunAssumption` and `HeightAssumption` (batch size
and throttle limit positive, everything a natural number):

* `BlocksGoThroughOnceInOrder`: `Spec => []BlocksOnceInOrder`. The property
  speaks only of what was processed; `RunInv` adds that these are the blocks
  below `current_block` and that a fetch under way is the one of the batch that
  starts there. `FetchInv` says of each block of that batch that its logs have
  not come back while its chunk is waiting or under way, and came back once
  afterwards, unless the request failed or went to a node without the block. It
  rests on three lemmas about `fetch_logs_chunked`: the chunks stay in the range
  (`ChunksInRange`), share no block (`ChunksDisjoint`) and leave none out
  (`ChunksCover`).
* `ReportIsConsistent`: `Spec => []ReportConsistent`. `PlacesInv` says that every
  match is in exactly one place (throttled, in a window, in a row of the outbox,
  delivered), and that a batch brings new ones only; `LoopInv` counts the
  notifications. The sequences are handled by `SequenceLemmas`: what
  flattening, concatenation and the removal of a row do to the places.

`Delivery_proofs` proves, from `SetupAssumption`, `ItemAssumption`,
`DecimalAssumption` and `DeliveryAssumption` (lists are lists, every action has a
type and a template where its type needs one, nonces and indices fit a Decimal, which
amounts need not do):

* `TypeCorrect` and `RowsAreDelivered`, by `IInv`: the accepted setup, windows only
  for actions that aggregate, rows that keep their place in the queue.
  `EvaluateItemIn` is the induction over `evaluate_item`: what holds of a fresh
  context and is kept by each run of a script holds at the end.
* `ScriptFailureHasReason`. `ScriptErrorExplained` compares a run on an item with
  the validator's run on empty maps: there every condition is false or an error, so
  a computation is missed only behind a condition joined with `&&`; a loop does not
  turn there at all, and `log_index`, the only field that reads as a `u64`
  (`ReadU64`), is not there.
* `RenderFailureHasReason`. `DummyTopFacts` lists every path of the dummy match,
  `MatchJsonFacts` those of a real one; `PathExplained` concludes that a path which
  renders on the dummy renders on the match, except in the ways the property lists; a
  template the validator does not look at ("test") is one of them (`TemplateAccepted`).
  `EachExplained` and `AllExplained` carry it over to loops and sums, where a sum
  of one value never panics (`SumOfOne`).

* `MonitorsAreIndependent`: `Spec => []PayloadsIndependent`, a simulation between two
  runs of `evaluate_item` on the same item, one with all monitors and one in which the
  others have a script that is never true. `SameMatches` is kept by every run of a
  script: one of another monitor adds no match of this one (`OtherScriptAgrees`), one of
  its own adds the same match to both (`OwnScriptAgrees`), and the caches only ever hold
  what decoding the log or the call gives, so that it does not matter who filled them.
  `OtherLogsAgree`, `OwnLogsAgree`, `TxAgrees` and `ItemAgrees` carry this through the
  loops of the two passes, which are recursive functions, by their unfolding.

The attempt to prove `ScriptFailureHasReason` and `RenderFailureHasReason` corrected
the properties, which had been true of the templates of the catalogue only: a loop
body with a filter that the dummy value would not pass is never tried by the validator
(`UncheckedLoop`), an event may have no parameters at all (`ForeignParam`), and `log`,
`tx` and `decoded_call` are themselves values a template can print. The catalogue has
such templates now.

Only model-checked: liveness, since fairness is outside the prover's reach (the
properties of the three liveness runs, `ChangesReachEngine` of `ConfigApi` and
`RunEnds`).

## Observations

Places where the code differs from its documents, or where two parts of it
differ, that the models contain and that no run states as a property:

* The idempotency key leaves the outbox table with its row (`app_repository.rs:951`),
  so a payload whose block goes through again after a restart is delivered again; the
  migration that adds the key (`20260801000000_add_outbox_idempotency_key.sql:1-3`)
  says duplicate enqueues are dropped "instead of producing duplicate alerts".
* A window that the aggregation dispatcher has taken out of its map is lost when
  the task is aborted before the enqueue commits (`alert_manager.rs:310`), while
  the comment of the flush (`:389-390`) speaks of all pending windows.
* A monitor with an address also reports logs of other contracts in a transaction
  that is evaluated for it (`filtering.rs:394`); `rhai_context.md:39` speaks of
  logs emitted by that contract.
* A monitor of all addresses does not get the logs of a contract that another
  monitor watches for other events: `is_log_interesting` returns with the verdict of
  the address's own entry (`core/src/monitor.rs:36-48`) and never comes to the global
  signatures. `monitors_yaml.md:23` promises "a global **log** monitor that processes
  all logs on the network", the comment of `is_log_interesting` speaks of "monitored
  addresses or global event signatures", and `filtering.rs:61-66` counts a match for
  each of "3 Transfer logs from different contracts". Adding a monitor can so silence
  another one; `SteadyMonitorsServed` and `WrittenForIsMatched` except it by name.
* A monitor that reads both the transaction and logs is not evaluated on a
  transaction without fetched logs (`block_processor.rs:196`), for which
  `filtering.rs:75-80` shows "result: 1 TransactionMatch" ("value = 2 ETH, no logs").
  A log of any other monitor in the transaction brings it back.
* An address is linked to one ABI, and the links are made at the start
  (`context/mod.rs:419-460`): of two monitors with different ABIs on one address the
  last one decodes, and a monitor created over the API for an address without link
  receives every log of it and decodes none until the next restart.
* A monitor with an ABI that is not stored is answered with 500 when its script reads
  no logs, because `validator.rs:272-274` returns before it looks at the ABI and the
  foreign key refuses the row; so is one whose ABI was deleted since the start.
  `rest_api.md:222` and `:272` promise "`422 Unprocessable Entity`: If the monitor
  configuration is invalid (e.g., [...] nonexistent ABI or actions)".
* `rest_api.md:556` promises "`409 Conflict`: If the action is currently in use by one
  or more monitors and cannot be deleted". The LIKE search (`app_repository.rs:864-866`)
  misses a name that JSON escapes, so that such an action is deleted while in use, and
  finds names that differ only in case, so that an unused action is refused.
* An action whose publisher cannot be created is logged and skipped
  (`argus-dispatch/src/lib.rs:91-137`): the process runs without a route for the
  monitors that name it, and the rows wait for a start that can create it.
* A webhook that the API has stored, after a look at its title alone
  (`models/action/mod.rs:101-106`), and that no client can be made for
  (`webhook.rs:126`) refuses the next start (`context/mod.rs:200-208`).
* `rhai_context.md:44` gives `log_index` as "Integer"; its getter returns a `u64`
  (`proxies.rs:54`, unlike the fields of a transaction, which are cast to `i64`), so
  that `log.log_index > 0` passes the validator and is an error on real data.
* A template without `{{` is not checked (`validator.rs:654-656`), though it may hold
  an `{% if %}` that fails in strict mode on a real match.
* `acks` 0 for Kafka is allowed (`actions_yaml.md:157`, `kafka.rs:97`) and makes the
  awaited delivery no confirmation: the row is deleted all the same.
* `action_templating.md:31-32` lists `tx.block_number` and
  `tx.transaction_index`, which the dummy match of the template check does not
  have: templates with them are refused. Its `{% if decoded_call %}` (`:127`)
  fails in strict mode on a match without call.
* `rhai_context.md:103` compares `decoded_call` with `()`; the scope holds a
  proxy, so the comparison is never true.
* The trial run of a script on empty maps refuses arithmetic on a field that no
  condition before it short-circuits, and misses it behind one that does.
* Aggregation windows are keyed by action: monitors that share one also share its
  window, whose message names the monitor of the first match.
* RabbitMQ's publisher waits for a confirmation on a channel that is not in
  confirm mode.
* `concurrency = 0` is accepted and lets no request of a chunked fetch through;
  `RunEnds` excepts it.
* `--from 0` is block 0 on the command line and the default offset in the file.

## Not modelled

* HTTP client pool: only called by the constructor of the dispatcher, one action
  after the other; its double-checked insertion has no concurrent caller.
* Polling and block-time calibration: a delay and a warning; the models let every
  delay be arbitrary.
* Configuration settings other than the start block: constants of the modules.
* The decoding of values, the Rhai engine, the template engine, RPC transport and
  retries, brokers and HTTP: libraries, represented by what they decode, accept
  and render, and by success, failure and the ambiguous answer.
* WAL checkpoints and flushes, which change no table; `save_emergency_state`,
  which nothing calls; the clearing of tables that were just found empty.
* Metrics, logging, `/health`, `/status` and the lists of the API, which only read.

`PROJECT.json` has the list by component.

## Status

The plan is carried out: the pipeline, outbox, alert manager and matching; the
configuration tables and the API, scripts, templates and delivery, the fetcher and the
dry run; the pipeline with the outbox table, for duplicates after a restart; the proofs
of every safety property the passing runs check.
