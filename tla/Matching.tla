------------------------------ MODULE Matching ------------------------------
(***************************************************************************)
(* One block on its way from the RPC source to its matches, while the      *)
(* supervisor replaces the monitors.                                       *)
(*                                                                         *)
(* The snapshot of the monitors is read at four moments: when an ingestion *)
(* cycle starts (are receipts needed?), when logs are fetched, when the    *)
(* block is correlated, and when each of its items is evaluated.  Reload   *)
(* can replace it between any two of them.  The ABI service is filled once *)
(* when the process starts.                                                *)
(***************************************************************************)
EXTENDS MonitorAssets

CONSTANTS
    Catalogue,    \* the monitors that may be in the database, with their ids
    Blocks,       \* blocks, as [txs, logs]
    MaxMonitors,  \* bound on the monitors in the database
    MaxReloads,   \* bound on the reloads of one ingestion cycle
    Faults        \* subset of {"receipt", "script"}

ASSUME CatalogueAssumption ==
    /\ IsFiniteSet(Catalogue)
    /\ \A m \in Catalogue : /\ m.id \in Nat
                             /\ m.address \in Address \cup {"all", "none"}
                             /\ m.abi \in AbiName \cup {NoAbi}
    /\ MaxMonitors \in Nat
    /\ MaxReloads \in Nat

\* A hash names one transaction of a block, and no log is the placeholder.
ASSUME BlockAssumption ==
    \A b \in Blocks :
        /\ \A t, u \in b.txs : t.hash = u.hash => t = u
        /\ NoLog \notin b.logs

VARIABLES
    abis,         \* the ABI service
    assets,       \* the snapshot: MonitorManager.state
    place,        \* "idle", "cycle", "fetched", "evaluating"
    needs,        \* needs_receipts, read when the cycle starts
    block,        \* the block in flight
    logs,         \* its fetched logs
    receipts,     \* hashes with a fetched receipt
    items,        \* correlated items not yet evaluated
    \* History.
    hits,         \* matches of the block: [monitor, tx, log]
    failed,       \* hashes whose evaluation ended with an error
    steady,       \* monitors in every snapshot since the cycle started
    hidden,       \* logs of a global signature that an address's entry hid from the fetch
    spoilt,       \* hashes hit by a fault
    reloads       \* reloads since the cycle started, or since the last one ended

state == <<abis, assets>>
flight == <<place, needs, block, logs, receipts, items>>
history == <<hits, failed, steady, hidden, spoilt>>
vars == <<state, flight, history, reloads>>

NoBlock == [txs |-> {}, logs |-> {}]

Hashes(b) == {tx.hash : tx \in b.txs}

\* What the monitors table can hold: rows with different ids that the
\* validator accepted.
Tables == {ms \in SUBSET {m \in Catalogue : Validate(m)} :
              /\ Cardinality(ms) <= MaxMonitors
              /\ \A m, n \in ms : m.id = n.id => m = n}

\* AppContext: link the ABIs of the monitors in the database, then organize.
Init ==
    /\ \E table \in Tables : abis = LoadAbis(table) /\ assets = Organize(abis, table)
    /\ place = "idle" /\ needs = FALSE /\ block = NoBlock
    /\ logs = {} /\ receipts = {} /\ items = {}
    /\ hits = {} /\ failed = {} /\ steady = {} /\ hidden = {} /\ spoilt = {}
    /\ reloads = 0

\* No block is in flight.
Idle ==
    /\ place' = "idle" /\ needs' = FALSE /\ block' = NoBlock
    /\ logs' = {} /\ receipts' = {} /\ items' = {}
    /\ hits' = {} /\ failed' = {} /\ steady' = {} /\ hidden' = {} /\ spoilt' = {}

\* run_select_loop: the table is read again and the snapshot replaced.  The
\* ABI service is left as it is.
Reload(table) ==
    /\ reloads < MaxReloads
    /\ reloads' = reloads + 1
    /\ assets' = Organize(abis, table)
    /\ steady' = steady \cap assets'.monitors
    /\ UNCHANGED <<abis, flight, hits, failed, hidden, spoilt>>

\* A stop and a start with another table; the block in flight is gone.
Restart(table) ==
    /\ reloads' = 0
    /\ abis' = LoadAbis(table)
    /\ assets' = Organize(abis', table)
    /\ Idle

\* ingest_blocks reads the flag before it reads the row and the head.
StartCycle ==
    /\ place = "idle"
    /\ place' = "cycle"
    /\ needs' = assets.receipts
    /\ steady' = assets.monitors
    /\ reloads' = 0
    /\ UNCHANGED <<state, block, logs, receipts, items, hits, failed, hidden, spoilt>>

\* fetch_receipts: a receipt the node does not have is left out.
FetchReceipts(hashes, missing) == hashes \ missing

\* fetch_blocks_concurrent for a block b.
Fetch(b, missing) ==
    /\ place = "cycle"
    /\ missing # {} => needs /\ "receipt" \in Faults
    /\ place' = "fetched"
    /\ block' = b
    /\ logs' = FetchLogs(assets.registry, b.logs)
    /\ receipts' = IF needs THEN FetchReceipts(Hashes(b), missing) ELSE {}
    /\ hidden' = {log \in b.logs : /\ log.topic \in assets.registry.global
                                    /\ ~IsLogInteresting(assets.registry, log)}
    /\ spoilt' = missing
    /\ UNCHANGED <<state, needs, items, hits, failed, steady, reloads>>

\* correlate_blocks with the snapshot of that moment.
Correlate ==
    /\ place = "fetched"
    /\ place' = "evaluating"
    /\ items' = ProcessBlock(assets, block.txs, logs, receipts)
    /\ UNCHANGED <<state, needs, block, logs, receipts, history, reloads>>

\* evaluate_item on one item, in any order: rayon evaluates them in parallel.
\* An error loses the matches of the item, for every monitor.
Evaluate(item, broken) ==
    LET throws == broken \/ ItemThrows(abis, assets, item)
    IN  /\ place = "evaluating"
        /\ item \in items
        /\ broken => "script" \in Faults
        /\ items' = items \ {item}
        /\ failed' = IF throws THEN failed \cup {item.tx.hash} ELSE failed
        /\ hits' = IF throws THEN hits
                   ELSE hits \cup {[monitor |-> p[1], tx |-> item.tx.hash, log |-> p[2]] :
                                     p \in EvaluateItem(abis, assets, item)}
        /\ spoilt' = IF broken THEN spoilt \cup {item.tx.hash} ELSE spoilt
        /\ UNCHANGED <<state, place, needs, block, logs, receipts, steady, hidden, reloads>>

Done == place = "evaluating" /\ items = {}

\* The block's matches are sent on; the ingestor's next cycle may begin.
Finish ==
    /\ Done
    /\ Idle
    /\ reloads' = 0
    /\ UNCHANGED state

Next ==
    \/ \E table \in Tables : Reload(table) \/ Restart(table)
    \/ StartCycle
    \/ \E b \in Blocks : \E missing \in SUBSET Hashes(b) : Fetch(b, missing)
    \/ Correlate
    \/ \E item \in items, broken \in BOOLEAN : Evaluate(item, broken)
    \/ Finish

Spec == Init /\ [][Next]_vars

\* Maps from some of the keys.
PartialMaps(keys, values) == UNION {[some -> values] : some \in SUBSET keys}

\* An address is linked to one ABI; global ABIs apply to all addresses.
AbiService == [linked : PartialMaps(Address, AbiName), global : SUBSET AbiName]

\* Broad mode has no signatures of its own.
InterestRegistry ==
    [log : PartialMaps(Address, {[broad |-> TRUE, sigs |-> {}]} \cup [broad : {FALSE}, sigs : SUBSET Event]),
     calldata : SUBSET Address,
     global : SUBSET Event]

MonitorAssetState ==
    [monitors : SUBSET Catalogue, registry : InterestRegistry, receipts : BOOLEAN, txOnly : BOOLEAN]

----------------------------------------------------------------------------
\* Types: the ABI service and the snapshot are what their structs hold, broad
\* and precise mode exclude each other, and what is in flight is of the block.
TypeOK ==
    /\ abis \in AbiService
    /\ assets \in MonitorAssetState
    /\ place \in {"idle", "cycle", "fetched", "evaluating"}
    /\ needs \in BOOLEAN
    /\ logs \subseteq block.logs
    /\ receipts \subseteq Hashes(block)
    /\ {item.tx : item \in items} \subseteq block.txs
    /\ failed \cup spoilt \cup {h.tx : h \in hits} \subseteq Hashes(block)
    /\ {h.monitor : h \in hits} \cup steady \subseteq Catalogue
    /\ reloads \in 0..MaxReloads

\* The path of the block if m were the only monitor and the block had the
\* logs ls: its snapshot, the logs and items it would get, and the
\* transactions it would match.
OwnAssets(m) == Organize(abis, {m})

OwnLogs(m, ls) == FetchLogs(OwnAssets(m).registry, ls)

OwnItems(m, ls) ==
    ProcessBlock(OwnAssets(m), block.txs, OwnLogs(m, ls),
                 IF OwnAssets(m).receipts THEN Hashes(block) ELSE {})

OwnHits(m, ls) == {item \in OwnItems(m, ls) : EvaluateItem(abis, OwnAssets(m), item) # {}}

MatchesAlone(m, ls) == {item.tx.hash : item \in OwnHits(m, ls)}

Matched(m, tx) == \E h \in hits : h.monitor = m /\ h.tx = tx

\* Without the logs of contracts that another monitor watches for other
\* events, a monitor of all addresses would not match the transaction.
Shadowed(m, tx) == m.address = "all" /\ tx \notin MatchesAlone(m, block.logs \ hidden)

\* Other monitors and the reloads between the stages cost a monitor nothing,
\* in the log fetch, the correlation and the name filter, with one exception:
\* a monitor that is in every snapshot from the start of the cycle to the
\* evaluation gets every transaction it would match on its own, unless the
\* evaluation of that transaction failed, or it is a monitor of all addresses
\* and is_log_interesting hid the logs that count behind the entry of their
\* address.  No monitor with an address loses anything to its neighbours.
SteadyMonitorsServed ==
    Done => \A m \in steady : \A tx \in MatchesAlone(m, block.logs) \ failed :
                Matched(m, tx) \/ Shadowed(m, tx)

\* What a monitor is written for, as the user guide has it: logs of its
\* contract (of every contract for "all") of an event of its ABI that its
\* script names; calls of its contract; transactions.
WantedLogs(m, tx) ==
    {log \in block.logs :
        /\ "log" \in m.reads /\ m.abi \in AbiName
        /\ log.tx = tx.hash
        /\ m.address = "all" \/ (m.address \in Address /\ m.address = log.address)
        /\ log.topic \in Signatures(m, m.abi)
        /\ Accepts(abis, m, [tx |-> tx], log)}

WantsCall(m, tx) ==
    /\ "call" \in m.reads /\ m.address \in Address /\ m.address = tx.to
    /\ Accepts(abis, m, [tx |-> tx], NoLog)

WantsTx(m, tx) == "tx" \in Caps(m) /\ Accepts(abis, m, [tx |-> tx], NoLog)

LogsOf(tx, ls) == {log \in ls : log.tx = tx.hash}

\* The ABI service has another ABI than the monitor's for its address, or
\* none: the monitor came after the start, or a later one replaced the link.
ForeignAbi(m) ==
    IF m.address = "all" THEN m.abi \notin abis.global
    ELSE m.address \notin DOMAIN abis.linked \/ abis.linked[m.address] # m.abi

\* What a monitor is written for and does not get, although it was there all
\* the time and the evaluation did not fail, is lost in one of three ways: a
\* log of a contract that another monitor watches, for a monitor of all
\* addresses (is_log_interesting); a log that is not decoded because the ABI
\* service does not hold the monitor's ABI (load_abis_from_monitors runs at
\* the start only); a transaction without fetched logs, for a monitor that
\* reads more than the transaction (process_block).  A call is never lost.
WrittenForIsMatched ==
    Done => \A m \in steady, tx \in block.txs :
        \/ Matched(m, tx.hash)
        \/ tx.hash \in failed
        \/ /\ \A log \in WantedLogs(m, tx) :
                 \/ m.address = "all" /\ log \in hidden
                 \/ ForeignAbi(m) /\ ~Decodes(abis, log)
           /\ ~WantsCall(m, tx)
           /\ WantsTx(m, tx) => Caps(m) # {"tx"} /\ LogsOf(tx, logs) = {}

\* The inductive strengthening of both: the snapshot is built from the current
\* ABI service; a steady monitor is in it; what the monitor would fetch on its
\* own has been fetched or hidden; each item it would match is still waiting
\* with at least those logs, or has failed, or has matched; and so is each
\* transaction with fetched logs.
AssetsOK ==
    /\ assets = Organize(abis, assets.monitors)
    /\ assets.monitors \subseteq Catalogue

SteadyLive == steady \subseteq assets.monitors

\* The logs of the block that no entry of the registry hides from m.
Open(m) == IF m.address = "all" THEN block.logs \ hidden ELSE block.logs

LogsKept ==
    place \in {"fetched", "evaluating"} => \A m \in steady : OwnLogs(m, Open(m)) \subseteq logs

ItemsKept ==
    place = "evaluating" => \A m \in steady : \A own \in OwnHits(m, Open(m)) :
        \/ own.tx.hash \in failed
        \/ Matched(m, own.tx.hash)
        \/ \E item \in items : item.tx = own.tx /\ own.logs \subseteq item.logs

TxsKept ==
    place = "evaluating" => \A m \in steady, tx \in block.txs :
        WantsTx(m, tx) /\ LogsOf(tx, logs) # {} =>
            \/ tx.hash \in failed
            \/ Matched(m, tx.hash)
            \/ \E item \in items : item.tx = tx

ServiceInv == AssetsOK /\ SteadyLive /\ LogsKept /\ ItemsKept /\ TxsKept

\* A monitor has log matches or a transaction match for a transaction, never
\* both, even when the snapshot changes between items ("at most one type of
\* match per transaction", filtering.rs).
OneKindOfMatch ==
    \A g, h \in hits :
        g.monitor = h.monitor /\ g.tx = h.tx /\ g.log = NoLog => h.log = NoLog

\* The inductive strengthening of OneKindOfMatch: a transaction is evaluated
\* once, so its matches all come from one evaluation and one snapshot.
EvaluatedOnce ==
    /\ block \in Blocks \cup {NoBlock}
    /\ place # "evaluating" => hits = {} /\ items = {}
    /\ NoLog \notin logs
    /\ \A i \in items : i.tx \in block.txs /\ NoLog \notin i.logs
    /\ \A i, j \in items : i.tx = j.tx => i = j
    /\ \A h \in hits, i \in items : h.tx # i.tx.hash

KindInv == EvaluatedOnce /\ OneKindOfMatch

\* An item is lost to a script error only if the node or the script failed,
\* or if a monitor that needs receipts came after the cycle had decided not
\* to fetch them.
FailuresExplained ==
    \A tx \in failed : tx \in spoilt \/ (~needs /\ reloads > 0)

\* The inductive strengthening of FailuresExplained: without a reload the flag
\* of the cycle is the snapshot's, a cycle that fetches receipts misses only
\* those the node does not have, and each item knows whether it has one.
ReceiptsInv ==
    /\ reloads \in Nat
    /\ place # "evaluating" => failed = {} /\ items = {}
    /\ place # "idle" /\ reloads = 0 => (needs <=> assets.receipts)
    /\ place \in {"fetched", "evaluating"} /\ needs => Hashes(block) \ receipts \subseteq spoilt
    /\ \A i \in items : i.tx \in block.txs /\ (i.receipt <=> i.tx.hash \in receipts)
    /\ FailuresExplained

\* The node-side topic filter and the client-side filter together return the
\* interesting logs, all of them and no others; the fetch of a single block
\* returns all of them for every answer the bloom filter can give.
LogFilterExact ==
    LET wanted == {log \in block.logs : IsLogInteresting(assets.registry, log)}
    IN  /\ FetchLogs(assets.registry, block.logs) = wanted
        /\ \A more \in SUBSET (Address \cup Event) :
              wanted \subseteq FetchBlockLogs(assets.registry,
                                             BloomInputs(block.logs) \cup more, block.logs)

============================================================================
