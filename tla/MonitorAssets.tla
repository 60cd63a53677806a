--------------------------- MODULE MonitorAssets ---------------------------
(***************************************************************************)
(* What Argus derives from its monitors, and what it does with a block:    *)
(* the ABI service, the classification of monitors, the interest registry, *)
(* the log filter of the RPC source, the correlation of a block and the    *)
(* two evaluation passes of the filtering engine, all as operators.        *)
(*                                                                         *)
(* An event is named by its signature.  A monitor is a record              *)
(*   id, status, address (an Address, "all" or "none"), abi (or NoAbi),    *)
(*   reads    the roots its script reads, of "tx", "log", "call",          *)
(*   names    the event names its script compares log.name with,           *)
(*   log      the events that satisfy the script's condition on the log,   *)
(*   calls    the selectors that satisfy its condition on the call,        *)
(*   join     "any" or "all": how the script joins its conditions,         *)
(*   receipt  whether its tx condition computes with receipt fields.       *)
(* A transaction is [hash, to, selector, rich], where rich says that the   *)
(* script's condition on the transaction holds; a log is [tx, index,       *)
(* address, topic].                                                        *)
(***************************************************************************)
EXTENDS Naturals, FiniteSets

CONSTANTS
    Address,      \* contract addresses
    Event,        \* event signatures
    AbiName,      \* the ABIs registered when the process starts
    AbiEvents,    \* AbiName -> the events of the ABI
    AbiCalls      \* AbiName -> the selectors of its functions

NoAbi == "no abi"
NoTopic == "no topic"      \* an anonymous log
NoLog == [topic |-> NoTopic]   \* LogProxy(None), whose name is empty

ASSUME AbiAssumption ==
    /\ AbiEvents \in [AbiName -> SUBSET Event]
    /\ NoTopic \notin Event
    /\ NoAbi \notin AbiName
    /\ {"all", "none"} \cap Address = {}

----------------------------------------------------------------------------
(* The ABI service: `linked` maps addresses to ABIs, `global` is the set   *)
(* of ABIs that apply to every address.                                    *)

\* link_abi for the monitors of one address, in the order of their ids: the
\* last one replaces the others.
LinkAbi(ms) == (CHOOSE m \in ms : \A n \in ms : n.id <= m.id).abi

\* add_global_abi
AddGlobalAbi(ms) == {m.abi : m \in ms}

\* load_abis_from_monitors
LoadAbis(monitors) ==
    LET withAbi == {m \in monitors : m.abi # NoAbi /\ m.address # "none"}
        at(a) == {m \in withAbi : m.address = a}
    IN  [linked |-> [a \in {m.address : m \in withAbi} \ {"all"} |-> LinkAbi(at(a))],
         global |-> AddGlobalAbi(at("all"))]

\* peek_event_name, decode_log: the address's ABI first, then the global ones.
Decodes(abis, log) ==
    \/ /\ log.address \in DOMAIN abis.linked
       /\ log.topic \in AbiEvents[abis.linked[log.address]]
    \/ \E abi \in abis.global : log.topic \in AbiEvents[abi]

\* extract_address_and_selector: a creation calls nothing.
HasSelector(tx) == tx.to \in Address

\* decode_function_input
DecodesCall(abis, tx) ==
    /\ HasSelector(tx)
    /\ \/ /\ tx.to \in DOMAIN abis.linked
          /\ tx.selector \in AbiCalls[abis.linked[tx.to]]
       \/ \E abi \in abis.global : tx.selector \in AbiCalls[abi]

----------------------------------------------------------------------------
(* Classification and validation of a monitor.                             *)

\* classify_monitor: a script that reads nothing counts as a transaction one.
Caps(m) == IF m.reads = {} THEN {"tx"} ELSE m.reads

\* CalldataValidator
ValidCalldata(m) == m.abi # NoAbi /\ m.address \in Address

\* MonitorValidator::validate, as far as addresses and ABIs go.
Validate(m) ==
    /\ "log" \in m.reads => m.address # "none" /\ m.abi \in AbiName
    /\ "call" \in m.reads => ValidCalldata(m)

----------------------------------------------------------------------------
(* The interest registry.                                                  *)

\* get_signatures_for_monitor
Signatures(m, abi) ==
    IF m.names = {} THEN AbiEvents[abi] ELSE m.names \cap AbiEvents[abi]

\* add_log_interest: the three cases that put an address in broad mode.
WantsEveryLog(abis, m) ==
    \/ m.abi = NoAbi
    \/ m.address \notin DOMAIN abis.linked
    \/ m.abi \in AbiName /\ abis.linked[m.address] # m.abi

\* Mutant: a monitor with a linked ABI narrows an address that is in broad mode.
NarrowRegistry(abis, monitors) ==
    LET logAware == {m \in monitors : "log" \in Caps(m)}
        precise(a) == {m \in logAware : m.address = a /\ ~WantsEveryLog(abis, m)}
        at(a) == {m \in logAware : m.address = a}
    IN  [log |-> [a \in {m.address : m \in logAware} \cap Address |->
                    IF precise(a) = {}
                    THEN [broad |-> TRUE, sigs |-> {}]
                    ELSE [broad |-> FALSE,
                          sigs |-> UNION {Signatures(m, abis.linked[a]) : m \in precise(a)}]],
         calldata |-> {m.address : m \in {n \in monitors : "call" \in Caps(n)}} \cap Address,
         global |-> UNION {Signatures(m, m.abi) : m \in {n \in at("all") : n.abi \in AbiName}}]

\* InterestRegistryBuilder.  Broad mode stays whatever is added before or
\* after it, so the order of the monitors does not matter.
BuildRegistry(abis, monitors) ==
    LET logAware == {m \in monitors : "log" \in Caps(m)}
        at(a) == {m \in logAware : m.address = a}
    IN  [log |-> [a \in {m.address : m \in logAware} \cap Address |->
                    IF \E m \in at(a) : WantsEveryLog(abis, m)
                    THEN [broad |-> TRUE, sigs |-> {}]
                    ELSE [broad |-> FALSE,
                          sigs |-> UNION {Signatures(m, abis.linked[a]) : m \in at(a)}]],
         calldata |-> {m.address : m \in {n \in monitors : "call" \in Caps(n)}} \cap Address,
         global |-> UNION {Signatures(m, m.abi) : m \in {n \in at("all") : n.abi \in AbiName}}]

\* is_log_interesting: an entry for the log's address hides the global signatures.
IsLogInteresting(reg, log) ==
    IF log.address \in DOMAIN reg.log
    THEN reg.log[log.address].broad \/ log.topic \in reg.log[log.address].sigs
    ELSE log.topic \in reg.global

\* Mutant: the flag looks at log monitors only.
OrganizeForLogs(abis, monitors) ==
    LET active == {m \in monitors : m.status = "active"}
    IN  [monitors |-> active,
         registry |-> BuildRegistry(abis, active),
         receipts |-> \E m \in active : m.receipt /\ "log" \in Caps(m),
         txOnly |-> \E m \in active : Caps(m) = {"tx"}]

\* organize_assets: the snapshot that fetching, correlation and evaluation read.
Organize(abis, monitors) ==
    LET active == {m \in monitors : m.status = "active"}
    IN  [monitors |-> active,
         registry |-> BuildRegistry(abis, active),
         receipts |-> \E m \in active : m.receipt,
         txOnly |-> \E m \in active : Caps(m) = {"tx"}]

----------------------------------------------------------------------------
(* Logs of a range of blocks, as the RPC source returns them.              *)

NoLogInterest(reg) == DOMAIN reg.log = {} /\ reg.global = {}

Topics(reg) == reg.global \cup UNION {reg.log[a].sigs : a \in DOMAIN reg.log}

\* Mutant: an address in broad mode does not switch the topic filter off.
AdmittedByTopic(reg, logs) ==
    IF Topics(reg) = {} THEN logs ELSE {log \in logs : log.topic \in Topics(reg)}

\* build_topic_filter with the node's answer to it: the logs the node sends.
Admitted(reg, logs) ==
    IF (\E a \in DOMAIN reg.log : reg.log[a].broad) \/ Topics(reg) = {}
    THEN logs
    ELSE {log \in logs : log.topic \in Topics(reg)}

\* fetch_logs_for_range
FetchLogs(reg, logs) ==
    IF NoLogInterest(reg) THEN {}
    ELSE {log \in Admitted(reg, logs) : IsLogInteresting(reg, log)}

\* The inputs a block's bloom filter contains at least.
BloomInputs(logs) == {log.address : log \in logs} \cup ({log.topic : log \in logs} \ {NoTopic})

\* fetch_block_and_logs, the fetch of one block: asks for logs only when the
\* block's bloom filter may contain what the registry wants.
FetchBlockLogs(reg, bloom, logs) ==
    LET mayHoldGlobal == reg.global \cap bloom # {}
        mayHoldAddress == \E a \in DOMAIN reg.log :
                            a \in bloom /\ (reg.log[a].broad \/ reg.log[a].sigs \cap bloom # {})
    IN  IF ~NoLogInterest(reg) /\ (mayHoldGlobal \/ mayHoldAddress)
        THEN Admitted(reg, logs) ELSE {}

----------------------------------------------------------------------------
(* Correlation and evaluation.                                             *)

\* is_calldata_interesting
IsCalldataInteresting(reg, to) == to \in reg.calldata

\* Mutant: the optimised path looks at logs only.
KeepWithLogs(assets, txs, logs, receipts) ==
    LET of(tx) == {log \in logs : log.tx = tx.hash}
        kept == {tx \in txs : assets.txOnly \/ of(tx) # {}}
    IN  {[tx |-> tx, logs |-> of(tx), receipt |-> tx.hash \in receipts] : tx \in kept}

\* process_block: without a transaction-only monitor, transactions that have
\* no fetched logs and go to no address watched for calldata are dropped.
ProcessBlock(assets, txs, logs, receipts) ==
    LET of(tx) == {log \in logs : log.tx = tx.hash}
        kept == {tx \in txs : \/ assets.txOnly
                              \/ of(tx) # {}
                              \/ IsCalldataInteresting(assets.registry, tx.to)}
    IN  {[tx |-> tx, logs |-> of(tx), receipt |-> tx.hash \in receipts] : tx \in kept}

\* eval_ast_bool_secure
Accepts(abis, m, item, log) ==
    LET holds(root) ==
            CASE root = "tx" -> item.tx.rich
              [] root = "log" -> log.topic \in m.log
              [] root = "call" -> DecodesCall(abis, item.tx) /\ item.tx.selector \in m.calls
    IN  IF m.join = "any" THEN \E root \in m.reads : holds(root)
                          ELSE \A root \in m.reads : holds(root)

\* Receipt fields of a transaction without receipt are unit: to compute with
\* them is a runtime error.
Throws(m, item) == m.receipt /\ ~item.receipt

\* Pass 1: the pairs that survive the event-name filter and decode.
LogPairs(abis, assets, item) ==
    {p \in {m \in assets.monitors : "log" \in Caps(m)} \X item.logs :
        /\ Decodes(abis, p[2])
        /\ p[1].names # {} => p[2].topic \in p[1].names}

LogHits(abis, assets, item) ==
    {p \in LogPairs(abis, assets, item) : Accepts(abis, p[1], item, p[2])}

\* Mutant: pass 2 forgets which monitors matched a log.
AllTxAware(abis, assets, item) ==
    {m \in assets.monitors : "tx" \in Caps(m) \/ "call" \in Caps(m)}

\* Pass 2: transaction-aware monitors that have no log match.
TxCandidates(abis, assets, item) ==
    {m \in assets.monitors : "tx" \in Caps(m) \/ "call" \in Caps(m)}
        \ {p[1] : p \in LogHits(abis, assets, item)}

\* An error in any script ends the evaluation of the item.
ItemThrows(abis, assets, item) ==
    \/ \E p \in LogPairs(abis, assets, item) : Throws(p[1], item)
    \/ \E m \in TxCandidates(abis, assets, item) : Throws(m, item)

\* evaluate_item: the matches, by monitor and log (NoLog for a transaction match).
EvaluateItem(abis, assets, item) ==
    LogHits(abis, assets, item)
        \cup {<<m, NoLog>> : m \in {n \in TxCandidates(abis, assets, item) :
                                      Accepts(abis, n, item, NoLog)}}
============================================================================
