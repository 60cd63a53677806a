--------------------------- MODULE Matching_proofs ---------------------------
(***************************************************************************)
(* Proofs about the way of a block from the log filters of the RPC source  *)
(* to its matches, for every catalogue of monitors, every ABI and every    *)
(* block.                                                                  *)
(***************************************************************************)
EXTENDS Matching, FiniteSetTheorems, WellFoundedInduction, TLAPS

\* The node-side topic filter never withholds a log that the registry wants,
\* whatever the registry holds (build_topic_filter).
LEMMA TopicFilterKeepsInteresting ==
    ASSUME NEW reg, NEW logset, NEW log \in logset, IsLogInteresting(reg, log)
    PROVE  log \in Admitted(reg, logset)
<1>1. CASE \E a \in DOMAIN reg.log : reg.log[a].broad
  BY <1>1 DEF Admitted
<1>2. CASE \A a \in DOMAIN reg.log : ~reg.log[a].broad
  <2>1. log.topic \in Topics(reg)
    <3>1. CASE log.address \in DOMAIN reg.log
      BY <1>2, <3>1 DEF IsLogInteresting, Topics
    <3>2. CASE log.address \notin DOMAIN reg.log
      BY <3>2 DEF IsLogInteresting, Topics
    <3> QED BY <3>1, <3>2
  <2> QED BY <2>1 DEF Admitted
<1> QED BY <1>1, <1>2

\* fetch_logs_for_range returns the interesting logs and no others.
LEMMA FetchLogsExact ==
    ASSUME NEW reg, NEW logset
    PROVE  FetchLogs(reg, logset) = {log \in logset : IsLogInteresting(reg, log)}
<1>1. CASE NoLogInterest(reg)
  BY <1>1 DEF FetchLogs, NoLogInterest, IsLogInteresting
<1>2. CASE ~NoLogInterest(reg)
  <2>1. Admitted(reg, logset) \subseteq logset
    BY DEF Admitted
  <2> QED BY <1>2, <2>1, TopicFilterKeepsInteresting DEF FetchLogs
<1> QED BY <1>1, <1>2

\* The signatures of a registry are events, so none of them is NoTopic.
WellTyped(reg) ==
    /\ reg.global \subseteq Event
    /\ \A a \in DOMAIN reg.log : reg.log[a].sigs \subseteq Event

\* The bloom check of fetch_block_and_logs never skips a block that holds an
\* interesting log: a bloom filter has false positives only.
LEMMA BloomCheckKeepsInteresting ==
    ASSUME NEW reg, WellTyped(reg), NEW logset, NEW more
    PROVE  {log \in logset : IsLogInteresting(reg, log)}
               \subseteq FetchBlockLogs(reg, BloomInputs(logset) \cup more, logset)
<1> DEFINE bloom == BloomInputs(logset) \cup more
<1> SUFFICES ASSUME NEW log \in logset, IsLogInteresting(reg, log)
             PROVE  log \in FetchBlockLogs(reg, bloom, logset)
  OBVIOUS
<1>1. ~NoLogInterest(reg)
  BY DEF IsLogInteresting, NoLogInterest
<1>2. log.address \in bloom
  BY DEF BloomInputs
<1>3. log.topic # NoTopic => log.topic \in bloom
  BY DEF BloomInputs
<1>4. log \in Admitted(reg, logset)
  BY TopicFilterKeepsInteresting
<1>5. \/ reg.global \cap bloom # {}
      \/ \E a \in DOMAIN reg.log :
            a \in bloom /\ (reg.log[a].broad \/ reg.log[a].sigs \cap bloom # {})
  <2> HIDE DEF bloom
  <2>1. CASE log.address \in DOMAIN reg.log
    <3>1. reg.log[log.address].broad \/ log.topic \in reg.log[log.address].sigs
      BY <2>1 DEF IsLogInteresting
    <3>2. log.topic \in reg.log[log.address].sigs => log.topic \in bloom
      BY <1>3, <2>1, AbiAssumption DEF WellTyped
    <3> QED BY <1>2, <2>1, <3>1, <3>2
  <2>2. CASE log.address \notin DOMAIN reg.log
    BY <1>3, <2>2, AbiAssumption DEF IsLogInteresting, WellTyped
  <2> QED BY <2>1, <2>2
<1> QED BY <1>1, <1>4, <1>5 DEF FetchBlockLogs

\* The registry that the builder makes of monitors of the catalogue is typed.
LEMMA OrganizedRegistryTyped ==
    ASSUME NEW ab, NEW table \in SUBSET Catalogue
    PROVE  WellTyped(Organize(ab, table).registry)
<1> DEFINE active == {m \in table : m.status = "active"}
           logAware == {m \in active : "log" \in Caps(m)}
           at(a) == {m \in logAware : m.address = a}
           reg == BuildRegistry(ab, active)
<1>1. \A m \in Catalogue, abi \in AbiName : Signatures(m, abi) \subseteq Event
  BY AbiAssumption DEF Signatures
<1>2. reg.global \subseteq Event
  <2>1. reg.global = UNION {Signatures(m, m.abi) : m \in {n \in at("all") : n.abi \in AbiName}}
    BY DEF BuildRegistry
  <2> QED BY <1>1, <2>1
<1>3. ASSUME NEW a \in DOMAIN reg.log
      PROVE  reg.log[a].sigs \subseteq Event
  <2>1. a \in {m.address : m \in logAware} \cap Address
    BY <1>3 DEF BuildRegistry
  <2>2. reg.log[a] = IF \E m \in at(a) : WantsEveryLog(ab, m)
                     THEN [broad |-> TRUE, sigs |-> {}]
                     ELSE [broad |-> FALSE,
                           sigs |-> UNION {Signatures(m, ab.linked[a]) : m \in at(a)}]
    BY <2>1 DEF BuildRegistry
  <2> HIDE DEF reg, at
  <2>3. CASE \E m \in at(a) : WantsEveryLog(ab, m)
    BY <2>2, <2>3
  <2>4. CASE ~ \E m \in at(a) : WantsEveryLog(ab, m)
    <3>1. ASSUME NEW m \in at(a)
          PROVE  Signatures(m, ab.linked[a]) \subseteq Event
      <4>1. m \in Catalogue /\ m.abi \in AbiName /\ ab.linked[a] = m.abi
        BY <2>4, CatalogueAssumption DEF WantsEveryLog, at
      <4> QED BY <1>1, <4>1
    <3>2. reg.log[a].sigs = UNION {Signatures(m, ab.linked[a]) : m \in at(a)}
      BY <2>2, <2>4
    <3> QED BY <3>1, <3>2
  <2> QED BY <2>3, <2>4
<1> QED BY <1>2, <1>3 DEF Organize, WellTyped

\* In every reachable state the registry of the snapshot is typed.
LEMMA RegistryTyped == Spec => []WellTyped(assets.registry)
<1>1. \A table \in Tables : table \in SUBSET Catalogue
  BY DEF Tables
<1>2. Init => WellTyped(assets.registry)
  BY <1>1, OrganizedRegistryTyped DEF Init
<1>3. WellTyped(assets.registry) /\ [Next]_vars => WellTyped(assets.registry)'
  <2> SUFFICES ASSUME WellTyped(assets.registry), [Next]_vars
               PROVE  WellTyped(assets.registry)'
    OBVIOUS
  <2>1. ASSUME NEW table \in Tables, assets' = Organize(abis, table)
        PROVE  WellTyped(assets.registry)'
    BY <1>1, <2>1, OrganizedRegistryTyped DEF WellTyped
  <2>2. ASSUME NEW table \in Tables, assets' = Organize(abis', table)
        PROVE  WellTyped(assets.registry)'
    BY <1>1, <2>2, OrganizedRegistryTyped DEF WellTyped
  <2>3. ASSUME UNCHANGED assets
        PROVE  WellTyped(assets.registry)'
    BY <2>3 DEF WellTyped
  <2>4. \/ \E table \in Tables : assets' = Organize(abis, table)
        \/ \E table \in Tables : assets' = Organize(abis', table)
        \/ UNCHANGED assets
    <3>1. CASE \E table \in Tables : Reload(table)
      BY <3>1 DEF Reload
    <3>2. CASE \E table \in Tables : Restart(table)
      BY <3>2 DEF Restart
    <3>3. CASE StartCycle \/ Correlate \/ Finish
      BY <3>3 DEF StartCycle, Correlate, Finish, state
    <3>4. CASE \E b \in Blocks : \E missing \in SUBSET Hashes(b) : Fetch(b, missing)
      BY <3>4 DEF Fetch, state
    <3>5. CASE \E item \in items, broken \in BOOLEAN : Evaluate(item, broken)
      BY <3>5 DEF Evaluate, state
    <3>6. CASE UNCHANGED vars
      BY <3>6 DEF vars, state
    <3> QED BY <3>1, <3>2, <3>3, <3>4, <3>5, <3>6 DEF Next
  <2> QED BY <2>1, <2>2, <2>3, <2>4
<1> QED BY <1>2, <1>3, PTL DEF Spec

\* For every set of monitors, every reload and every block: the two log
\* filters together return exactly the interesting logs, and the bloom check
\* never costs one.
THEOREM LogFilterExactHolds == Spec => []LogFilterExact
<1>1. WellTyped(assets.registry) => LogFilterExact
  BY FetchLogsExact, BloomCheckKeepsInteresting DEF LogFilterExact
<1> QED BY <1>1, RegistryTyped, PTL

----------------------------------------------------------------------------
(* SteadyMonitorsServed.  First, that whatever a monitor gets on its own it *)
(* also gets in company.                                                   *)

\* What organize_assets keeps of a set of monitors that are all active.
LEMMA OrganizeActive ==
    ASSUME NEW ab, NEW ms, \A m \in ms : m.status = "active"
    PROVE  /\ Organize(ab, ms).monitors = ms
           /\ Organize(ab, ms).registry = BuildRegistry(ab, ms)
           /\ (Organize(ab, ms).txOnly <=> \E m \in ms : Caps(m) = {"tx"})
<1>1. {m \in ms : m.status = "active"} = ms
  OBVIOUS
<1> QED BY <1>1 DEF Organize

\* The entries of the registry that the builder makes of a set of monitors.
LEMMA RegistryEntries ==
    ASSUME NEW ab, NEW ms
    PROVE  LET reg == BuildRegistry(ab, ms)
               at(a) == {m \in ms : "log" \in Caps(m) /\ m.address = a}
           IN  /\ \A a : a \in DOMAIN reg.log <=> a \in Address /\ at(a) # {}
               /\ \A a \in DOMAIN reg.log :
                     /\ reg.log[a].broad <=> \E m \in at(a) : WantsEveryLog(ab, m)
                     /\ ~reg.log[a].broad =>
                           \A e : e \in reg.log[a].sigs
                                    <=> \E m \in at(a) : e \in Signatures(m, ab.linked[a])
               /\ \A e : e \in reg.global
                           <=> \E m \in at("all") : m.abi \in AbiName /\ e \in Signatures(m, m.abi)
               /\ \A a : a \in reg.calldata
                           <=> a \in Address /\ \E m \in ms : "call" \in Caps(m) /\ m.address = a
<1> DEFINE logAware == {m \in ms : "log" \in Caps(m)}
           on(a) == {m \in logAware : m.address = a}
           at(a) == {m \in ms : "log" \in Caps(m) /\ m.address = a}
           reg == BuildRegistry(ab, ms)
           entry(a) == IF \E m \in on(a) : WantsEveryLog(ab, m)
                       THEN [broad |-> TRUE, sigs |-> {}]
                       ELSE [broad |-> FALSE,
                             sigs |-> UNION {Signatures(m, ab.linked[a]) : m \in on(a)}]
<1>1. \A a : on(a) = at(a)
  OBVIOUS
<1>2. /\ reg.log = [a \in {m.address : m \in logAware} \cap Address |-> entry(a)]
      /\ reg.global = UNION {Signatures(m, m.abi) : m \in {n \in on("all") : n.abi \in AbiName}}
      /\ reg.calldata = {m.address : m \in {n \in ms : "call" \in Caps(n)}} \cap Address
  BY DEF BuildRegistry
<1> HIDE DEF reg
<1>3. \A a : a \in DOMAIN reg.log <=> a \in Address /\ at(a) # {}
  BY <1>2
<1>4. ASSUME NEW a \in DOMAIN reg.log
      PROVE  /\ reg.log[a].broad <=> \E m \in at(a) : WantsEveryLog(ab, m)
             /\ ~reg.log[a].broad =>
                   \A e : e \in reg.log[a].sigs
                            <=> \E m \in at(a) : e \in Signatures(m, ab.linked[a])
  <2>1. reg.log[a] = entry(a)
    BY <1>2, <1>4
  <2> HIDE DEF on, at
  <2>2. CASE \E m \in on(a) : WantsEveryLog(ab, m)
    BY <1>1, <2>1, <2>2
  <2>3. CASE ~ \E m \in on(a) : WantsEveryLog(ab, m)
    <3>1. reg.log[a] = [broad |-> FALSE,
                        sigs |-> UNION {Signatures(m, ab.linked[a]) : m \in on(a)}]
      BY <2>1, <2>3
    <3> QED BY <1>1, <2>3, <3>1
  <2> QED BY <2>2, <2>3
<1>5. \A e : e \in reg.global
              <=> \E m \in at("all") : m.abi \in AbiName /\ e \in Signatures(m, m.abi)
  BY <1>2
<1>6. \A a : a \in reg.calldata
              <=> a \in Address /\ \E m \in ms : "call" \in Caps(m) /\ m.address = a
  BY <1>2
<1> QED BY <1>3, <1>4, <1>5, <1>6 DEF reg

\* A log that interests a monitor on its own interests the registry of every
\* set with that monitor, except that for a monitor of all addresses it may be
\* one of a global signature that the entry of its address hides
\* (is_log_interesting).
LEMMA InterestGrows ==
    ASSUME NEW ab, NEW ms, NEW m \in ms, NEW log,
           IsLogInteresting(BuildRegistry(ab, {m}), log)
    PROVE  \/ IsLogInteresting(BuildRegistry(ab, ms), log)
           \/ m.address = "all" /\ log.topic \in BuildRegistry(ab, ms).global
<1> DEFINE own == BuildRegistry(ab, {m})
           reg == BuildRegistry(ab, ms)
<1>1. "log" \in Caps(m)
  BY RegistryEntries DEF IsLogInteresting
<1>2. CASE log.address \in DOMAIN own.log
  <2>1. log.address = m.address /\ log.address \in DOMAIN reg.log
    BY <1>2, RegistryEntries
  <2>2. CASE own.log[log.address].broad
    BY <1>1, <1>2, <2>1, <2>2, RegistryEntries DEF IsLogInteresting
  <2>3. CASE ~own.log[log.address].broad
    <3>1. log.topic \in Signatures(m, ab.linked[m.address])
      BY <1>2, <2>1, <2>3, RegistryEntries DEF IsLogInteresting
    <3> QED BY <1>1, <2>1, <3>1, RegistryEntries DEF IsLogInteresting
  <2> QED BY <2>2, <2>3
<1>3. CASE log.address \notin DOMAIN own.log
  <2>1. m.address = "all" /\ m.abi \in AbiName /\ log.topic \in Signatures(m, m.abi)
    BY <1>3, RegistryEntries DEF IsLogInteresting
  <2>2. log.topic \in reg.global
    BY <1>1, <2>1, RegistryEntries
  <2> QED BY <2>1, <2>2
<1> QED BY <1>2, <1>3

\* Every item that is correlated for a monitor on its own is correlated for
\* every set with that monitor, with at least its logs (process_block).
LEMMA CorrelationGrows ==
    ASSUME NEW ab, NEW ms, \A n \in ms : n.status = "active", NEW m \in ms,
           NEW txs, NEW few, NEW many, few \subseteq many, NEW r1, NEW r2,
           NEW own \in ProcessBlock(Organize(ab, {m}), txs, few, r1)
    PROVE  \E item \in ProcessBlock(Organize(ab, ms), txs, many, r2) :
              item.tx = own.tx /\ own.logs \subseteq item.logs
<1> DEFINE alone == Organize(ab, {m})
           all == Organize(ab, ms)
           of(tx, ls) == {log \in ls : log.tx = tx.hash}
<1>1. PICK tx \in txs :
          /\ alone.txOnly \/ of(tx, few) # {} \/ tx.to \in alone.registry.calldata
          /\ own = [tx |-> tx, logs |-> of(tx, few), receipt |-> tx.hash \in r1]
  BY DEF ProcessBlock, IsCalldataInteresting
<1>0. \A n \in {m} : n.status = "active"
  OBVIOUS
<1>a. /\ alone.txOnly <=> \E n \in {m} : Caps(n) = {"tx"}
      /\ alone.registry = BuildRegistry(ab, {m})
  <2>1. alone.txOnly <=> \E n \in {m} : Caps(n) = {"tx"}
    BY ONLY <1>0, OrganizeActive
  <2>2. alone.registry = BuildRegistry(ab, {m})
    BY ONLY <1>0, OrganizeActive
  <2> QED BY <2>1, <2>2
<1>b. /\ all.txOnly <=> \E n \in ms : Caps(n) = {"tx"}
      /\ all.registry = BuildRegistry(ab, ms)
  BY OrganizeActive
<1>2. alone.txOnly => all.txOnly
  <2> HIDE DEF alone, all
  <2> QED BY <1>a, <1>b
<1>3. of(tx, few) \subseteq of(tx, many)
  OBVIOUS
<1>4. tx.to \in alone.registry.calldata => tx.to \in all.registry.calldata
  <2> HIDE DEF alone, all
  <2>1. \A a : a \in alone.registry.calldata
                <=> a \in Address /\ \E n \in {m} : "call" \in Caps(n) /\ n.address = a
    BY <1>a, RegistryEntries
  <2>2. \A a : a \in all.registry.calldata
                <=> a \in Address /\ \E n \in ms : "call" \in Caps(n) /\ n.address = a
    BY <1>b, RegistryEntries
  <2> QED BY <2>1, <2>2
<1>5. [tx |-> tx, logs |-> of(tx, many), receipt |-> tx.hash \in r2]
          \in ProcessBlock(all, txs, many, r2)
  <2>1. all.txOnly \/ of(tx, many) # {} \/ tx.to \in all.registry.calldata
    BY <1>1, <1>2, <1>3, <1>4
  <2> HIDE DEF all
  <2> QED BY <2>1 DEF ProcessBlock, IsCalldataInteresting
<1> QED BY <1>1, <1>3, <1>5

\* A monitor that matches an item on its own matches every item of the same
\* transaction with at least those logs, in every set with that monitor
\* (evaluate_item).  The match may be by log where it was by transaction.
LEMMA EvaluationGrows ==
    ASSUME NEW ab, NEW ms, \A n \in ms : n.status = "active", NEW m \in ms,
           NEW own, NEW item, item.tx = own.tx, own.logs \subseteq item.logs,
           EvaluateItem(ab, Organize(ab, {m}), own) # {}
    PROVE  \E p \in EvaluateItem(ab, Organize(ab, ms), item) : p[1] = m
<1> DEFINE alone == Organize(ab, {m})
           all == Organize(ab, ms)
<1>0. \A n \in {m} : n.status = "active"
  OBVIOUS
<1>1. alone.monitors = {m} /\ all.monitors = ms
  <2>1. alone.monitors = {m}
    BY ONLY <1>0, OrganizeActive
  <2> QED BY <2>1, OrganizeActive
<1>2. \A log : Accepts(ab, m, own, log) => Accepts(ab, m, item, log)
  BY DEF Accepts
<1> HIDE DEF alone, all
<1>3. ASSUME NEW p \in LogHits(ab, alone, own)
      PROVE  \E q \in LogHits(ab, all, item) : q[1] = m
  <2>1. /\ p \in {n \in {m} : "log" \in Caps(n)} \X own.logs
        /\ Decodes(ab, p[2])
        /\ p[1].names # {} => p[2].topic \in p[1].names
        /\ Accepts(ab, p[1], own, p[2])
    BY <1>1, <1>3 DEF LogHits, LogPairs
  <2>2. p[1] = m /\ p \in {n \in ms : "log" \in Caps(n)} \X item.logs
    BY <2>1
  <2>3. p \in LogHits(ab, all, item)
    BY <1>1, <1>2, <2>1, <2>2 DEF LogHits, LogPairs
  <2> QED BY <2>2, <2>3
<1>4. ASSUME NEW n \in TxCandidates(ab, alone, own), Accepts(ab, n, own, NoLog)
      PROVE  \E p \in EvaluateItem(ab, all, item) : p[1] = m
  <2>1. n = m /\ ("tx" \in Caps(m) \/ "call" \in Caps(m))
    BY <1>1, <1>4 DEF TxCandidates
  <2>2. CASE m \in {p[1] : p \in LogHits(ab, all, item)}
    BY <2>2 DEF EvaluateItem
  <2>3. CASE m \notin {p[1] : p \in LogHits(ab, all, item)}
    <3>1. m \in TxCandidates(ab, all, item)
      BY <1>1, <2>1, <2>3 DEF TxCandidates
    <3>2. <<m, NoLog>> \in EvaluateItem(ab, all, item)
      BY <1>2, <1>4, <2>1, <3>1 DEF EvaluateItem
    <3>3. <<m, NoLog>>[1] = m
      OBVIOUS
    <3> QED BY <3>2, <3>3
  <2> QED BY <2>2, <2>3
<1>5. \/ LogHits(ab, alone, own) # {}
      \/ \E n \in TxCandidates(ab, alone, own) : Accepts(ab, n, own, NoLog)
  BY DEF EvaluateItem, alone
<1> QED BY <1>3, <1>4, <1>5 DEF EvaluateItem, all

\* organize_assets of its own result changes nothing.
LEMMA OrganizeAgain ==
    ASSUME NEW ab, NEW table
    PROVE  Organize(ab, Organize(ab, table).monitors) = Organize(ab, table)
<1> DEFINE active == {m \in table : m.status = "active"}
<1>1. Organize(ab, table).monitors = active
  BY DEF Organize
<1>2. {m \in active : m.status = "active"} = active
  OBVIOUS
<1> QED BY <1>1, <1>2 DEF Organize

\* The monitors of a snapshot are active.
LEMMA SnapshotActive ==
    ASSUME AssetsOK
    PROVE  \A m \in assets.monitors : m.status = "active"
<1>1. assets.monitors = {m \in assets.monitors : m.status = "active"}
  BY DEF AssetsOK, Organize
<1> QED BY <1>1

\* Replacing the snapshot keeps the first conjunct.
LEMMA AssetsOKStep ==
    ASSUME NEW table \in Tables, assets' = Organize(abis', table)
    PROVE  AssetsOK'
<1>1. assets'.monitors \subseteq table
  BY DEF Organize
<1>2. table \subseteq Catalogue
  BY DEF Tables
<1> QED BY <1>1, <1>2, OrganizeAgain DEF AssetsOK

\* The fetch brings what every steady monitor would fetch of the logs that no
\* entry hides from it.
LEMMA FetchKeepsLogs ==
    ASSUME ServiceInv, NEW b, NEW missing, Fetch(b, missing), NEW m \in steady
    PROVE  OwnLogs(m, Open(m))' \subseteq logs'
<1>1. m \in assets.monitors
  BY DEF ServiceInv, SteadyLive
<1>2. \A n \in {m} : n.status = "active"
  BY <1>1, SnapshotActive DEF ServiceInv
<1>3. Organize(abis, {m}).registry = BuildRegistry(abis, {m})
  BY ONLY <1>2, OrganizeActive
<1>4. assets.registry = BuildRegistry(abis, assets.monitors)
  <2>1. Organize(abis, assets.monitors).registry = BuildRegistry(abis, assets.monitors)
    BY SnapshotActive, OrganizeActive DEF ServiceInv
  <2> QED BY <2>1 DEF ServiceInv, AssetsOK
<1>5. /\ logs' = FetchLogs(assets.registry, b.logs)
      /\ block' = b /\ abis' = abis
      /\ hidden' = {log \in b.logs : /\ log.topic \in assets.registry.global
                                     /\ ~IsLogInteresting(assets.registry, log)}
  BY DEF Fetch, state
<1> DEFINE open == IF m.address = "all" THEN b.logs \ hidden' ELSE b.logs
<1>6. OwnLogs(m, Open(m))' = FetchLogs(BuildRegistry(abis, {m}), open)
  BY <1>3, <1>5 DEF OwnLogs, OwnAssets, Open
<1>7. ASSUME NEW log \in OwnLogs(m, Open(m))'
      PROVE  log \in logs'
  <2>1. log \in open /\ IsLogInteresting(BuildRegistry(abis, {m}), log)
    <3> HIDE DEF open
    <3> QED BY <1>6, <1>7, FetchLogsExact
  <2>2. \/ IsLogInteresting(assets.registry, log)
        \/ m.address = "all" /\ log.topic \in assets.registry.global
    BY <1>1, <1>4, <2>1, InterestGrows
  <2>3. log \in b.logs /\ IsLogInteresting(assets.registry, log)
    BY <1>5, <2>1, <2>2
  <2> QED BY <1>5, <2>3, FetchLogsExact
<1> QED BY <1>7

\* The correlation keeps what every steady monitor would match.
LEMMA CorrelateKeepsItems ==
    ASSUME ServiceInv, Correlate, NEW m \in steady, NEW own \in OwnHits(m, Open(m))
    PROVE  \E item \in items' : item.tx = own.tx /\ own.logs \subseteq item.logs
<1>1. m \in assets.monitors /\ \A n \in assets.monitors : n.status = "active"
  BY SnapshotActive DEF ServiceInv, SteadyLive
<1>2. OwnLogs(m, Open(m)) \subseteq logs
  BY DEF ServiceInv, LogsKept, Correlate
<1> DEFINE found == IF OwnAssets(m).receipts THEN Hashes(block) ELSE {}
           few == OwnLogs(m, Open(m))
           ms == assets.monitors
           txs == block.txs
<1>3. own \in ProcessBlock(Organize(abis, {m}), txs, few, found)
  BY DEF OwnHits, OwnItems, OwnAssets
<1>4. assets = Organize(abis, assets.monitors)
  BY DEF ServiceInv, AssetsOK
<1>5. items' = ProcessBlock(Organize(abis, ms), txs, logs, receipts)
  BY <1>4 DEF Correlate
<1>6. \E item \in ProcessBlock(Organize(abis, ms), txs, logs, receipts) :
          item.tx = own.tx /\ own.logs \subseteq item.logs
  <2> HIDE DEF found, few, ms, txs
  <2>1. few \subseteq logs
    BY <1>2 DEF few
  <2>2. m \in ms /\ \A n \in ms : n.status = "active"
    BY <1>1 DEF ms
  <2> QED BY ONLY <1>3, <2>1, <2>2, CorrelationGrows
<1> QED BY <1>5, <1>6

\* The evaluation of an item that a steady monitor would match fails or gives
\* that monitor a match.
LEMMA EvaluateServes ==
    ASSUME ServiceInv, NEW item, NEW broken, Evaluate(item, broken),
           NEW m \in steady, NEW own \in OwnHits(m, Open(m)),
           item.tx = own.tx, own.logs \subseteq item.logs
    PROVE  own.tx.hash \in failed' \/ Matched(m, own.tx.hash)'
<1>1. m \in assets.monitors /\ \A n \in assets.monitors : n.status = "active"
  BY SnapshotActive DEF ServiceInv, SteadyLive
<1>2. assets = Organize(abis, assets.monitors)
  BY DEF ServiceInv, AssetsOK
<1>3. EvaluateItem(abis, Organize(abis, {m}), own) # {}
  BY DEF OwnHits, OwnAssets
<1>4. \E p \in EvaluateItem(abis, Organize(abis, assets.monitors), item) : p[1] = m
  BY <1>1, <1>3, EvaluationGrows
<1>5. PICK p \in EvaluateItem(abis, assets, item) : p[1] = m
  BY <1>2, <1>4
<1>6. CASE broken \/ ItemThrows(abis, assets, item)
  BY <1>6 DEF Evaluate
<1>7. CASE ~(broken \/ ItemThrows(abis, assets, item))
  <2>1. [monitor |-> p[1], tx |-> item.tx.hash, log |-> p[2]] \in hits'
    BY <1>7 DEF Evaluate
  <2> QED BY <1>5, <2>1 DEF Matched
<1> QED BY <1>6, <1>7

\* A transaction whose logs were fetched is kept for every monitor.
LEMMA CorrelateKeepsTxs ==
    ASSUME Correlate, NEW tx \in block.txs, LogsOf(tx, logs) # {}
    PROVE  \E item \in items' : item.tx = tx
<1>1. items' = ProcessBlock(assets, block.txs, logs, receipts)
  BY DEF Correlate
<1> DEFINE item == [tx |-> tx, logs |-> LogsOf(tx, logs), receipt |-> tx.hash \in receipts]
<1>2. item \in items'
  BY <1>1 DEF ProcessBlock, LogsOf
<1>3. item.tx = tx
  OBVIOUS
<1> HIDE DEF item
<1> QED BY <1>2, <1>3

\* The script sees nothing of an item but its transaction.
LEMMA AcceptsReadsTx ==
    ASSUME NEW ab, NEW m, NEW tx, NEW item, item.tx = tx, NEW log,
           Accepts(ab, m, [tx |-> tx], log)
    PROVE  Accepts(ab, m, item, log)
BY DEF Accepts

\* The evaluation of a transaction that a steady monitor wants fails or gives
\* that monitor a match, by a log or by the transaction.
LEMMA EvaluateServesTx ==
    ASSUME ServiceInv, NEW item, NEW broken, Evaluate(item, broken),
           NEW m \in steady, WantsTx(m, item.tx)
    PROVE  item.tx.hash \in failed' \/ Matched(m, item.tx.hash)'
<1>1. m \in assets.monitors
  BY DEF ServiceInv, SteadyLive
<1>2. Accepts(abis, m, item, NoLog)
  BY AcceptsReadsTx DEF WantsTx
<1>3. \E p \in EvaluateItem(abis, assets, item) : p[1] = m
  <2>1. CASE m \in TxCandidates(abis, assets, item)
    <3>1. <<m, NoLog>> \in EvaluateItem(abis, assets, item)
      BY <1>2, <2>1 DEF EvaluateItem
    <3>2. <<m, NoLog>>[1] = m
      OBVIOUS
    <3> QED BY <3>1, <3>2
  <2>2. CASE m \notin TxCandidates(abis, assets, item)
    <3>1. \E p \in LogHits(abis, assets, item) : p[1] = m
      BY <1>1, <2>2 DEF TxCandidates, WantsTx
    <3> QED BY <3>1 DEF EvaluateItem
  <2> QED BY <2>1, <2>2
<1>4. PICK p \in EvaluateItem(abis, assets, item) : p[1] = m
  BY <1>3
<1>5. CASE broken \/ ItemThrows(abis, assets, item)
  BY <1>5 DEF Evaluate
<1>6. CASE ~(broken \/ ItemThrows(abis, assets, item))
  <2>1. [monitor |-> p[1], tx |-> item.tx.hash, log |-> p[2]] \in hits'
    BY <1>6 DEF Evaluate
  <2> QED BY <1>4, <2>1 DEF Matched
<1> QED BY <1>5, <1>6

\* Nothing that a steady monitor's own path depends on changes.
LEMMA OwnPathUnchanged ==
    ASSUME UNCHANGED <<abis, block, hidden>>
    PROVE  \A m : /\ OwnLogs(m, Open(m))' = OwnLogs(m, Open(m))
                  /\ OwnHits(m, Open(m))' = OwnHits(m, Open(m))
                  /\ \A tx : WantsTx(m, tx)' = WantsTx(m, tx)
BY DEF OwnLogs, OwnHits, OwnItems, OwnAssets, Open, WantsTx, Hashes

LEMMA ServiceInvStep == ServiceInv /\ [Next]_vars => ServiceInv'
<1> SUFFICES ASSUME ServiceInv, [Next]_vars
             PROVE  ServiceInv'
  OBVIOUS
<1>1. ASSUME NEW table \in Tables, Reload(table)
      PROVE  ServiceInv'
  <2>1. /\ assets' = Organize(abis', table)
        /\ steady' = steady \cap assets'.monitors
        /\ UNCHANGED <<abis, block, hidden, place, logs, items, hits, failed>>
    BY <1>1 DEF Reload, flight
  <2>2. AssetsOK'
    BY <2>1, AssetsOKStep
  <2>3. SteadyLive'
    BY <2>1 DEF SteadyLive
  <2>4. \A m : /\ OwnLogs(m, Open(m))' = OwnLogs(m, Open(m))
                    /\ OwnHits(m, Open(m))' = OwnHits(m, Open(m))
                    /\ \A tx : WantsTx(m, tx)' = WantsTx(m, tx)
    BY <2>1, OwnPathUnchanged
  <2>5. LogsKept'
    BY <2>1, <2>4 DEF ServiceInv, LogsKept
  <2>6. ItemsKept'
    BY <2>1, <2>4 DEF ServiceInv, ItemsKept, Matched
  <2>7. TxsKept'
    BY <2>1, <2>4 DEF ServiceInv, TxsKept, Matched
  <2> QED BY <2>2, <2>3, <2>5, <2>6, <2>7 DEF ServiceInv
<1>2. ASSUME NEW table \in Tables, Restart(table)
      PROVE  ServiceInv'
  <2>1. assets' = Organize(abis', table) /\ steady' = {}
    BY <1>2 DEF Restart, Idle
  <2>2. AssetsOK'
    BY <2>1, AssetsOKStep
  <2> QED BY <2>1, <2>2 DEF ServiceInv, SteadyLive, LogsKept, ItemsKept, TxsKept
<1>3. CASE StartCycle
  BY <1>3 DEF StartCycle, state, ServiceInv, AssetsOK, SteadyLive, LogsKept, ItemsKept, TxsKept
<1>4. ASSUME NEW b \in Blocks, NEW missing \in SUBSET Hashes(b), Fetch(b, missing)
      PROVE  ServiceInv'
  <2>1. place' = "fetched" /\ UNCHANGED <<abis, assets, steady>>
    BY <1>4 DEF Fetch, state
  <2>2. LogsKept'
    BY <1>4, <2>1, FetchKeepsLogs DEF LogsKept
  <2> QED BY <2>1, <2>2 DEF ServiceInv, AssetsOK, SteadyLive, ItemsKept, TxsKept
<1>5. CASE Correlate
  <2>1. /\ place = "fetched" /\ place' = "evaluating"
        /\ UNCHANGED <<abis, assets, block, hidden, steady, logs>>
    BY <1>5 DEF Correlate, state, history
  <2>2. \A m : /\ OwnLogs(m, Open(m))' = OwnLogs(m, Open(m))
                    /\ OwnHits(m, Open(m))' = OwnHits(m, Open(m))
                    /\ \A tx : WantsTx(m, tx)' = WantsTx(m, tx)
    BY <2>1, OwnPathUnchanged
  <2>3. ItemsKept'
    BY <1>5, <2>1, <2>2, CorrelateKeepsItems DEF ItemsKept
  <2>4. LogsKept'
    BY <2>1, <2>2 DEF ServiceInv, LogsKept
  <2>5. TxsKept'
    BY <1>5, <2>1, <2>2, CorrelateKeepsTxs DEF TxsKept
  <2> QED BY <2>1, <2>3, <2>4, <2>5 DEF ServiceInv, AssetsOK, SteadyLive
<1>6. ASSUME NEW item \in items, NEW broken \in BOOLEAN, Evaluate(item, broken)
      PROVE  ServiceInv'
  <2>1. /\ place = "evaluating" /\ place' = "evaluating"
        /\ items' = items \ {item}
        /\ failed \subseteq failed' /\ hits \subseteq hits'
        /\ UNCHANGED <<abis, assets, block, hidden, steady, logs>>
    BY <1>6 DEF Evaluate, state
  <2>2. \A m : /\ OwnLogs(m, Open(m))' = OwnLogs(m, Open(m))
                    /\ OwnHits(m, Open(m))' = OwnHits(m, Open(m))
                    /\ \A tx : WantsTx(m, tx)' = WantsTx(m, tx)
    BY <2>1, OwnPathUnchanged
  <2>3. ASSUME NEW m \in steady, NEW own \in OwnHits(m, Open(m))
        PROVE  \/ own.tx.hash \in failed'
               \/ Matched(m, own.tx.hash)'
               \/ \E i \in items' : i.tx = own.tx /\ own.logs \subseteq i.logs
    <3>1. CASE item.tx = own.tx /\ own.logs \subseteq item.logs
      BY <1>6, <3>1, EvaluateServes
    <3>2. CASE ~(item.tx = own.tx /\ own.logs \subseteq item.logs)
      BY <2>1, <3>2 DEF ServiceInv, ItemsKept, Matched
    <3> QED BY <3>1, <3>2
  <2>4. ItemsKept'
    BY <2>1, <2>2, <2>3 DEF ItemsKept
  <2>5. LogsKept'
    BY <2>1, <2>2 DEF ServiceInv, LogsKept
  <2>6. ASSUME NEW m \in steady, NEW tx \in block.txs, WantsTx(m, tx), LogsOf(tx, logs) # {}
        PROVE  \/ tx.hash \in failed'
               \/ Matched(m, tx.hash)'
               \/ \E i \in items' : i.tx = tx
    <3>1. CASE item.tx = tx
      BY <1>6, <2>6, <3>1, EvaluateServesTx
    <3>2. CASE item.tx # tx
      BY <2>1, <2>6, <3>2 DEF ServiceInv, TxsKept, Matched
    <3> QED BY <3>1, <3>2
  <2>7. TxsKept'
    BY <2>1, <2>2, <2>6 DEF TxsKept
  <2> QED BY <2>1, <2>4, <2>5, <2>7 DEF ServiceInv, AssetsOK, SteadyLive
<1>7. CASE Finish
  BY <1>7 DEF Finish, Idle, state, ServiceInv, AssetsOK, SteadyLive, LogsKept, ItemsKept, TxsKept
<1>8. CASE UNCHANGED vars
  <2>1. UNCHANGED <<abis, assets, block, hidden, steady, logs, place, items, hits, failed>>
    BY <1>8 DEF vars, state, flight, history
  <2>2. \A m : /\ OwnLogs(m, Open(m))' = OwnLogs(m, Open(m))
                    /\ OwnHits(m, Open(m))' = OwnHits(m, Open(m))
                    /\ \A tx : WantsTx(m, tx)' = WantsTx(m, tx)
    BY <2>1, OwnPathUnchanged
  <2> QED BY <2>1, <2>2 DEF ServiceInv, AssetsOK, SteadyLive, LogsKept, ItemsKept, TxsKept, Matched
<1> QED BY <1>1, <1>2, <1>3, <1>4, <1>5, <1>6, <1>7, <1>8 DEF Next

LEMMA ServiceInvInit == Init => ServiceInv
<1> SUFFICES ASSUME Init PROVE ServiceInv
  OBVIOUS
<1>1. PICK table \in Tables : assets = Organize(abis, table)
  BY DEF Init
<1>2. assets.monitors \subseteq Catalogue
  BY <1>1 DEF Organize, Tables
<1>3. AssetsOK
  BY <1>1, <1>2, OrganizeAgain DEF AssetsOK
<1> QED BY <1>3 DEF Init, ServiceInv, SteadyLive, LogsKept, ItemsKept, TxsKept

LEMMA ServiceInvHolds == Spec => []ServiceInv
BY ServiceInvInit, ServiceInvStep, PTL DEF Spec

\* For every catalogue of monitors and every sequence of reloads, restarts and
\* faults: a monitor that stays in the snapshot from the start of the cycle to
\* the evaluation gets every transaction it would match on its own, unless
\* the evaluation of that transaction failed, or it is a monitor of all
\* addresses and the logs that count are hidden by the entry of their address.
THEOREM SteadyMonitorsAreServed == Spec => []SteadyMonitorsServed
<1>1. ServiceInv => SteadyMonitorsServed
  <2> SUFFICES ASSUME ServiceInv, Done, NEW m \in steady,
                      NEW tx \in MatchesAlone(m, block.logs) \ failed
               PROVE  Matched(m, tx) \/ Shadowed(m, tx)
    BY DEF SteadyMonitorsServed
  <2>1. ASSUME tx \in MatchesAlone(m, Open(m)) PROVE Matched(m, tx)
    BY <2>1 DEF ServiceInv, ItemsKept, Done, MatchesAlone
  <2>2. CASE m.address = "all"
    <3>1. Open(m) = block.logs \ hidden
      BY <2>2 DEF Open
    <3> QED BY <2>1, <2>2, <3>1 DEF Shadowed
  <2>3. CASE m.address # "all"
    <3>1. Open(m) = block.logs
      BY <2>3 DEF Open
    <3> QED BY <2>1, <3>1
  <2> QED BY <2>2, <2>3
<1> QED BY <1>1, ServiceInvHolds, PTL

----------------------------------------------------------------------------
(* WrittenForIsMatched: what a monitor is written for it matches on its    *)
(* own, or one of the three losses applies.                                *)

\* A log of the monitor's contract and ABI passes the monitor's own registry.
LEMMA OwnLogInteresting ==
    ASSUME NEW ab, NEW m, "log" \in Caps(m), m.abi \in AbiName, NEW log,
           m.address = "all" \/ (m.address \in Address /\ m.address = log.address),
           log.topic \in Signatures(m, m.abi)
    PROVE  IsLogInteresting(BuildRegistry(ab, {m}), log)
<1> DEFINE own == BuildRegistry(ab, {m})
<1>1. CASE m.address = "all"
  <2>1. log.address \notin DOMAIN own.log
    BY <1>1, RegistryEntries, AbiAssumption
  <2>2. log.topic \in own.global
    BY <1>1, RegistryEntries
  <2> QED BY <2>1, <2>2 DEF IsLogInteresting
<1>2. CASE m.address \in Address /\ m.address = log.address
  <2>1. log.address \in DOMAIN own.log
    BY <1>2, RegistryEntries
  <2>2. CASE WantsEveryLog(ab, m)
    BY <1>2, <2>1, <2>2, RegistryEntries DEF IsLogInteresting
  <2>3. CASE ~WantsEveryLog(ab, m)
    <3>1. ab.linked[log.address] = m.abi
      BY <1>2, <2>3 DEF WantsEveryLog
    <3> QED BY <1>2, <2>1, <3>1, RegistryEntries DEF IsLogInteresting
  <2> QED BY <2>2, <2>3
<1> QED BY <1>1, <1>2

\* A log whose event is one of the monitor's ABI is not decoded only if the
\* service does not hold that ABI for the monitor's address.
LEMMA UndecodedIsForeign ==
    ASSUME NEW m, NEW tx, NEW log \in WantedLogs(m, tx), ~Decodes(abis, log)
    PROVE  ForeignAbi(m)
<1>1. log.topic \in AbiEvents[m.abi]
  BY DEF WantedLogs, Signatures
<1> QED BY <1>1 DEF WantedLogs, Decodes, ForeignAbi

\* On its own a monitor matches a transaction with a decoded log that it wants
\* and that nothing hides from it, a call of its contract, and, if it reads
\* nothing else, every transaction that its script accepts.
LEMMA WrittenForMatchesAlone ==
    ASSUME NEW m, m.status = "active", NEW tx \in block.txs,
           \/ \E log \in WantedLogs(m, tx) \cap Open(m) : Decodes(abis, log)
           \/ WantsCall(m, tx)
           \/ WantsTx(m, tx) /\ Caps(m) = {"tx"}
    PROVE  tx.hash \in MatchesAlone(m, Open(m))
<1> DEFINE own == OwnAssets(m)
           found == IF own.receipts THEN Hashes(block) ELSE {}
           of == {log \in OwnLogs(m, Open(m)) : log.tx = tx.hash}
           item == [tx |-> tx, logs |-> of, receipt |-> tx.hash \in found]
<1>1. \A n \in {m} : n.status = "active"
  OBVIOUS
<1>2. /\ own.monitors = {m}
      /\ own.registry = BuildRegistry(abis, {m})
      /\ own.txOnly <=> \E n \in {m} : Caps(n) = {"tx"}
  BY ONLY <1>1, OrganizeActive DEF OwnAssets
<1>3. ASSUME own.txOnly \/ of # {} \/ tx.to \in own.registry.calldata,
             EvaluateItem(abis, own, item) # {}
      PROVE  tx.hash \in MatchesAlone(m, Open(m))
  <2>1. item \in OwnItems(m, Open(m))
    BY <1>3 DEF OwnItems, ProcessBlock, IsCalldataInteresting
  <2>2. item \in OwnHits(m, Open(m)) /\ item.tx = tx
    BY <1>3, <2>1 DEF OwnHits
  <2> HIDE DEF item
  <2> QED BY <2>2 DEF MatchesAlone
<1>4. ASSUME "tx" \in Caps(m) \/ "call" \in Caps(m), Accepts(abis, m, [tx |-> tx], NoLog)
      PROVE  EvaluateItem(abis, own, item) # {}
  <2>1. Accepts(abis, m, item, NoLog)
    BY <1>4, AcceptsReadsTx
  <2>2. CASE m \in TxCandidates(abis, own, item)
    <3>1. <<m, NoLog>> \in EvaluateItem(abis, own, item)
      <4> HIDE DEF item, own
      <4> QED BY <2>1, <2>2 DEF EvaluateItem
    <3> QED BY <3>1
  <2>3. CASE m \notin TxCandidates(abis, own, item)
    <3>1. LogHits(abis, own, item) # {}
      <4> HIDE DEF item, own
      <4> QED BY <1>2, <1>4, <2>3 DEF TxCandidates
    <3> QED BY <3>1 DEF EvaluateItem
  <2> QED BY <2>2, <2>3
<1>5. CASE \E log \in WantedLogs(m, tx) \cap Open(m) : Decodes(abis, log)
  <2>0. PICK log \in Open(m) : log \in WantedLogs(m, tx) /\ Decodes(abis, log)
    BY <1>5
  <2>1. /\ "log" \in m.reads /\ m.abi \in AbiName
        /\ log.tx = tx.hash
        /\ m.address = "all" \/ (m.address \in Address /\ m.address = log.address)
        /\ log.topic \in Signatures(m, m.abi)
        /\ Accepts(abis, m, [tx |-> tx], log)
    BY <2>0 DEF WantedLogs
  <2>2. "log" \in Caps(m)
    BY <2>1 DEF Caps
  <2>3. IsLogInteresting(own.registry, log)
    BY <1>2, <2>1, <2>2, OwnLogInteresting
  <2>4. log \in of
    <3>1. log \in OwnLogs(m, Open(m))
      BY <2>1, <2>3, FetchLogsExact DEF OwnLogs
    <3> QED BY <2>1, <3>1
  <2>5. m.names # {} => log.topic \in m.names
    BY <2>1 DEF Signatures
  <2>6. Accepts(abis, m, item, log)
    BY <2>1, AcceptsReadsTx
  <2>7. log \in item.logs
    BY <2>4
  <2>8. <<m, log>> \in LogPairs(abis, own, item)
    <3> HIDE DEF item, own
    <3> QED BY <1>2, <2>0, <2>2, <2>5, <2>7 DEF LogPairs
  <2>9. <<m, log>> \in EvaluateItem(abis, own, item)
    <3> HIDE DEF item, own
    <3> QED BY <2>6, <2>8 DEF EvaluateItem, LogHits
  <2> QED BY <1>3, <2>4, <2>9
<1>6. CASE WantsCall(m, tx)
  <2>1. "call" \in Caps(m) /\ m.address \in Address /\ m.address = tx.to
    BY <1>6 DEF WantsCall, Caps
  <2>2. Accepts(abis, m, [tx |-> tx], NoLog)
    BY <1>6 DEF WantsCall
  <2>3. tx.to \in own.registry.calldata
    BY <1>2, <2>1, RegistryEntries
  <2> QED BY <1>3, <1>4, <2>1, <2>2, <2>3
<1>7. CASE WantsTx(m, tx) /\ Caps(m) = {"tx"}
  <2>1. own.txOnly
    BY <1>2, <1>7
  <2>2. "tx" \in Caps(m) /\ Accepts(abis, m, [tx |-> tx], NoLog)
    BY <1>7 DEF WantsTx
  <2> QED BY <1>3, <1>4, <2>1, <2>2
<1> QED BY <1>5, <1>6, <1>7

\* For every catalogue, every block and every sequence of reloads, restarts
\* and faults: what a steady monitor is written for it gets, unless the
\* evaluation failed or one of the three named losses applies.
THEOREM WrittenForIsMatchedHolds == Spec => []WrittenForIsMatched
<1>1. ServiceInv => WrittenForIsMatched
  <2> SUFFICES ASSUME ServiceInv, Done, NEW m \in steady, NEW tx \in block.txs,
                      tx.hash \notin failed, ~Matched(m, tx.hash)
               PROVE  /\ \A log \in WantedLogs(m, tx) :
                            \/ m.address = "all" /\ log \in hidden
                            \/ ForeignAbi(m) /\ ~Decodes(abis, log)
                      /\ ~WantsCall(m, tx)
                      /\ WantsTx(m, tx) => Caps(m) # {"tx"} /\ LogsOf(tx, logs) = {}
    BY DEF WrittenForIsMatched
  <2>1. m.status = "active"
    BY SnapshotActive DEF ServiceInv, SteadyLive
  <2>2. tx.hash \notin MatchesAlone(m, Open(m))
    BY DEF ServiceInv, ItemsKept, Done, MatchesAlone
  <2>3. /\ \A log \in WantedLogs(m, tx) \cap Open(m) : ~Decodes(abis, log)
        /\ ~WantsCall(m, tx)
        /\ ~(WantsTx(m, tx) /\ Caps(m) = {"tx"})
    BY <2>1, <2>2, WrittenForMatchesAlone
  <2>4. ASSUME NEW log \in WantedLogs(m, tx)
        PROVE  \/ m.address = "all" /\ log \in hidden
               \/ ForeignAbi(m) /\ ~Decodes(abis, log)
    <3>1. log \in block.logs
      BY DEF WantedLogs
    <3>2. CASE log \in Open(m)
      BY <2>3, <3>2, UndecodedIsForeign
    <3>3. CASE log \notin Open(m)
      BY <3>1, <3>3 DEF Open
    <3> QED BY <3>2, <3>3
  <2>5. WantsTx(m, tx) => LogsOf(tx, logs) = {}
    BY DEF ServiceInv, TxsKept, Done
  <2> QED BY <2>3, <2>4, <2>5
<1> QED BY <1>1, ServiceInvHolds, PTL

----------------------------------------------------------------------------
(* OneKindOfMatch.                                                         *)

\* Within one evaluation a monitor has log matches or a transaction match:
\* the second pass leaves out what matched in the first.
LEMMA OneKindPerEvaluation ==
    ASSUME NEW ab, NEW as, NEW item,
           NEW p \in EvaluateItem(ab, as, item), NEW q \in EvaluateItem(ab, as, item),
           p[1] = q[1], p[2] = NoLog
    PROVE  p \in LogHits(ab, as, item) \/ q[2] = NoLog
<1>1. CASE p \in LogHits(ab, as, item)
  BY <1>1
<1>2. CASE p \notin LogHits(ab, as, item)
  <2>1. PICK m \in TxCandidates(ab, as, item) : p = <<m, NoLog>>
    BY <1>2 DEF EvaluateItem
  <2>2. m \notin {r[1] : r \in LogHits(ab, as, item)}
    BY DEF TxCandidates
  <2>3. q \notin LogHits(ab, as, item)
    <3>1. q[1] = m
      BY <2>1
    <3> QED BY <2>2, <3>1
  <2>4. PICK n : q = <<n, NoLog>>
    BY <2>3 DEF EvaluateItem
  <2> QED BY <2>4
<1> QED BY <1>1, <1>2

LEMMA KindInvStep == KindInv /\ [Next]_vars => KindInv'
<1> SUFFICES ASSUME KindInv, [Next]_vars
             PROVE  KindInv'
  OBVIOUS
<1>1. CASE \E table \in Tables : Reload(table)
  BY <1>1 DEF Reload, flight, KindInv, EvaluatedOnce, OneKindOfMatch
<1>2. CASE (\E table \in Tables : Restart(table)) \/ Finish
  BY <1>2 DEF Restart, Finish, Idle, KindInv, EvaluatedOnce, OneKindOfMatch
<1>3. CASE StartCycle
  BY <1>3 DEF StartCycle, KindInv, EvaluatedOnce, OneKindOfMatch
<1>4. CASE \E b \in Blocks : \E missing \in SUBSET Hashes(b) : Fetch(b, missing)
  <2>1. PICK b \in Blocks : /\ logs' = FetchLogs(assets.registry, b.logs)
                            /\ block' = b /\ place' = "fetched" /\ place = "cycle"
                            /\ UNCHANGED <<items, hits>>
    BY <1>4 DEF Fetch
  <2>2. NoLog \notin logs'
    BY <2>1, FetchLogsExact, BlockAssumption
  <2> QED BY <2>1, <2>2 DEF KindInv, EvaluatedOnce, OneKindOfMatch
<1>5. CASE Correlate
  <2>1. hits' = {} /\ UNCHANGED block /\ place' = "evaluating"
    BY <1>5 DEF Correlate, history, KindInv, EvaluatedOnce
  <2>2. items' = ProcessBlock(assets, block.txs, logs, receipts)
    BY <1>5 DEF Correlate
  <2>3. \A i \in items' : /\ i.tx \in block.txs
                         /\ i = [tx |-> i.tx, logs |-> {log \in logs : log.tx = i.tx.hash},
                                  receipt |-> i.tx.hash \in receipts]
    BY <2>2 DEF ProcessBlock, IsCalldataInteresting
  <2>4. ASSUME NEW i \in items', NEW j \in items', i.tx = j.tx
        PROVE  i = j
    <3> DEFINE made(tx) == [tx |-> tx, logs |-> {log \in logs : log.tx = tx.hash},
                            receipt |-> tx.hash \in receipts]
    <3>1. i = made(i.tx) /\ j = made(j.tx)
      BY <2>3
    <3> HIDE DEF made
    <3> QED BY <2>4, <3>1
  <2>5. NoLog \notin logs /\ logs' = logs
    BY <1>5 DEF Correlate, KindInv, EvaluatedOnce
  <2>6. \A i \in items' : i.logs \subseteq logs
    BY <2>2 DEF ProcessBlock, IsCalldataInteresting
  <2> QED BY <2>1, <2>3, <2>4, <2>5, <2>6 DEF KindInv, EvaluatedOnce, OneKindOfMatch
<1>6. ASSUME NEW item \in items, NEW broken \in BOOLEAN, Evaluate(item, broken)
      PROVE  KindInv'
  <2> DEFINE new == {[monitor |-> p[1], tx |-> item.tx.hash, log |-> p[2]] :
                       p \in EvaluateItem(abis, assets, item)}
  <2>1. /\ items' = items \ {item} /\ place' = place /\ place = "evaluating"
        /\ block' = block /\ logs' = logs /\ (hits' = hits \/ hits' = hits \cup new)
    BY <1>6 DEF Evaluate
  <2>2. \A i \in items' : i.tx.hash # item.tx.hash
    BY <1>6, <2>1, BlockAssumption DEF KindInv, EvaluatedOnce, NoBlock
  <2>3. \A h \in new : h.tx = item.tx.hash
    OBVIOUS
  <2>4. EvaluatedOnce'
    <3> HIDE DEF new
    <3> QED BY <2>1, <2>2, <2>3 DEF KindInv, EvaluatedOnce
  <2>5. \A h \in hits : h.tx # item.tx.hash
    BY <1>6 DEF KindInv, EvaluatedOnce
  <2>6. ASSUME NEW g \in new, NEW h \in new, g.monitor = h.monitor, g.log = NoLog
        PROVE  h.log = NoLog
    <3>1. PICK p \in EvaluateItem(abis, assets, item) :
              g = [monitor |-> p[1], tx |-> item.tx.hash, log |-> p[2]]
      BY <2>6
    <3>2. PICK q \in EvaluateItem(abis, assets, item) :
              h = [monitor |-> q[1], tx |-> item.tx.hash, log |-> q[2]]
      BY <2>6
    <3>3. p[1] = q[1] /\ p[2] = NoLog
      BY <2>6, <3>1, <3>2
    <3>4. p \notin LogHits(abis, assets, item)
      BY <1>6, <3>3 DEF LogHits, LogPairs, KindInv, EvaluatedOnce
    <3> QED BY <3>2, <3>3, <3>4, OneKindPerEvaluation
  <2>7. OneKindOfMatch'
    <3> HIDE DEF new
    <3> QED BY <2>1, <2>3, <2>5, <2>6 DEF KindInv, OneKindOfMatch
  <2> QED BY <2>4, <2>7 DEF KindInv
<1>7. CASE UNCHANGED vars
  BY <1>7 DEF vars, flight, history, KindInv, EvaluatedOnce, OneKindOfMatch
<1> QED BY <1>1, <1>2, <1>3, <1>4, <1>5, <1>6, <1>7 DEF Next

\* Every transaction is evaluated once.
LEMMA KindInvHolds == Spec => []KindInv
<1>1. Init => KindInv
  BY DEF Init, KindInv, EvaluatedOnce, OneKindOfMatch
<1> QED BY <1>1, KindInvStep, PTL DEF Spec

\* For every catalogue, every block and every sequence of reloads: the matches
\* of a monitor for a transaction are log matches or one transaction match.
THEOREM OneKindOfMatchHolds == Spec => []OneKindOfMatch
<1>1. KindInv => OneKindOfMatch
  BY DEF KindInv
<1> QED BY <1>1, KindInvHolds, PTL

----------------------------------------------------------------------------
(* FailuresExplained.                                                      *)

\* A snapshot that needs no receipts evaluates without them, and an item with
\* its receipt never fails.
LEMMA ThrowNeedsReceipts ==
    ASSUME AssetsOK, NEW item, ItemThrows(abis, assets, item)
    PROVE  assets.receipts /\ ~item.receipt
<1>1. PICK m \in assets.monitors : Throws(m, item)
  <2>1. \A p \in LogPairs(abis, assets, item) : p[1] \in assets.monitors
    BY DEF LogPairs
  <2>2. TxCandidates(abis, assets, item) \subseteq assets.monitors
    BY DEF TxCandidates
  <2> QED BY <2>1, <2>2 DEF ItemThrows
<1>2. m.receipt /\ ~item.receipt
  BY <1>1 DEF Throws
<1>3. m.status = "active"
  BY SnapshotActive
<1>4. Organize(abis, assets.monitors).receipts
          = \E n \in {k \in assets.monitors : k.status = "active"} : n.receipt
  BY Zenon DEF Organize
<1>5. \E n \in {k \in assets.monitors : k.status = "active"} : n.receipt
  BY <1>2, <1>3
<1>6. assets.receipts
  BY <1>4, <1>5, Zenon DEF AssetsOK
<1> QED BY <1>2, <1>6

LEMMA ReceiptsInvStep == AssetsOK /\ ReceiptsInv /\ [Next]_vars => ReceiptsInv'
<1> SUFFICES ASSUME AssetsOK, ReceiptsInv, [Next]_vars
             PROVE  ReceiptsInv'
  OBVIOUS
<1>1. ASSUME NEW table \in Tables, Reload(table)
      PROVE  ReceiptsInv'
  <2>1. /\ reloads' = reloads + 1
        /\ UNCHANGED <<place, needs, block, receipts, items, failed, spoilt>>
    BY <1>1 DEF Reload, flight
  <2>2. reloads' \in Nat /\ reloads' > 0
    BY <2>1 DEF ReceiptsInv
  <2>3. FailuresExplained'
    BY <2>1, <2>2 DEF ReceiptsInv, FailuresExplained
  <2> QED BY <2>1, <2>2, <2>3 DEF ReceiptsInv
<1>2. CASE (\E table \in Tables : Restart(table)) \/ Finish
  BY <1>2 DEF Restart, Finish, Idle, ReceiptsInv, FailuresExplained
<1>3. CASE StartCycle
  BY <1>3 DEF StartCycle, state, ReceiptsInv, FailuresExplained
<1>4. ASSUME NEW b \in Blocks, NEW missing \in SUBSET Hashes(b), Fetch(b, missing)
      PROVE  ReceiptsInv'
  <2>1. /\ place = "cycle" /\ place' = "fetched" /\ block' = b /\ spoilt' = missing
        /\ receipts' = IF needs THEN Hashes(b) \ missing ELSE {}
        /\ UNCHANGED <<assets, needs, items, failed, reloads>>
    BY <1>4 DEF Fetch, FetchReceipts, state
  <2>2. failed' = {} /\ items' = {}
    BY <2>1 DEF ReceiptsInv
  <2>3. needs' => Hashes(block)' \ receipts' \subseteq spoilt'
    BY <2>1 DEF Hashes
  <2> QED BY <2>1, <2>2, <2>3 DEF ReceiptsInv, FailuresExplained
<1>5. CASE Correlate
  <2>1. /\ place = "fetched" /\ place' = "evaluating"
        /\ items' = ProcessBlock(assets, block.txs, logs, receipts)
        /\ UNCHANGED <<assets, needs, block, receipts, failed, spoilt, reloads>>
    BY <1>5 DEF Correlate, state, history
  <2>2. \A i \in items' : i.tx \in block.txs /\ (i.receipt <=> i.tx.hash \in receipts)
    <3>1. \A i \in items' : \E tx \in block.txs :
             i = [tx |-> tx, logs |-> {log \in logs : log.tx = tx.hash},
                  receipt |-> tx.hash \in receipts]
      BY <2>1 DEF ProcessBlock, IsCalldataInteresting
    <3>2. ASSUME NEW i \in items'
          PROVE  i.tx \in block.txs /\ (i.receipt <=> i.tx.hash \in receipts)
      <4>1. PICK tx \in block.txs :
               i = [tx |-> tx, logs |-> {log \in logs : log.tx = tx.hash},
                    receipt |-> tx.hash \in receipts]
        BY <3>1
      <4>2. i.tx = tx /\ i.receipt = (tx.hash \in receipts)
        BY <4>1, Zenon
      <4> QED BY <4>2, Zenon
    <3> QED BY <3>2
  <2>3. Hashes(block)' = Hashes(block)
    BY <2>1 DEF Hashes
  <2>4. FailuresExplained'
    BY <2>1 DEF ReceiptsInv, FailuresExplained
  <2> QED BY <2>1, <2>2, <2>3, <2>4 DEF ReceiptsInv
<1>6. ASSUME NEW item \in items, NEW broken \in BOOLEAN, Evaluate(item, broken)
      PROVE  ReceiptsInv'
  <2> DEFINE throws == broken \/ ItemThrows(abis, assets, item)
  <2>1. /\ place = "evaluating" /\ place' = "evaluating" /\ items' = items \ {item}
        /\ failed' = IF throws THEN failed \cup {item.tx.hash} ELSE failed
        /\ spoilt' = IF broken THEN spoilt \cup {item.tx.hash} ELSE spoilt
        /\ UNCHANGED <<assets, needs, block, receipts, reloads>>
    BY <1>6 DEF Evaluate, state
  <2>2. throws => item.tx.hash \in spoilt' \/ (~needs /\ reloads > 0)
    <3>1. CASE broken
      BY <2>1, <3>1
    <3>2. CASE ItemThrows(abis, assets, item)
      <4>1. assets.receipts /\ ~item.receipt
        BY <3>2, ThrowNeedsReceipts
      <4>2. item.tx.hash \in Hashes(block) \ receipts
        BY <4>1 DEF ReceiptsInv, Hashes
      <4>3. CASE needs
        BY <2>1, <4>2, <4>3 DEF ReceiptsInv
      <4>4. CASE ~needs
        BY <2>1, <4>1, <4>4 DEF ReceiptsInv
      <4> QED BY <4>3, <4>4
    <3> QED BY <3>1, <3>2
  <2> HIDE DEF throws
  <2>3. spoilt \subseteq spoilt' /\ Hashes(block)' = Hashes(block)
    BY <2>1 DEF Hashes
  <2>4. FailuresExplained'
    BY <2>1, <2>2, <2>3 DEF ReceiptsInv, FailuresExplained
  <2>5. needs' => Hashes(block)' \ receipts' \subseteq spoilt'
    BY <2>1, <2>3 DEF ReceiptsInv
  <2> QED BY <2>1, <2>4, <2>5 DEF ReceiptsInv
<1>7. CASE UNCHANGED vars
  BY <1>7 DEF vars, state, flight, history, ReceiptsInv, FailuresExplained, Hashes
<1> QED BY <1>1, <1>2, <1>3, <1>4, <1>5, <1>6, <1>7 DEF Next

\* What the cycle knows of its receipts.
LEMMA ReceiptsInvHolds == Spec => []ReceiptsInv
<1>1. Init => ReceiptsInv
  BY DEF Init, ReceiptsInv, FailuresExplained
<1>2. ServiceInv => AssetsOK
  BY DEF ServiceInv
<1> QED BY <1>1, <1>2, ReceiptsInvStep, ServiceInvHolds, PTL DEF Spec

\* For every catalogue and every sequence of reloads: an item is lost to a
\* script error only through a fault, or because a reload brought in a monitor
\* that needs receipts after ingest_blocks had read the flag.
THEOREM FailuresExplainedHolds == Spec => []FailuresExplained
<1>1. ReceiptsInv => FailuresExplained
  BY DEF ReceiptsInv
<1> QED BY <1>1, ReceiptsInvHolds, PTL

----------------------------------------------------------------------------
(* TypeOK.                                                                 *)

\* A set of natural numbers has a least element.
LEMMA LeastNatural ==
    ASSUME NEW S, S \subseteq Nat, S # {}
    PROVE  \E m \in S : \A k \in S : m <= k
<1> DEFINE R == {ss \in Nat \X Nat : ss[1] < ss[2]}
<1>1. IsWellFoundedOn(R, Nat)
  BY NatLessThanWellFounded, Zenon DEF OpToRel
<1>2. \A k, m \in S : k < m => <<k, m>> \in R
  OBVIOUS
<1> HIDE DEF R
<1>3. PICK m \in S : \A k \in S : ~ (<<k, m>> \in R)
  BY <1>1, WFMin
<1>4. \A k \in S : m \in Nat /\ k \in Nat /\ ~ (k < m)
  BY <1>2, <1>3
<1> QED BY <1>4

\* Among finitely many monitors one has the largest id: the one whose ABI the
\* loop of load_abis_from_monitors links last.  It is a monitor that the
\* fewest others follow.
LEMMA LastMonitorExists ==
    ASSUME NEW ms \in SUBSET Catalogue, ms # {}
    PROVE  \E m \in ms : \A n \in ms : n.id <= m.id
<1> DEFINE above(m) == {n \in ms : n.id > m.id}
           counts == {Cardinality(above(m)) : m \in ms}
<1>1. IsFiniteSet(ms) /\ \A m \in ms : m.id \in Nat
  BY FS_Subset, CatalogueAssumption
<1>2. \A m \in ms : IsFiniteSet(above(m)) /\ Cardinality(above(m)) \in Nat
  <2>1. \A m \in ms : above(m) \in SUBSET ms
    OBVIOUS
  <2> QED BY <1>1, <2>1, FS_Subset, FS_CardinalityType
<1>3. PICK least \in counts : \A k \in counts : least <= k
  <2>1. counts \subseteq Nat /\ counts # {}
    BY <1>2
  <2> HIDE DEF counts
  <2> QED BY <2>1, LeastNatural
<1>4. PICK m \in ms : Cardinality(above(m)) = least
  OBVIOUS
<1>5. ASSUME NEW n \in ms, n.id > m.id PROVE FALSE
  <2>1. above(n) \in SUBSET above(m)
    <3>1. \A k \in ms : k.id > n.id => k.id > m.id
      BY <1>1, <1>5
    <3> QED BY <3>1
  <2>2. n \in above(m) /\ n \notin above(n)
    BY <1>1, <1>5
  <2>3. Cardinality(above(m)) <= Cardinality(above(n))
    BY <1>3, <1>4
  <2> HIDE DEF above
  <2>4. Cardinality(above(n)) <= Cardinality(above(m))
    BY <1>2, <2>1, FS_Subset
  <2>5. Cardinality(above(n)) = Cardinality(above(m))
    BY <1>2, <2>3, <2>4
  <2>6. above(m) = above(n)
    BY <1>2, <2>1, <2>5, FS_Subset
  <2> QED BY <2>2, <2>6
<1>6. \A n \in ms : n.id <= m.id
  BY <1>1, <1>5
<1> QED BY <1>6

\* Every address is linked to an ABI that exists, of a monitor of that address.
LEMMA LoadAbisTyped ==
    ASSUME NEW table \in SUBSET Catalogue
    PROVE  LoadAbis(table) \in AbiService
<1> DEFINE withAbi == {m \in table : m.abi # NoAbi /\ m.address # "none"}
           at(a) == {m \in withAbi : m.address = a}
           keys == {m.address : m \in withAbi} \ {"all"}
<1>1. \A m \in withAbi : m.abi \in AbiName /\ m.address \in Address \cup {"all"}
  BY CatalogueAssumption
<1>2. keys \in SUBSET Address
  BY <1>1
<1>3. ASSUME NEW a \in keys PROVE LinkAbi(at(a)) \in AbiName
  <2>1. at(a) \in SUBSET Catalogue /\ at(a) # {}
    OBVIOUS
  <2>2. \A m \in at(a) : m.abi \in AbiName
    BY <1>1
  <2> HIDE DEF at
  <2>3. \E m \in at(a) : \A n \in at(a) : n.id <= m.id
    BY <2>1, LastMonitorExists
  <2>4. (CHOOSE m \in at(a) : \A n \in at(a) : n.id <= m.id) \in at(a)
    BY <2>3
  <2> QED BY <2>2, <2>4 DEF LinkAbi
<1>4. AddGlobalAbi(at("all")) \in SUBSET AbiName
  BY <1>1 DEF AddGlobalAbi
<1> DEFINE linked == [a \in keys |-> LinkAbi(at(a))]
           global == AddGlobalAbi(at("all"))
<1>5. LoadAbis(table) = [linked |-> linked, global |-> global]
  BY DEF LoadAbis
<1>6. linked \in PartialMaps(Address, AbiName)
  <2> HIDE DEF keys, at
  <2>1. linked \in [keys -> AbiName]
    BY <1>3
  <2> QED BY <1>2, <2>1 DEF PartialMaps
<1> HIDE DEF linked, global
<1> QED BY <1>4, <1>5, <1>6 DEF AbiService, global

\* The snapshot that organize_assets makes of monitors of the catalogue is
\* what the struct holds; an entry of the registry is broad or precise.
LEMMA OrganizeTyped ==
    ASSUME NEW ab, NEW table \in SUBSET Catalogue
    PROVE  Organize(ab, table) \in MonitorAssetState
<1> DEFINE active == {m \in table : m.status = "active"}
           logAware == {m \in active : "log" \in Caps(m)}
           at(a) == {m \in logAware : m.address = a}
           keys == {m.address : m \in logAware} \cap Address
           every(a) == \E m \in at(a) : WantsEveryLog(ab, m)
           sigs(a) == UNION {Signatures(m, ab.linked[a]) : m \in at(a)}
           entry(a) == IF every(a) THEN [broad |-> TRUE, sigs |-> {}]
                                   ELSE [broad |-> FALSE, sigs |-> sigs(a)]
           Entries == {[broad |-> TRUE, sigs |-> {}]} \cup [broad : {FALSE}, sigs : SUBSET Event]
           log == [a \in keys |-> entry(a)]
           calldata == {m.address : m \in {n \in active : "call" \in Caps(n)}} \cap Address
           global == UNION {Signatures(m, m.abi) : m \in {n \in at("all") : n.abi \in AbiName}}
           reg == [log |-> log, calldata |-> calldata, global |-> global]
<1>1. BuildRegistry(ab, active) = reg
  BY DEF BuildRegistry
<1>2. WellTyped(reg)
  <2>1. WellTyped(Organize(ab, table).registry)
    BY OrganizedRegistryTyped
  <2>2. Organize(ab, table).registry = BuildRegistry(ab, active)
    BY DEF Organize
  <2> HIDE DEF reg, active
  <2> QED BY <1>1, <2>1, <2>2
<1>3. ASSUME NEW a \in keys PROVE entry(a) \in Entries
  <2>1. CASE every(a)
    <3> HIDE DEF every
    <3> QED BY <2>1
  <2>2. CASE ~ every(a)
    <3>1. reg.log[a].sigs \subseteq Event
      <4> HIDE DEF entry, keys
      <4> QED BY <1>2, <1>3 DEF WellTyped
    <3>2. reg.log[a] = [broad |-> FALSE, sigs |-> sigs(a)]
      <4> HIDE DEF every, sigs, keys
      <4> QED BY <1>3, <2>2
    <3> HIDE DEF reg, every, sigs
    <3>3. sigs(a) \in SUBSET Event
      BY <3>1, <3>2
    <3> QED BY <2>2, <3>3
  <2> QED BY <2>1, <2>2
<1>4. log \in PartialMaps(Address, Entries)
  <2>1. keys \in SUBSET Address
    OBVIOUS
  <2> HIDE DEF keys, entry, Entries
  <2>2. log \in [keys -> Entries]
    BY <1>3
  <2> HIDE DEF log
  <2> QED BY <2>1, <2>2 DEF PartialMaps
<1>5. global \in SUBSET Event
  <2> HIDE DEF log, calldata, global
  <2> QED BY <1>2 DEF WellTyped
<1>6. reg \in InterestRegistry
  <2>1. calldata \in SUBSET Address
    OBVIOUS
  <2> HIDE DEF log, calldata, global
  <2> QED BY <1>4, <1>5, <2>1 DEF InterestRegistry
<1> DEFINE needy == \E m \in active : m.receipt
           txOnly == \E m \in active : Caps(m) = {"tx"}
<1>7. Organize(ab, table) = [monitors |-> active, registry |-> reg,
                             receipts |-> needy, txOnly |-> txOnly]
  <2> HIDE DEF reg
  <2> QED BY <1>1 DEF Organize
<1>8. active \in SUBSET Catalogue
  OBVIOUS
<1>9. needy \in BOOLEAN /\ txOnly \in BOOLEAN
  OBVIOUS
<1> HIDE DEF reg, active, needy, txOnly
<1> QED BY <1>6, <1>7, <1>8, <1>9 DEF MonitorAssetState

\* A match names a monitor of the snapshot.
LEMMA MatchesOfSnapshot ==
    ASSUME NEW ab, NEW as, NEW item, NEW p \in EvaluateItem(ab, as, item)
    PROVE  p[1] \in as.monitors
<1>1. CASE p \in LogHits(ab, as, item)
  <2>1. p \in {m \in as.monitors : "log" \in Caps(m)} \X item.logs
    BY <1>1 DEF LogHits, LogPairs
  <2> QED BY <2>1
<1>2. CASE p \notin LogHits(ab, as, item)
  <2>1. PICK m \in TxCandidates(ab, as, item) : p = <<m, NoLog>>
    BY <1>2 DEF EvaluateItem
  <2> QED BY <2>1 DEF TxCandidates
<1> QED BY <1>1, <1>2

\* Every step keeps the types, given that a transaction is evaluated once,
\* that nothing has failed before the evaluation starts, and that the snapshot
\* holds monitors of the catalogue.
LEMMA TypeStep ==
    TypeOK /\ KindInv /\ ReceiptsInv /\ AssetsOK /\ SteadyLive /\ [Next]_vars => TypeOK'
<1> SUFFICES ASSUME TypeOK, KindInv, ReceiptsInv, AssetsOK, SteadyLive, [Next]_vars
             PROVE  TypeOK'
  OBVIOUS
<1>1. \A table \in Tables : table \in SUBSET Catalogue
  BY DEF Tables
<1> USE CatalogueAssumption
<1>2. ASSUME NEW table \in Tables, Reload(table) PROVE TypeOK'
  <2>1. assets' \in MonitorAssetState
    BY <1>1, <1>2, OrganizeTyped DEF Reload
  <2>2. reloads' \in 0..MaxReloads
    BY <1>2 DEF Reload, TypeOK
  <2>3. steady' \subseteq Catalogue
    BY <1>2 DEF Reload, TypeOK
  <2>4. UNCHANGED <<abis, place, needs, block, logs, receipts, items, hits, failed, spoilt>>
    BY <1>2 DEF Reload, flight
  <2> QED BY <2>1, <2>2, <2>3, <2>4 DEF TypeOK, Hashes
<1>3. ASSUME NEW table \in Tables, Restart(table) PROVE TypeOK'
  <2>1. abis' \in AbiService /\ assets' \in MonitorAssetState
    BY <1>1, <1>3, OrganizeTyped, LoadAbisTyped DEF Restart
  <2>2. Idle /\ reloads' = 0
    BY <1>3 DEF Restart
  <2>3. needs' \in BOOLEAN /\ reloads' \in 0..MaxReloads
    <3>1. needs' \in BOOLEAN
      BY <2>2, Zenon DEF Idle
    <3>2. reloads' \in 0..MaxReloads
      BY <2>2
    <3> QED BY <3>1, <3>2
  <2>4. /\ place' = "idle" /\ logs' = {} /\ receipts' = {} /\ items' = {}
        /\ hits' = {} /\ failed' = {} /\ steady' = {} /\ spoilt' = {}
    BY <2>2 DEF Idle
  <2> QED BY <2>1, <2>3, <2>4 DEF TypeOK
<1>4. CASE StartCycle
  BY <1>4 DEF StartCycle, TypeOK, AssetsOK, state, MonitorAssetState
<1>5. ASSUME NEW b \in Blocks, NEW missing \in SUBSET Hashes(b), Fetch(b, missing)
      PROVE  TypeOK'
  <2>1. place = "cycle" /\ items = {} /\ hits = {} /\ failed = {}
    BY <1>5 DEF Fetch, KindInv, EvaluatedOnce, ReceiptsInv
  <2>2. logs' \subseteq block'.logs
    BY <1>5 DEF Fetch, FetchLogs, Admitted
  <2>3. receipts' \subseteq Hashes(block')
    BY <1>5 DEF Fetch, FetchReceipts
  <2>4. spoilt' \subseteq Hashes(block')
    BY <1>5 DEF Fetch
  <2> QED BY <1>5, <2>1, <2>2, <2>3, <2>4 DEF Fetch, TypeOK, state
<1>6. CASE Correlate
  <2>1. {item.tx : item \in items'} \subseteq block.txs
    BY <1>6 DEF Correlate, ProcessBlock
  <2> QED BY <1>6, <2>1 DEF Correlate, TypeOK, state, history, Hashes
<1>7. ASSUME NEW item \in items, NEW broken \in BOOLEAN, Evaluate(item, broken)
      PROVE  TypeOK'
  <2>1. item.tx.hash \in Hashes(block)
    BY DEF TypeOK, Hashes
  <2>2. failed' \subseteq Hashes(block) /\ spoilt' \subseteq Hashes(block)
    BY <1>7, <2>1 DEF Evaluate, TypeOK
  <2>3. \A h \in hits' : h.tx \in Hashes(block) /\ h.monitor \in Catalogue
    BY <1>7, <2>1, MatchesOfSnapshot DEF Evaluate, TypeOK, AssetsOK
  <2>4. {i.tx : i \in items'} \subseteq block.txs
    BY <1>7 DEF Evaluate, TypeOK
  <2> QED BY <1>7, <2>2, <2>3, <2>4 DEF Evaluate, TypeOK, state, Hashes
<1>8. CASE Finish
  <2>1. abis' \in AbiService /\ assets' \in MonitorAssetState
    BY <1>8 DEF Finish, state, TypeOK
  <2>2. Idle /\ reloads' = 0
    BY <1>8 DEF Finish
  <2>3. needs' \in BOOLEAN /\ reloads' \in 0..MaxReloads
    <3>1. needs' \in BOOLEAN
      BY <2>2, Zenon DEF Idle
    <3>2. reloads' \in 0..MaxReloads
      BY <2>2
    <3> QED BY <3>1, <3>2
  <2>4. /\ place' = "idle" /\ logs' = {} /\ receipts' = {} /\ items' = {}
        /\ hits' = {} /\ failed' = {} /\ steady' = {} /\ spoilt' = {}
    BY <2>2 DEF Idle
  <2> QED BY <2>1, <2>3, <2>4 DEF TypeOK
<1>9. CASE UNCHANGED vars
  BY <1>9 DEF vars, state, flight, history, TypeOK, Hashes
<1> QED BY <1>2, <1>3, <1>4, <1>5, <1>6, <1>7, <1>8, <1>9 DEF Next

\* For every catalogue and every block: each address is linked to an ABI that
\* exists, an entry of the registry is broad or precise and never both, and
\* what is in flight belongs to the block of the cycle.
THEOREM TypeCorrect == Spec => []TypeOK
<1>1. Init => TypeOK
  <2> SUFFICES ASSUME Init PROVE TypeOK
    OBVIOUS
  <2>1. \A table \in Tables : table \in SUBSET Catalogue
    BY DEF Tables
  <2>2. abis \in AbiService /\ assets \in MonitorAssetState
    BY <2>1, OrganizeTyped, LoadAbisTyped DEF Init
  <2>3. needs \in BOOLEAN /\ reloads \in 0..MaxReloads
    <3>1. needs \in BOOLEAN
      BY Zenon DEF Init
    <3>2. reloads \in 0..MaxReloads
      BY CatalogueAssumption DEF Init
    <3> QED BY <3>1, <3>2
  <2>4. /\ place = "idle" /\ logs = {} /\ receipts = {} /\ items = {}
        /\ hits = {} /\ failed = {} /\ steady = {} /\ spoilt = {}
    BY DEF Init
  <2> QED BY <2>2, <2>3, <2>4 DEF TypeOK
<1>2. ServiceInv => AssetsOK /\ SteadyLive
  BY DEF ServiceInv
<1> QED BY <1>1, <1>2, TypeStep, ServiceInvHolds, KindInvHolds, ReceiptsInvHolds, PTL DEF Spec
============================================================================
