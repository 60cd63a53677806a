----------------------------- MODULE MCMatching -----------------------------
(* Two contracts, two ABIs that share an event, and seven monitors on four *)
(* ids.                                                                    *)
EXTENDS Matching

Monitor(id, address, abi, reads, names, log) ==
    [id |-> id, status |-> "active", address |-> address, abi |-> abi,
     reads |-> reads, names |-> names, log |-> log, calls |-> {"pause"},
     join |-> "any", receipt |-> FALSE]

MCAddress == {"A", "B"}
MCEvent == {"Transfer", "Paused"}
MCAbiName == {"erc20", "admin"}
MCAbiEvents == [abi \in MCAbiName |-> IF abi = "erc20" THEN {"Transfer"}
                                      ELSE {"Transfer", "Paused"}]
MCAbiCalls == [abi \in MCAbiName |-> IF abi = "erc20" THEN {} ELSE {"pause"}]

MCCatalogue == {
    \* Transfers of A, or its pauses by a call, with one of the two ABIs.
    Monitor(1, "A", "erc20", {"log"}, {"Transfer"}, {"Transfer"}),
    [Monitor(1, "A", "admin", {"log", "call"}, {}, {"Paused"}) EXCEPT !.join = "all"],
    \* Pauses of A or calls of A; everything of B, or large transactions.
    Monitor(2, "A", "admin", {"log", "call"}, {"Paused"}, {"Paused"}),
    Monitor(2, "B", "admin", {"log", "tx"}, {}, {"Transfer", "Paused"}),
    \* All contracts.
    Monitor(3, "all", "erc20", {"log"}, {"Transfer"}, {"Transfer"}),
    [Monitor(3, "all", "erc20", {"log"}, {"Transfer"}, {"Transfer"})
        EXCEPT !.status = "paused"],
    \* Transactions, and transactions with the gas they used.
    Monitor(4, "none", NoAbi, {"tx"}, {}, {}),
    [Monitor(4, "none", NoAbi, {"tx"}, {}, {}) EXCEPT !.receipt = TRUE],
    \* Refused by the validator: a log monitor without address, one that
    \* decodes the calls of all contracts.
    Monitor(1, "none", "erc20", {"log"}, {}, {"Transfer"}),
    Monitor(2, "all", "admin", {"call"}, {}, {}) }

Tx(hash, to, selector, rich) == [hash |-> hash, to |-> to, selector |-> selector, rich |-> rich]
Log(tx, index, address, topic) == [tx |-> tx, index |-> index, address |-> address, topic |-> topic]

MCBlocks == {
    [txs |-> {Tx(1, "A", "pause", FALSE), Tx(2, "create", "none", TRUE)},
     logs |-> {Log(1, 0, "A", "Paused"), Log(1, 1, "B", "Transfer")}],
    [txs |-> {Tx(1, "A", "pause", FALSE), Tx(2, "B", "transfer", TRUE)},
     logs |-> {Log(2, 0, "A", "Transfer"), Log(2, 1, "B", NoTopic)}] }
============================================================================
