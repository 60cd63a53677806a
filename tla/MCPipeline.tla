----------------------------- MODULE MCPipeline -----------------------------
(***************************************************************************)
(* Constants of the runs of the pipeline with the outbox table.  Chunks of *)
(* two (so a fetch returns up to three blocks and a batch is two), one     *)
(* confirmation, and matches on blocks in the first and second batch.      *)
(***************************************************************************)
EXTENDS Redelivery

MCMatchBlocks == {2, 3}
AllFaults == FaultKinds
TransientFaults == {"fetch", "persist"}
OnlyStops == {"stop"}
MinusThree == -3
=============================================================================
