------------------------------ MODULE MCOutbox ------------------------------
(***************************************************************************)
(* Constants of the Outbox runs: three payloads, enqueued alone or in a    *)
(* batch of two, one of them for an action that is not loaded.             *)
(***************************************************************************)
EXTENDS Outbox

MCKeys == {"k1", "k2", "k3"}
MCBatches == {<<"k1">>, <<"k2", "k3">>, <<"k3", "k1">>}
AllFaults == FaultKinds
Transient == {"exec", "db", "stop"}
OnlyStops == {"stop"}
=============================================================================
