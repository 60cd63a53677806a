--------------------------- MODULE MCAlertManager ---------------------------
(***************************************************************************)
(* Constants of the AlertManager runs: a throttled and an aggregating      *)
(* action, two blocks with a match for each, and configurations in which   *)
(* an operator removed the policy of an action, or the action.             *)
(***************************************************************************)
EXTENDS AlertManager

MCActions == {"thr", "agg"}
MCMatches == {"t1", "t2", "g1", "g2"}
MCActionOf == [m \in MCMatches |-> IF m \in {"t1", "t2"} THEN "thr" ELSE "agg"]
MCBatches == {<<"t1", "g1">>, <<"g2", "t2">>}

LiveBatches == {<<"t1", "g1">>, <<"g2">>}

Loaded == [thr |-> "throttle", agg |-> "aggregation"]
PolicyRemoved == [thr |-> "throttle", agg |-> "none"]
ActionRemoved == [thr |-> "none", agg |-> "missing"]
AllConfigs == {Loaded, PolicyRemoved, ActionRemoved}
OneConfig == {Loaded}
AllFaults == FaultKinds
StopsAndErrors == {"stop", "db"}
OnlyStops == {"stop"}
=============================================================================
