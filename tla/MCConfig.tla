----------------------------- MODULE MCConfig -------------------------------
(* Two actions and one monitor from files, and requests that collide. *)
EXTENDS ConfigApi

Base == [op |-> "none", id |-> 1, name |-> "m", acts |-> {}, abi |-> NoAbi, logs |-> FALSE,
         kind |-> "abi", make |-> "sound", status |-> "active", auth |-> TRUE, good |-> TRUE]

MCMenu ==
    {[Base EXCEPT !.op = "createMonitor", !.name = "n", !.acts = {"b"}],
     [Base EXCEPT !.op = "createMonitor", !.name = "n", !.acts = {"a"}, !.abi = "x", !.logs = TRUE],
     [Base EXCEPT !.op = "createMonitor", !.name = "n", !.acts = {"q"}, !.abi = "y", !.status = "paused"],
     [Base EXCEPT !.op = "updateMonitor", !.acts = {"b"}, !.abi = "y"],
     [Base EXCEPT !.op = "updateMonitor", !.acts = {"q"}],
     [Base EXCEPT !.op = "createMonitor", !.name = "n", !.acts = {"c"}],
     [Base EXCEPT !.op = "deleteMonitor"],
     [Base EXCEPT !.op = "setStatus", !.status = "paused"],
     [Base EXCEPT !.op = "createAction", !.name = "c"],
     [Base EXCEPT !.op = "createAction", !.name = "c", !.make = "unbuildable"],
     [Base EXCEPT !.op = "updateAction", !.name = "b"],
     [Base EXCEPT !.op = "updateAction", !.id = 3, !.name = "B"],
     [Base EXCEPT !.op = "updateAction", !.id = 2, !.name = "c", !.make = "publisher"],
     [Base EXCEPT !.op = "updateAction", !.id = 3, !.name = "c"],
     [Base EXCEPT !.op = "deleteAction", !.id = 2],
     [Base EXCEPT !.op = "deleteAction", !.id = 3],
     [Base EXCEPT !.op = "uploadAbi", !.name = "y", !.kind = "json"],
     [Base EXCEPT !.op = "uploadAbi", !.name = "y"],
     [Base EXCEPT !.op = "deleteAbi", !.name = "p"],
     [Base EXCEPT !.op = "deleteAbi", !.name = "x"],
     [Base EXCEPT !.op = "getMonitor", !.id = 0, !.auth = FALSE],
     [Base EXCEPT !.op = "getAction", !.id = 3, !.auth = FALSE],
     [Base EXCEPT !.op = "getAbi", !.name = "x", !.auth = FALSE],
     [Base EXCEPT !.op = "deleteMonitor", !.auth = FALSE],
     [Base EXCEPT !.op = "createAction", !.name = "c", !.good = FALSE]}

MCFileActions == <<"a", "b", "q">>

\* Action b is sent through a broker.
MCFileMake == [n \in ActionName |-> IF n = "b" THEN "publisher" ELSE "sound"]

\* LIKE takes b and B for the same name and does not find q, which JSON escapes.
MCAlike == [n \in ActionName |-> CASE n = "q" -> {} [] n \in {"b", "B"} -> {"b", "B"} [] OTHER -> {n}]

MCFileMonitors == <<[name |-> "m", acts |-> {"a", "b"}, abi |-> "p", logs |-> TRUE,
                     status |-> "active"]>>
=============================================================================
