---------------------------- MODULE ConfigStore ----------------------------
(***************************************************************************)
(* The configuration tables of the state repository (monitors, actions and *)
(* ABIs of one network) and the statements that read and write them.       *)
(*                                                                         *)
(* Monitors refer to actions by NAME, inside a JSON column, and to ABIs by *)
(* a foreign key.  Names are unique by an index, ids are AUTOINCREMENT and *)
(* never used again.  Each operator below is one SQL statement (or one     *)
(* transaction); what a handler does between two of them is in ConfigApi.  *)
(***************************************************************************)
EXTENDS Naturals, FiniteSets, Sequences

CONSTANTS
    ActionName,   \* names of actions
    MonitorName,  \* names of monitors
    AbiName,      \* names of ABIs
    NoAbi,        \* a monitor without abi_name
    Alike         \* per action name, the names whose JSON text matches its LIKE pattern

ASSUME StoreAssumption ==
    /\ NoAbi \notin AbiName
    /\ Alike \in [ActionName -> SUBSET ActionName]

VARIABLES
    actions,      \* rows [id, name, make]
    monitors,     \* rows [id, name, acts, abi, status]
    abis,         \* rows [name, kind]: kind "abi", or "json" that is no ABI
    nextId        \* [action, monitor]: the AUTOINCREMENT counters

tables == <<actions, monitors, abis, nextId>>

\* What the dispatcher can make of a stored action: "sound" always builds, a
\* "publisher" may fail to, and "unbuildable" stands for a webhook without a
\* client or for a type that is not compiled in.
Makes == {"sound", "publisher", "unbuildable"}

ActionRow == [id : Nat, name : ActionName, make : Makes]
MonitorRow == [id : Nat, name : MonitorName, acts : SUBSET ActionName,
               abi : AbiName \cup {NoAbi}, status : {"active", "paused"}]
AbiRow == [name : AbiName, kind : {"abi", "json"}]

EmptyTables ==
    /\ actions = {} /\ monitors = {} /\ abis = {}
    /\ nextId = [action |-> 1, monitor |-> 1]

----------------------------------------------------------------------------
(* Reads. *)

\* get_actions, as the names the validators and the dispatcher look up.
ActionNames == {a.name : a \in actions}

GetActionById(id) == {a \in actions : a.id = id}

GetActionByName(name) == {a \in actions : a.name = name}

GetMonitors == monitors

GetMonitorById(id) == {m \in monitors : m.id = id}

\* get_all_abis
GetAllAbis == abis

\* list_abis.
ListAbis == {a.name : a \in abis}

GetAbi(name) == {a \in abis : a.name = name}

\* The foreign key of monitors.abi_name.
AbiStored(abi) == abi = NoAbi \/ abi \in ListAbis

MonitorsUsingAbi(name) == {m \in monitors : m.abi = name}

Referring(name) == {m \in monitors : name \in m.acts}

\* Names that JSON spells with an escape (a quote or a backslash), so that the
\* pattern made of them does not even match themselves.
Opaque == {n \in ActionName : n \notin Alike[n]}

\* Mutant: only the monitors that are running block the deletion.
ActiveByActionName(name) ==
    {m \in monitors : m.status = "active" /\ m.acts \cap Alike[name] # {}}

\* The second query of get_monitors_by_action_id: LIKE looks for the name
\* between quotes in the JSON text, and ignores the case of ASCII letters.
GetMonitorsByActionName(name) == {m \in monitors : m.acts \cap Alike[name] # {}}

----------------------------------------------------------------------------
(* Writes.  A guard is a constraint of the schema or a row count. *)

\* Mutant: the row of a new monitor is written without the foreign key.
CanInsertUnreferenced(m) == m.name \notin {r.name : r \in monitors}

\* The unique index and the foreign key.
CanInsertMonitor(m) == m.name \notin {r.name : r \in monitors} /\ AbiStored(m.abi)

\* add_monitors with one monitor.
InsertMonitor(m) ==
    /\ monitors' = monitors \cup
         {[id |-> nextId.monitor, name |-> m.name, acts |-> m.acts,
           abi |-> m.abi, status |-> m.status]}
    /\ nextId' = [nextId EXCEPT !.monitor = @ + 1]
    /\ UNCHANGED <<actions, abis>>

\* update_monitor writes neither the name nor the status.
UpdateMonitor(id, m) ==
    /\ monitors' = {IF r.id = id THEN [r EXCEPT !.acts = m.acts, !.abi = m.abi] ELSE r :
                      r \in monitors}
    /\ UNCHANGED <<actions, abis, nextId>>

UpdateMonitorStatus(id, status) ==
    /\ monitors' = {IF r.id = id THEN [r EXCEPT !.status = status] ELSE r : r \in monitors}
    /\ UNCHANGED <<actions, abis, nextId>>

DeleteMonitor(id) ==
    /\ monitors' = monitors \ GetMonitorById(id)
    /\ UNCHANGED <<actions, abis, nextId>>

\* clear_monitors and add_monitors with every monitor of the file, in one
\* transaction, in the order of the file.
LoadMonitors(file) ==
    /\ monitors' = {[id |-> nextId.monitor + i - 1, name |-> file[i].name, acts |-> file[i].acts,
                     abi |-> file[i].abi, status |-> file[i].status] : i \in DOMAIN file}
    /\ nextId' = [nextId EXCEPT !.monitor = @ + Len(file)]
    /\ UNCHANGED <<actions, abis>>

CreateAction(name, make) ==
    /\ actions' = actions \cup {[id |-> nextId.action, name |-> name, make |-> make]}
    /\ nextId' = [nextId EXCEPT !.action = @ + 1]
    /\ UNCHANGED <<monitors, abis>>

\* The unique index allows the row to keep its own name.
CanRename(id, name) == \A a \in GetActionByName(name) : a.id = id

\* update_action writes name and configuration; the monitors keep the old name.
UpdateAction(id, name, make) ==
    /\ actions' = {IF a.id = id THEN [id |-> id, name |-> name, make |-> make] ELSE a : a \in actions}
    /\ UNCHANGED <<monitors, abis, nextId>>

DeleteAction(id) ==
    /\ actions' = actions \ GetActionById(id)
    /\ UNCHANGED <<monitors, abis, nextId>>

CreateAbi(name, kind) ==
    /\ abis' = abis \cup {[name |-> name, kind |-> kind]}
    /\ UNCHANGED <<actions, monitors, nextId>>

\* delete_abi's DELETE; the foreign key refuses it while a monitor refers to it.
DeleteAbi(name) ==
    /\ abis' = abis \ GetAbi(name)
    /\ UNCHANGED <<actions, monitors, nextId>>

============================================================================
