----------------------------- MODULE ConfigApi ------------------------------
(***************************************************************************)
(* The REST API, the start of the process that fills the configuration     *)
(* tables from files, and the reload that follows a change.                *)
(*                                                                         *)
(* A handler checks its request against the database and against what the  *)
(* process loaded when it started, writes in a later statement, and then   *)
(* signals the supervisor over a watch channel.  Handlers run side by side *)
(* with each other and with the reload.  One action per await.             *)
(***************************************************************************)
EXTENDS ConfigStore

CONSTANTS
    Client,       \* connections
    Menu,         \* the requests clients may send
    FileActions,  \* names in the action file, in order
    FileMake,     \* what the dispatcher can make of an action of the file
    FileMonitors, \* [name, acts, abi, logs, status] of the monitor file, in order
    FileAbis,     \* names of the ABI files
    Faults,       \* subset of {"db", "disconnect", "crash"}
    MaxRequests,  \* bound on the requests
    MaxFaults,    \* bound on the faults
    MaxStarts     \* bound on the starts of the process

\* The requests the API accepts: the fields a handler does not read are arbitrary.
MonitorOps == {"createMonitor", "updateMonitor", "deleteMonitor", "setStatus"}
ReadOps == {"getMonitor", "getAction", "getAbi"}
Ops == MonitorOps \cup ReadOps \cup
       {"createAction", "updateAction", "deleteAction", "uploadAbi", "deleteAbi"}

Request ==
    [op : Ops, id : Nat, name : ActionName \cup MonitorName \cup AbiName,
     acts : SUBSET ActionName, abi : AbiName \cup {NoAbi}, logs : BOOLEAN,
     kind : {"abi", "json"}, make : Makes, status : {"active", "paused"}, auth : BOOLEAN, good : BOOLEAN]

ASSUME MenuAssumption ==
    /\ Menu \subseteq Request
    /\ \A r \in Menu :
          /\ r.op = "createMonitor" => r.name \in MonitorName
          /\ r.op \in {"createAction", "updateAction"} => r.name \in ActionName
          /\ r.op = "uploadAbi" => r.name \in AbiName

\* Each file names a thing once, and the monitor file fits the other two.
ASSUME FileAssumption ==
    /\ FileActions \in Seq(ActionName) /\ FileAbis \subseteq AbiName
    /\ FileMake \in [ActionName -> Makes]
    /\ FileMonitors \in Seq([name : MonitorName, acts : SUBSET ActionName,
                             abi : AbiName \cup {NoAbi}, logs : BOOLEAN,
                             status : {"active", "paused"}])
    /\ \A i, j \in DOMAIN FileActions : FileActions[i] = FileActions[j] => i = j
    /\ \A i, j \in DOMAIN FileMonitors : FileMonitors[i].name = FileMonitors[j].name => i = j
    /\ \A i \in DOMAIN FileMonitors :
          /\ FileMonitors[i].acts \subseteq {FileActions[j] : j \in DOMAIN FileActions}
          /\ FileMonitors[i].abi \in FileAbis \cup {NoAbi}
          /\ FileMonitors[i].logs => FileMonitors[i].abi # NoAbi

ASSUME BoundAssumption == MaxRequests \in Nat /\ MaxFaults \in Nat /\ MaxStarts \in Nat

VARIABLES
    phase,        \* "down", "abis", "actions", "monitors", "link", "up", "stopping", "refused"
    todo,         \* actions of the file not yet in the database
    known,        \* action names at the start: the validator's list
    dispatcher,   \* [routes, publishers]: the actions it holds; the publishers it was given
    loaded,       \* ABIs in the ABI service
    snapshot,     \* the monitors the engine runs
    signal,       \* the watch channel has a change the supervisor has not seen
    reload,       \* [pc, got]: the supervisor's reload
    req,          \* [pc, r] of each client's request
    answer,       \* status code of each client's last answer, 0 for none
    left,         \* what the bounds leave of [requests, faults, starts]
    \* History.
    missed,       \* a change was not followed by a signal or a read of the table
    raced,        \* clients during whose request another client wrote
    excused,      \* <<monitor id, action name>> the code lets dangle
    edits         \* subset of {"json", "action", "load"}

process == <<phase, todo, known, dispatcher, loaded, snapshot>>
channel == <<signal, reload>>
history == <<missed, raced, excused, edits>>
vars == <<tables, process, channel, req, answer, left, history>>

Idle == [pc |-> "idle", r |-> [op |-> "none"]]
Waiting == [pc |-> "wait", got |-> {}]
NoDispatcher == [routes |-> {}, publishers |-> {}]
Serving == phase \in {"up", "stopping"}

\* organize_assets keeps the active monitors.
Active(ms) == {m \in ms : m.status = "active"}

\* Nothing of the process is left.
Gone ==
    /\ todo = <<>> /\ known = {} /\ loaded = {} /\ snapshot = {}
    /\ dispatcher = NoDispatcher
    /\ signal = FALSE /\ reload = Waiting
    /\ req = [c \in Client |-> Idle]

Init ==
    /\ EmptyTables
    /\ phase = "down" /\ Gone
    /\ answer = [c \in Client |-> 0]
    /\ left = [requests |-> MaxRequests, faults |-> MaxFaults, starts |-> MaxStarts]
    /\ missed = FALSE /\ raced = {} /\ excused = {} /\ edits = {}

----------------------------------------------------------------------------
(* The start of the process: AppContextBuilder::build. *)

Start ==
    /\ phase \in {"down", "refused"}
    /\ left.starts > 0
    /\ left' = [left EXCEPT !.starts = @ - 1]
    /\ phase' = "abis"
    /\ UNCHANGED <<tables, todo, known, dispatcher, loaded, snapshot, channel, req, answer, history>>

\* sync_abis_from_filesystem: one file; an ABI that exists is left as it is.
SyncAbi(name) ==
    /\ phase = "abis"
    /\ name \in FileAbis \ ListAbis
    /\ CreateAbi(name, "abi")
    /\ UNCHANGED <<process, channel, req, answer, left, history>>

\* Mutant: the ABIs are loaded before the files are synced.
LoadRepositoryEarly ==
    /\ phase = "abis"
    /\ phase' = "actions" /\ loaded' = ListAbis
    /\ todo' = IF actions = {} THEN FileActions ELSE <<>>
    /\ UNCHANGED <<tables, known, dispatcher, snapshot, channel, req, answer, left, history>>

\* AbiRepository::new parses every stored ABI and stops at one that is none.
LoadRepository ==
    /\ phase = "abis" /\ FileAbis \subseteq ListAbis
    /\ IF \A a \in GetAllAbis : a.kind = "abi"
       THEN phase' = "actions" /\ loaded' = ListAbis
            /\ todo' = IF actions = {} THEN FileActions ELSE <<>>
       ELSE phase' = "refused" /\ UNCHANGED <<loaded, todo>>
    /\ UNCHANGED <<tables, known, dispatcher, snapshot, channel, req, answer, left, history>>

\* load_actions_from_file: the rows are written one by one.
LoadAction ==
    /\ phase = "actions" /\ todo # <<>>
    /\ CreateAction(Head(todo), FileMake[Head(todo)])
    /\ todo' = Tail(todo)
    /\ UNCHANGED <<phase, known, dispatcher, loaded, snapshot, channel, req, answer, left, history>>

ActionsLoaded ==
    /\ phase = "actions" /\ todo = <<>>
    /\ phase' = "monitors"
    /\ UNCHANGED <<tables, todo, known, dispatcher, loaded, snapshot, channel, req, answer, left, history>>

\* Mutant: the validator asks the database instead of its own list.
ActionsExistNow(m, names) == m.acts \subseteq ActionNames

\* ActionValidator of the monitor validator.
ActionsExist(m, names) == m.acts \subseteq names

\* validate: action references, and an ABI that is loaded when the script
\* reads logs.  The ABI of a script that does not read logs is not looked at.
Validate(m, names) == ActionsExist(m, names) /\ (m.logs => m.abi \in loaded)

\* load_monitors_from_file: skipped when a row exists, else all or nothing.
LoadMonitorFile ==
    /\ phase = "monitors"
    /\ \/ monitors # {} /\ phase' = "link" /\ UNCHANGED tables
       \/ /\ monitors = {}
          /\ \A i \in DOMAIN FileMonitors : Validate(FileMonitors[i], ActionNames)
          /\ LoadMonitors(FileMonitors) /\ phase' = "link"
       \/ /\ monitors = {}
          /\ \E i \in DOMAIN FileMonitors : ~Validate(FileMonitors[i], ActionNames)
          /\ phase' = "refused" /\ UNCHANGED tables
    /\ UNCHANGED <<todo, known, dispatcher, loaded, snapshot, channel, req, answer, left, history>>

\* load_abis_from_monitors fails on an ABI the service does not have.
CanLink == \A m \in monitors : m.abi # NoAbi => m.abi \in loaded

\* ActionDispatcher::new returns an error for a webhook it cannot make a client
\* for, and for a type that is not compiled in.
CanDispatch == \A a \in actions : a.make # "unbuildable"

Publishers == {a.name : a \in {b \in actions : b.make = "publisher"}}

\* The rest of build: link the ABIs, read monitors and actions, make the
\* dispatcher, go up.  A publisher whose from_config fails is logged and
\* skipped; the validator keeps its name.
GoUp(failing) ==
    /\ phase = "link" /\ CanLink /\ CanDispatch
    /\ phase' = "up"
    /\ known' = ActionNames
    /\ dispatcher' = [routes |-> ActionNames \ failing, publishers |-> Publishers]
    /\ snapshot' = Active(GetMonitors)
    /\ UNCHANGED <<tables, todo, loaded, channel, req, answer, left, history>>

\* ABIs that cannot be linked or a dispatcher that cannot be made end the start.
BuildFails ==
    /\ phase = "link" /\ ~(CanLink /\ CanDispatch)
    /\ phase' = "refused"
    /\ UNCHANGED <<tables, todo, known, dispatcher, loaded, snapshot, channel, req, answer, left, history>>

\* Mutant: a stop cuts off a reload.
StopAtOnce ==
    /\ phase = "up"
    /\ left.starts > 0
    /\ phase' = "stopping"
    /\ UNCHANGED <<tables, todo, known, dispatcher, loaded, snapshot, channel, req, answer, left, history>>

\* The supervisor leaves its loop; handlers of open connections still run.
Stop ==
    /\ phase = "up" /\ reload.pc = "wait"
    /\ left.starts > 0
    /\ phase' = "stopping"
    /\ UNCHANGED <<tables, todo, known, dispatcher, loaded, snapshot, channel, req, answer, left, history>>

\* The process ends.  A half-loaded action table stays.
Exit ==
    /\ phase' = "down"
    /\ todo' = <<>> /\ known' = {} /\ loaded' = {} /\ snapshot' = {}
    /\ dispatcher' = NoDispatcher
    /\ signal' = FALSE /\ reload' = Waiting
    /\ req' = [c \in Client |-> Idle]
    /\ missed' = FALSE
    /\ edits' = edits \cup IF todo # <<>> THEN {"load"} ELSE {}
    /\ UNCHANGED <<tables, answer, raced, excused>>

StopEnds == phase = "stopping" /\ Exit /\ UNCHANGED left

Fault(f) ==
    /\ f \in Faults /\ left.faults > 0
    /\ left' = [left EXCEPT !.faults = @ - 1]

Crash ==
    /\ phase \notin {"down", "refused"} /\ left.starts > 0
    /\ Fault("crash")
    /\ Exit

----------------------------------------------------------------------------
(* The handlers. *)

\* From<PersistenceError>.
PersistenceCode(e) == CASE e = "NotFound" -> 404 [] e = "AbiInUse" -> 409 [] OTHER -> 500

\* From<ActionValidationError> and From<MonitorPersistenceValidationError>.
ValidationCode(e) ==
    CASE e = "Invalid" -> 422 [] e = "NameConflict" -> 409 [] OTHER -> PersistenceCode(e)

\* The first await of each handler.
FirstStep(op) ==
    CASE op \in ReadOps -> "read"
      [] op \in {"createMonitor", "updateMonitor"} -> "validate"
      [] op \in {"updateAction", "deleteAction", "uploadAbi"} -> "exists"
      [] op = "createAction" -> "name"
      [] op = "deleteAbi" -> "unused"
      [] OTHER -> "write"

At(c, op, pc) == req[c].pc = pc /\ req[c].r.op = op

Answer(c, code) ==
    /\ req' = [req EXCEPT ![c] = Idle]
    /\ answer' = [answer EXCEPT ![c] = code]

Goto(c, pc) == req' = [req EXCEPT ![c].pc = pc] /\ UNCHANGED answer

\* The await ends with a value that lets the handler go on, or with an answer.
Step(c, ok, pc, code) == IF ok THEN Goto(c, pc) ELSE Answer(c, code)

\* The checks that need no database: the settings of an action, the network
\* and the address of a monitor, the syntax of JSON.
WellFormed(r) == r.good

\* A request arrives: authentication, then those checks.
Begin(c, r) ==
    /\ Serving /\ req[c].pc = "idle"
    /\ left.requests > 0
    /\ left' = [left EXCEPT !.requests = @ - 1]
    /\ IF r.op \notin ReadOps /\ ~r.auth THEN Answer(c, 401)
       ELSE IF ~WellFormed(r) THEN Answer(c, ValidationCode("Invalid"))
       ELSE /\ req' = [req EXCEPT ![c] = [pc |-> FirstStep(r.op), r |-> r]]
            /\ answer' = [answer EXCEPT ![c] = 0]
    /\ UNCHANGED <<tables, process, channel, history>>

\* A step of a handler that only reads.  What other clients write from the
\* first one on can make the handler's checks stale.
Reads(c) ==
    /\ raced' = IF req[c].pc = FirstStep(req[c].r.op) THEN raced \ {c} ELSE raced
    /\ UNCHANGED <<tables, process, channel, left, missed, excused, edits>>

\* get_monitor_details: the repository parses the id; 0 stands for one that is
\* no number.
MonitorDetails(r) ==
    CASE r.id = 0 -> PersistenceCode("InvalidInput")
      [] r.id # 0 /\ GetMonitorById(r.id) = {} -> 404
      [] OTHER -> 200

\* get_action_details
ActionDetails(r) == IF GetActionById(r.id) = {} THEN 404 ELSE 200

\* get_abi_by_name
AbiDetails(r) == IF GetAbi(r.name) = {} THEN 404 ELSE 200

ReadDetails(c) ==
    LET r == req[c].r
    IN  /\ req[c].pc = "read"
        /\ Answer(c, CASE r.op = "getMonitor" -> MonitorDetails(r)
                       [] r.op = "getAction" -> ActionDetails(r)
                       [] r.op = "getAbi" -> AbiDetails(r))
        /\ Reads(c)

\* validate_for_create and validate_for_update: the name against the table,
\* then actions and ABI against what the process loaded at its start.
ValidateMonitor(c) ==
    LET r == req[c].r
        taken == \E m \in GetMonitors :
                    m.name = r.name /\ (r.op = "updateMonitor" => m.id # r.id)
    IN  /\ req[c].pc = "validate"
        /\ Step(c, ~taken /\ Validate(r, known), "write",
                ValidationCode(IF taken THEN "NameConflict" ELSE "Invalid"))
        /\ Reads(c)

\* Mutant: nobody looks for an action with the same name.
ActionNameUnchecked(c) == req[c].pc = "name" /\ Goto(c, "write") /\ Reads(c)

\* validate_for_create and the second half of validate_for_update of actions.
ActionNameFree(c) ==
    LET r == req[c].r
        taken == \E a \in GetActionByName(r.name) : r.op = "updateAction" => a.id # r.id
    IN  /\ req[c].pc = "name"
        /\ Step(c, ~taken, "write", ValidationCode("NameConflict"))
        /\ Reads(c)

\* update_action: the first half of validate_for_update.
ActionExists(c) ==
    /\ At(c, "updateAction", "exists")
    /\ Step(c, GetActionById(req[c].r.id) # {}, "name", ValidationCode("NotFound"))
    /\ Reads(c)

\* delete_action: the first query of get_monitors_by_action_id takes the name.
ActionNameRead(c) ==
    /\ At(c, "deleteAction", "exists")
    /\ \/ /\ GetActionById(req[c].r.id) = {}
          /\ Answer(c, PersistenceCode("NotFound"))
       \/ \E a \in GetActionById(req[c].r.id) :
             /\ req' = [req EXCEPT ![c] = [pc |-> "unused", r |-> [req[c].r EXCEPT !.name = a.name]]]
             /\ UNCHANGED answer
    /\ Reads(c)

ActionUnused(c) ==
    /\ At(c, "deleteAction", "unused")
    /\ Step(c, GetMonitorsByActionName(req[c].r.name) = {}, "write", 409)
    /\ Reads(c)

AbiNameFree(c) ==
    /\ At(c, "uploadAbi", "exists")
    /\ Step(c, GetAbi(req[c].r.name) = {}, "write", 409)
    /\ Reads(c)

AbiUnused(c) ==
    /\ At(c, "deleteAbi", "unused")
    /\ Step(c, MonitorsUsingAbi(req[c].r.name) = {}, "write", PersistenceCode("AbiInUse"))
    /\ Reads(c)

----------------------------------------------------------------------------
(* The writing step of the handlers: the write happens and the handler goes  *)
(* on to signal it or to answer, or the statement fails and nothing changes. *)

Wrote(c) ==
    /\ raced' = raced \cup (Client \ {c})
    /\ UNCHANGED <<process, channel, left, missed>>

Refuse(c, e) ==
    /\ Answer(c, PersistenceCode(e))
    /\ UNCHANGED <<tables, process, channel, left, history>>

\* History: the names a monitor row is written with although no action has them.
Unmatched(id, acts) == {<<id, n>> : n \in acts \ ActionNames}

\* History: the references that break when the name of a goes.
Broken(id) == UNION {{<<m.id, a.name>> : m \in Referring(a.name)} : a \in GetActionById(id)}

WriteNewMonitor(c) ==
    LET r == req[c].r
    IN  /\ At(c, "createMonitor", "write")
        /\ \/ /\ CanInsertMonitor(r)
              /\ InsertMonitor(r) /\ Goto(c, "notify") /\ Wrote(c)
              /\ excused' = excused \cup Unmatched(nextId.monitor, r.acts)
              /\ UNCHANGED edits
           \/ ~CanInsertMonitor(r) /\ Refuse(c, "OperationFailed")

WriteMonitor(c) ==
    LET r == req[c].r
    IN  /\ At(c, "updateMonitor", "write")
        /\ \/ /\ GetMonitorById(r.id) # {} /\ AbiStored(r.abi)
              /\ UpdateMonitor(r.id, r) /\ Goto(c, "notify") /\ Wrote(c)
              /\ excused' = excused \cup Unmatched(r.id, r.acts)
              /\ UNCHANGED edits
           \/ GetMonitorById(r.id) # {} /\ ~AbiStored(r.abi) /\ Refuse(c, "OperationFailed")
           \/ GetMonitorById(r.id) = {} /\ Refuse(c, "NotFound")

RemoveMonitor(c) ==
    LET r == req[c].r
    IN  /\ At(c, "deleteMonitor", "write")
        /\ \/ /\ GetMonitorById(r.id) # {}
              /\ DeleteMonitor(r.id) /\ Goto(c, "notify") /\ Wrote(c)
              /\ UNCHANGED <<excused, edits>>
           \/ GetMonitorById(r.id) = {} /\ Refuse(c, "NotFound")

WriteStatus(c) ==
    LET r == req[c].r
    IN  /\ At(c, "setStatus", "write")
        /\ \/ /\ GetMonitorById(r.id) # {}
              /\ UpdateMonitorStatus(r.id, r.status) /\ Goto(c, "notify") /\ Wrote(c)
              /\ UNCHANGED <<excused, edits>>
           \/ GetMonitorById(r.id) = {} /\ Refuse(c, "NotFound")

WriteNewAction(c) ==
    LET r == req[c].r
    IN  /\ At(c, "createAction", "write")
        /\ \/ /\ GetActionByName(r.name) = {}
              /\ CreateAction(r.name, r.make) /\ Goto(c, "notify") /\ Wrote(c)
              /\ UNCHANGED <<excused, edits>>
           \/ GetActionByName(r.name) # {} /\ Refuse(c, "OperationFailed")

WriteAction(c) ==
    LET r == req[c].r
    IN  /\ At(c, "updateAction", "write")
        /\ \/ /\ GetActionById(r.id) # {} /\ CanRename(r.id, r.name)
              /\ UpdateAction(r.id, r.name, r.make) /\ Goto(c, "notify") /\ Wrote(c)
              /\ excused' = excused \cup Broken(r.id)
              /\ edits' = edits \cup {"action"}
           \/ GetActionById(r.id) # {} /\ ~CanRename(r.id, r.name) /\ Refuse(c, "OperationFailed")
           \/ GetActionById(r.id) = {} /\ Refuse(c, "NotFound")

RemoveAction(c) ==
    LET r == req[c].r
    IN  /\ At(c, "deleteAction", "write")
        /\ \/ /\ GetActionById(r.id) # {}
              /\ DeleteAction(r.id) /\ Goto(c, "notify") /\ Wrote(c)
              /\ excused' = excused \cup IF c \in raced \/ r.name \in Opaque THEN Broken(r.id) ELSE {}
              /\ edits' = edits \cup {"action"}
           \/ GetActionById(r.id) = {} /\ Refuse(c, "NotFound")

\* The ABI handlers answer without a signal.
WriteNewAbi(c) ==
    LET r == req[c].r
    IN  /\ At(c, "uploadAbi", "write")
        /\ \/ /\ GetAbi(r.name) = {}
              /\ CreateAbi(r.name, r.kind) /\ Answer(c, 200) /\ Wrote(c)
              /\ edits' = edits \cup IF r.kind = "json" THEN {"json"} ELSE {}
              /\ UNCHANGED excused
           \/ GetAbi(r.name) # {} /\ Refuse(c, "OperationFailed")

RemoveAbi(c) ==
    LET r == req[c].r
    IN  /\ At(c, "deleteAbi", "write")
        /\ \/ /\ GetAbi(r.name) # {} /\ MonitorsUsingAbi(r.name) = {}
              /\ DeleteAbi(r.name) /\ Answer(c, 200) /\ Wrote(c)
              /\ UNCHANGED <<excused, edits>>
           \/ MonitorsUsingAbi(r.name) # {} /\ Refuse(c, "OperationFailed")
           \/ GetAbi(r.name) = {} /\ MonitorsUsingAbi(r.name) = {} /\ Refuse(c, "NotFound")

\* Mutant: the signal is sent only while the supervisor waits for one.
NotifyWaiting(c) ==
    /\ req[c].pc = "notify"
    /\ signal' = (signal \/ reload.pc = "wait")
    /\ Answer(c, 200)
    /\ UNCHANGED <<tables, process, reload, left, history>>

\* config_tx.send: a watch channel holds one change, whoever sent it.
Notify(c) ==
    /\ req[c].pc = "notify"
    /\ signal' = TRUE
    /\ Answer(c, 200)
    /\ UNCHANGED <<tables, process, reload, left, history>>

\* The connection closes and hyper drops the handler at its await.
Disconnect(c) ==
    /\ req[c].pc # "idle"
    /\ Fault("disconnect")
    /\ req' = [req EXCEPT ![c] = Idle]
    /\ missed' = (missed \/ (req[c].pc = "notify" /\ req[c].r.op \in MonitorOps))
    /\ UNCHANGED <<tables, process, channel, answer, raced, excused, edits>>

\* A statement fails; execute_query_with_error_handling.
DbError(c) ==
    /\ req[c].pc \notin {"idle", "notify"}
    /\ Fault("db")
    /\ Answer(c, PersistenceCode("OperationFailed"))
    /\ UNCHANGED <<tables, process, channel, history>>

----------------------------------------------------------------------------
(* The supervisor's reload. *)

SeeChange ==
    /\ phase = "up" /\ signal /\ reload.pc = "wait"
    /\ signal' = FALSE
    /\ reload' = [reload EXCEPT !.pc = "read"]
    /\ UNCHANGED <<tables, process, req, answer, left, history>>

ReadTable ==
    /\ reload.pc = "read"
    /\ reload' = [pc |-> "apply", got |-> GetMonitors]
    /\ missed' = FALSE
    /\ UNCHANGED <<tables, process, signal, req, answer, left, raced, excused, edits>>

\* The error is logged; nothing reads the table again until the next signal.
ReadFails ==
    /\ reload.pc = "read"
    /\ Fault("db")
    /\ reload' = Waiting
    /\ missed' = TRUE
    /\ UNCHANGED <<tables, process, signal, req, answer, raced, excused, edits>>

\* MonitorManager::update.
Apply ==
    /\ reload.pc = "apply"
    /\ snapshot' = Active(reload.got)
    /\ reload' = Waiting
    /\ UNCHANGED <<tables, phase, todo, known, dispatcher, loaded, signal, req, answer, left, history>>

----------------------------------------------------------------------------

Build == Start \/ (\E n \in FileAbis : SyncAbi(n)) \/ LoadRepository \/ LoadAction
         \/ ActionsLoaded \/ LoadMonitorFile
         \/ (\E failing \in SUBSET Publishers : GoUp(failing)) \/ BuildFails

Check(c) == ReadDetails(c) \/ ValidateMonitor(c) \/ ActionNameFree(c) \/ ActionExists(c)
            \/ ActionNameRead(c) \/ ActionUnused(c) \/ AbiNameFree(c) \/ AbiUnused(c)

Write(c) == WriteNewMonitor(c) \/ WriteMonitor(c) \/ RemoveMonitor(c) \/ WriteStatus(c)
            \/ WriteNewAction(c) \/ WriteAction(c) \/ RemoveAction(c)
            \/ WriteNewAbi(c) \/ RemoveAbi(c)

Handle(c) == Check(c) \/ Write(c) \/ Notify(c)

Reload == SeeChange \/ ReadTable \/ Apply

Next ==
    \/ Build
    \/ \E c \in Client : (\E r \in Menu : Begin(c, r)) \/ Handle(c) \/ Disconnect(c) \/ DbError(c)
    \/ Reload \/ ReadFails
    \/ Stop \/ StopEnds \/ Crash

\* Every await of a handler and of the supervisor's reload ends.
Fairness == (\A c \in Client : WF_vars(Handle(c))) /\ WF_vars(Reload)

Spec == Init /\ [][Next]_vars /\ Fairness

----------------------------------------------------------------------------
(* Properties *)

\* Types.  The snapshot is empty unless the engine runs, handlers exist only
\* in a process, and actions are left to load only while they are loaded.
Pcs == {"idle", "read", "validate", "exists", "name", "unused", "write", "notify"}

\* What a handler works on: a request, which delete_action completes with the
\* name it has read.
Requests ==
    Menu \cup {[r EXCEPT !.name = n] : r \in {q \in Menu : q.op = "deleteAction"}, n \in ActionName}

TypeOK ==
    /\ actions \subseteq ActionRow /\ monitors \subseteq MonitorRow /\ abis \subseteq AbiRow
    /\ nextId \in [action : Nat, monitor : Nat]
    /\ phase \in {"down", "abis", "actions", "monitors", "link", "up", "stopping", "refused"}
    /\ todo \in Seq(ActionName) /\ known \subseteq ActionName /\ loaded \subseteq AbiName
    /\ snapshot \subseteq MonitorRow
    /\ dispatcher \in [routes : SUBSET ActionName, publishers : SUBSET ActionName]
    /\ signal \in BOOLEAN
    /\ reload.pc \in {"wait", "read", "apply"} /\ reload.got \subseteq MonitorRow
    /\ \A c \in Client :
          /\ req[c].pc \in Pcs
          /\ req[c].pc # "idle" => Serving /\ req[c].r \in Requests
    /\ todo # <<>> => phase = "actions"
    /\ snapshot # {} => phase \in {"up", "stopping", "refused"}
    /\ reload.pc # "wait" => phase = "up"

\* Names and ids identify rows, and a monitor's ABI is stored, although the
\* validators look at tables that change before the handlers write, and the
\* validator knows only the ABIs of the start.
TablesConsistent ==
    /\ \A a, b \in actions : a.id = b.id \/ a.name = b.name => a = b
    /\ \A m, n \in monitors : m.id = n.id \/ m.name = n.name => m = n
    /\ \A a, b \in abis : a.name = b.name => a = b
    /\ \A m \in monitors : AbiStored(m.abi)

\* A change of the monitors is never forgotten: while the engine runs others
\* than the active ones of the table, a signal is pending, or a handler is
\* about to send one, or a reload has the table still to read or has read
\* it, or a fault lost the signal.  Signals that collapse lose nothing.
NoChangeForgotten ==
    phase = "up" /\ snapshot # Active(monitors) =>
        \/ signal
        \/ \E c \in Client : req[c].pc = "notify" /\ req[c].r.op \in MonitorOps
        \/ reload.pc = "read"
        \/ reload.pc = "apply" /\ Active(reload.got) = Active(monitors)
        \/ missed

\* A monitor names an action that does not exist only if the action was
\* renamed, the monitor was checked against the list of the start, another
\* client wrote during the deletion, or the name is one that LIKE misses.
DanglingExplained ==
    \A m \in monitors : \A n \in m.acts \ ActionNames : <<m.id, n>> \in excused

\* The dispatcher of the running process has every action its monitors name,
\* but for the references excused above and for publishers that could not be
\* created when it started: reloads bring in monitors, never actions.
AlertsRouted ==
    Serving => \A m \in snapshot : \A n \in m.acts \ dispatcher.routes :
                  <<m.id, n>> \in excused \/ n \in dispatcher.publishers

\* The start fails only because JSON that is no ABI was uploaded, because
\* the monitor file is read again after its actions were changed over the API
\* or never completely loaded, or because an action was stored that the
\* dispatcher cannot build, of which ActionTypeConfig::validate looks at the
\* title only.  Linking the ABIs of the monitors never fails.
RefusalExplained ==
    /\ phase = "link" => CanLink
    /\ phase = "refused" =>
          \/ "json" \in edits /\ \E a \in abis : a.kind = "json"
          \/ monitors = {} /\ edits \cap {"action", "load"} # {}
          \/ ~CanDispatch

\* The validator let pass an ABI that is not stored: it looks at the ABI only
\* of a script that reads logs, and only in the list of the start.
MissedAbi(r) ==
    /\ r.op \in {"createMonitor", "updateMonitor"} /\ ~AbiStored(r.abi)
    /\ r.logs => r.abi \in loaded

\* A request is answered with 500 only after a fault, when another client
\* wrote during the request, when the id of a monitor to read is no number, or
\* when the validator missed that its ABI is not stored and the foreign key
\* did not (rest_api.md promises 422 for every ABI that does not exist).
InternalErrorExplained ==
    [][\A c \in Client :
          req[c].pc # "idle" /\ req'[c].pc = "idle" /\ answer'[c] = 500 =>
              \/ left'.faults # left.faults
              \/ c \in raced
              \/ MissedAbi(req[c].r)
              \/ req[c].r.op = "getMonitor" /\ req[c].r.id = 0]_vars

\* A change reaches the engine: with awaits that end and unless a fault lost
\* the signal, the engine runs the active monitors of the table in the end.
ChangesReachEngine ==
    phase = "up" /\ snapshot # Active(monitors)
        ~> phase # "up" \/ missed \/ snapshot = Active(monitors)

----------------------------------------------------------------------------
(* The inductive invariant behind the proofs in ConfigApi_proofs. *)

\* The types TypeOK leaves to the other variables.
ShapeInv ==
    /\ req \in [Client -> [pc : Pcs, r : Requests \cup {Idle.r}]]
    /\ reload \in [pc : {"wait", "read", "apply"}, got : SUBSET MonitorRow]
    /\ answer \in [Client -> Nat]
    /\ left \in [requests : Nat, faults : Nat, starts : Nat]

\* The counters are ahead of every id handed out.
IdInv ==
    /\ \A a \in actions : a.id < nextId.action
    /\ \A m \in monitors : m.id < nextId.monitor

\* How far the start has come: nothing runs yet, the ABIs of the files are stored and what is
\* stored is loaded, the actions still to load are not in the table, and
\* unless the API changed them or a load was cut off, the table holds the
\* actions of the file.
StartInv ==
    /\ snapshot # {} => Serving
    /\ phase \in {"actions", "monitors", "link"} => loaded = ListAbis /\ FileAbis \subseteq ListAbis
    /\ \A i, j \in DOMAIN todo : todo[i] = todo[j] => i = j
    /\ \A i \in DOMAIN todo : todo[i] \notin ActionNames
    /\ \/ edits \cap {"action", "load"} # {}
       \/ actions = {} /\ phase \in {"down", "abis", "refused"}
       \/ \A i \in DOMAIN FileActions :
             FileActions[i] \in ActionNames \/ \E j \in DOMAIN todo : todo[j] = FileActions[i]
    /\ (\E a \in abis : a.kind = "json") => "json" \in edits

\* What the checks of c's handler found, as long as no other client wrote.
StillTrue(c) ==
    LET r == req[c].r
        at(op, pcs) == r.op = op /\ req[c].pc \in pcs
    IN  /\ at("deleteAction", {"unused", "write"}) =>
              \A a \in GetActionById(r.id) : a.name = r.name
        /\ at("deleteAction", {"write"}) => GetMonitorsByActionName(r.name) = {}
        /\ at("createMonitor", {"write"}) => r.name \notin {m.name : m \in monitors}
        /\ at("createAction", {"write"}) => GetActionByName(r.name) = {}
        /\ at("updateAction", {"write"}) => CanRename(r.id, r.name)
        /\ at("uploadAbi", {"write"}) => GetAbi(r.name) = {}
        /\ at("deleteAbi", {"write"}) => MonitorsUsingAbi(r.name) = {}

\* The awaits that belong to few of the operations.
OnPath(q) ==
    /\ q.pc = "read" => q.r.op \in ReadOps
    /\ q.pc = "validate" => q.r.op \in {"createMonitor", "updateMonitor"}
    /\ q.pc = "name" => q.r.op \in {"createAction", "updateAction"}

HandlerInv ==
    \A c \in Client :
        /\ req[c].pc # "idle" => answer[c] = 0
        /\ OnPath(req[c])
        /\ req[c].pc = "write" /\ req[c].r.op \in {"createMonitor", "updateMonitor"} =>
              req[c].r.acts \subseteq known /\ (req[c].r.logs => req[c].r.abi \in loaded)
        /\ c \in raced \/ StillTrue(c)

\* The monitors of the table, of a reload under way and of the engine name
\* known actions, but for the excused references, and the dispatcher has the
\* known actions, but for publishers.
RoutedInv ==
    Serving => /\ \A m \in monitors \cup reload.got \cup snapshot :
                     \A n \in m.acts \ known : <<m.id, n>> \in excused
               /\ known \subseteq dispatcher.routes \cup dispatcher.publishers

\* A signal is pending or will be, or was lost to a fault.
SignalDue ==
    \/ signal
    \/ \E c \in Client : req[c].pc = "notify" /\ req[c].r.op \in MonitorOps
    \/ missed

\* What a reload has read and not applied yet will be read again if the table
\* has changed since.
ReloadInv ==
    /\ reload.pc # "apply" => reload.got = {}
    /\ reload.pc = "apply" /\ Active(reload.got) # Active(monitors) => SignalDue

IInv ==
    /\ TypeOK /\ ShapeInv /\ IdInv /\ TablesConsistent /\ StartInv /\ HandlerInv
    /\ DanglingExplained /\ RoutedInv /\ ReloadInv /\ NoChangeForgotten /\ RefusalExplained

============================================================================
